-------------------------------- MODULE Rps ----------------------------------
(***************************************************************************)
(* The Rock-Paper-Scissors server (rps.c) and its players.  A player signs *)
(* up, plays rounds as long as its opponent does, and quits, at any time   *)
(* of its own or when told that the opponent has quit (the discipline of   *)
(* rps_computer_client; a player that exits without RpsQuit() keeps its    *)
(* slot, and its opponent waits, for ever).                                *)
(***************************************************************************)
EXTENDS Integers, Sequences, FiniteSetsExt

CONSTANTS
  Players,         \* tids
  RPS_MAX_PLAYERS,
  MaxCalls         \* bound: calls the players make

ASSUME RpsAssumption == RPS_MAX_PLAYERS \in Nat

VARIABLES
  rpsInbox, \* messages the server has not received
  slots,    \* the slots, numbered from 0
  waiting,  \* slot of the unpaired player, or -1
  g_rps,    \* the counters that are shown
  player,   \* each player: "out", "runs", or the call it is in; and its last answer
  rpsCalls  \* history: calls made

rpsVars == <<rpsInbox, slots, waiting, g_rps, player, rpsCalls>>

Moves == {"rock", "paper", "scissors"}
NoMove == "none"
PlayerSlots == 0..RPS_MAX_PLAYERS - 1
FreeSlot == [in_use |-> FALSE, tid |-> 0, opp |-> -1, move |-> NoMove, played |-> FALSE]
Answer(result, opp_move) == [result |-> result, opp_move |-> opp_move]

RpsInit ==
  /\ rpsInbox = <<>>
  /\ slots = [s \in PlayerSlots |-> FreeSlot]
  /\ waiting = -1
  /\ g_rps = [games_played |-> 0, p1_wins |-> 0, p2_wins |-> 0, ties |-> 0,
              active_matches |-> 0, m_active |-> FALSE, m_p1_tid |-> 0, m_p2_tid |-> 0,
              m_last_result |-> "none"]
  /\ player = [p \in Players |-> [at |-> "out", got |-> Answer("none", NoMove)]]
  /\ rpsCalls = 0

-----------------------------------------------------------------------------
(* Players. *)

RpsAsks(p, type, move) ==
  /\ rpsCalls < MaxCalls \/ type = "QUIT"
  /\ rpsInbox' = Append(rpsInbox, [tid |-> p, type |-> type, move |-> move])
  /\ player' = [player EXCEPT ![p].at = type]
  /\ rpsCalls' = IF type = "QUIT" THEN rpsCalls ELSE rpsCalls + 1
  /\ UNCHANGED <<slots, waiting, g_rps>>

RpsSignup(p) == player[p].at = "out" /\ RpsAsks(p, "SIGNUP", NoMove)
RpsPlay(p) ==
  /\ player[p].at = "runs" /\ player[p].got.result # "OPP_QUIT"
  /\ \E move \in Moves : RpsAsks(p, "PLAY", move)
RpsQuit(p) == player[p].at = "runs" /\ RpsAsks(p, "QUIT", NoMove)

-----------------------------------------------------------------------------
(* The server. *)

slot_find(tid) ==
  LET S == {s \in PlayerSlots : slots[s].in_use /\ slots[s].tid = tid}
  IN  IF S = {} THEN -1 ELSE Min(S)

slot_alloc == LET S == {s \in PlayerSlots : ~slots[s].in_use} IN IF S = {} THEN -1 ELSE Min(S)

beats(a, b) == <<a, b>> \in {<<"rock", "scissors">>, <<"scissors", "paper">>, <<"paper", "rock">>}

\* The players in the domain of `answers' get them: signed up, or out.
Answers(answers) ==
  player' = [p \in Players |->
               IF p \in DOMAIN answers
               THEN [at |-> IF answers[p].result \in {"ERR", "left"} THEN "out" ELSE "runs",
                     got |-> answers[p]]
               ELSE player[p]]
AnswerTo(p, result) == [q \in {p} |-> Answer(result, NoMove)]

\* The first of a pair is held until the second comes.
HandlesSignup(m) ==
  LET s == slot_alloc
      taken == [slots EXCEPT ![s] = [FreeSlot EXCEPT !.in_use = TRUE, !.tid = m.tid]]
  IN  CASE s < 0 -> Answers(AnswerTo(m.tid, "ERR")) /\ UNCHANGED <<slots, waiting, g_rps>>
        [] s >= 0 /\ waiting < 0 -> slots' = taken /\ waiting' = s /\ UNCHANGED <<player, g_rps>>
        [] OTHER ->
             LET pair == {slots[waiting].tid, m.tid}
             IN  /\ slots' = [taken EXCEPT ![s].opp = waiting, ![waiting].opp = s]
                 /\ waiting' = -1
                 /\ Answers([p \in pair |-> Answer("PAIRED", NoMove)])
                 /\ g_rps' = [g_rps EXCEPT !.active_matches = @ + 1, !.m_active = TRUE,
                                           !.m_p1_tid = slots[waiting].tid, !.m_p2_tid = m.tid,
                                           !.m_last_result = "none"]

\* What a move of s makes of the round with the move of o.
Result(mine, other) ==
  CASE mine = other -> "TIE"
    [] beats(mine, other) -> "WIN"
    [] OTHER -> "LOSE"

\* The round counts for player 1 of the match that is shown.
Counted(tid, rs, ro) ==
  LET p1res == IF tid = g_rps.m_p1_tid THEN rs ELSE ro
  IN  [g_rps EXCEPT !.games_played = @ + 1, !.m_last_result = p1res,
                    !.p1_wins = IF p1res = "WIN" THEN @ + 1 ELSE @,
                    !.p2_wins = IF p1res = "LOSE" THEN @ + 1 ELSE @,
                    !.ties = IF p1res = "TIE" THEN @ + 1 ELSE @]

\* Seeded fault: the moves of a round stay played.
PlayKeepsMoves(m) ==
  LET s == slot_find(m.tid)
      o == slots[s].opp
      rs == Result(m.move, slots[o].move)
      ro == Result(slots[o].move, m.move)
  IN  IF o < 0
      THEN Answers(AnswerTo(m.tid, "OPP_QUIT")) /\ UNCHANGED <<slots, g_rps>>
      ELSE /\ slots' = [slots EXCEPT ![s].move = m.move, ![s].played = TRUE]
           /\ IF slots[o].played
              THEN /\ Answers([p \in {m.tid, slots[o].tid} |->
                         IF p = m.tid THEN Answer(rs, slots[o].move) ELSE Answer(ro, m.move)])
                   /\ g_rps' = Counted(m.tid, rs, ro)
              ELSE UNCHANGED <<player, g_rps>>

\* A move is held until the opponent has played too.
HandlesPlay(m) ==
  LET s == slot_find(m.tid)
      o == slots[s].opp
      rs == Result(m.move, slots[o].move)
      ro == Result(slots[o].move, m.move)
  IN  CASE s < 0 -> Answers(AnswerTo(m.tid, "ERR")) /\ UNCHANGED <<slots, g_rps>>
        [] s >= 0 /\ o < 0 -> Answers(AnswerTo(m.tid, "OPP_QUIT")) /\ UNCHANGED <<slots, g_rps>>
        [] s >= 0 /\ o >= 0 /\ slots[o].played ->
             /\ slots' = [slots EXCEPT ![s].move = NoMove, ![s].played = FALSE,
                                       ![o].move = NoMove, ![o].played = FALSE]
             /\ Answers([p \in {m.tid, slots[o].tid} |->
                   IF p = m.tid THEN Answer(rs, slots[o].move) ELSE Answer(ro, m.move)])
             /\ g_rps' = Counted(m.tid, rs, ro)
        [] OTHER -> /\ slots' = [slots EXCEPT ![s].move = m.move, ![s].played = TRUE]
                    /\ UNCHANGED <<player, g_rps>>

\* Seeded fault: an opponent whose move is held is not told.
QuitIsSilent(m) ==
  LET s == slot_find(m.tid)
      o == slots[s].opp
  IN  /\ Answers(AnswerTo(m.tid, "left"))
      /\ slots' = [t \in PlayerSlots |-> CASE t = s -> [slots[t] EXCEPT !.in_use = FALSE]
                                     [] t = o -> [slots[t] EXCEPT !.opp = -1]
                                     [] OTHER -> slots[t]]
      /\ UNCHANGED <<waiting, g_rps>>

\* The player is answered and its slot is free; an opponent whose move is held
\* is told, any other finds out with its next move.
HandlesQuit(m) ==
  LET s == slot_find(m.tid)
      o == IF s < 0 THEN -1 ELSE slots[s].opp
      left == o >= 0 /\ slots[o].in_use
      told == IF left /\ slots[o].played THEN {slots[o].tid} ELSE {}
  IN  /\ Answers([p \in {m.tid} \cup told |->
                    Answer(IF p = m.tid THEN "left" ELSE "OPP_QUIT", NoMove)])
      /\ slots' = [t \in PlayerSlots |-> CASE t = s -> [slots[t] EXCEPT !.in_use = FALSE]
                                     [] t = o /\ left -> [slots[t] EXCEPT !.opp = -1, !.played = FALSE]
                                     [] OTHER -> slots[t]]
      /\ waiting' = IF s >= 0 /\ waiting = s THEN -1 ELSE waiting
      /\ g_rps' = IF s >= 0 /\ g_rps.m_active /\ m.tid \in {g_rps.m_p1_tid, g_rps.m_p2_tid}
                  THEN [g_rps EXCEPT !.active_matches = IF @ > 0 THEN @ - 1 ELSE 0, !.m_active = FALSE]
                  ELSE g_rps

RpsServes ==
  /\ rpsInbox # <<>>
  /\ LET m == Head(rpsInbox)
     IN  \/ m.type = "SIGNUP" /\ HandlesSignup(m)
         \/ m.type = "PLAY" /\ HandlesPlay(m) /\ UNCHANGED waiting
         \/ m.type = "QUIT" /\ HandlesQuit(m)
  /\ rpsInbox' = Tail(rpsInbox)
  /\ UNCHANGED rpsCalls

RpsNext == RpsServes \/ (\E p \in Players : RpsSignup(p) \/ RpsPlay(p) \/ RpsQuit(p))

RpsSpec == RpsInit /\ [][RpsNext]_rpsVars

-----------------------------------------------------------------------------
(* Properties. *)

InInbox(p) == \E i \in DOMAIN rpsInbox : rpsInbox[i].tid = p

\* The server has forgotten no player that waits for it: its message is there,
\* or it is the unpaired one, or its move is held while the opponent, paired
\* with it and still there, has not played.
NobodyIsForgotten ==
  \A p \in Players :
    player[p].at \in {"SIGNUP", "PLAY", "QUIT"} /\ ~InInbox(p) =>
      LET s == slot_find(p)
      IN  /\ s >= 0
          /\ player[p].at = "SIGNUP" => waiting = s
          /\ player[p].at # "SIGNUP" =>
               LET o == slots[s].opp
               IN  /\ player[p].at = "PLAY" /\ slots[s].played
                   /\ o >= 0 /\ slots[o].in_use /\ slots[o].opp = s /\ ~slots[o].played

\* A round is decided between the moves of two paired players, each move
\* counts for one round, and what the two are told agrees.
RoundsAreFair ==
  [][\A p \in Players :
       player[p].at = "PLAY" /\ player'[p].at = "runs" /\ player'[p].got.result # "OPP_QUIT" =>
         \E q \in Players \ {p} :
           /\ player[q].at = "PLAY" /\ player'[q].at = "runs"
           /\ slots[slot_find(p)].opp = slot_find(q)
           /\ <<player'[p].got.result, player'[q].got.result>> \in
                {<<"WIN", "LOSE">>, <<"LOSE", "WIN">>, <<"TIE", "TIE">>}
           /\ player'[p].got.result = "WIN" <=>
                beats(player'[q].got.opp_move, player'[p].got.opp_move)
     ]_rpsVars
=============================================================================
