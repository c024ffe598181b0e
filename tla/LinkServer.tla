----------------------------- MODULE LinkServer ------------------------------
(***************************************************************************)
(* The line of text between the board and the container (linkserver.c):    *)
(* the notifier that polls the AUX UART, the server that has at most one   *)
(* command under way and gives up on it at a deadline, and LinkSend() of   *)
(* its clients.                                                            *)
(*                                                                         *)
(* Text is a sequence of words, a record each; every word arrives as one   *)
(* character would, and counts as one for the limits.  `of' in a word is   *)
(* the number of the command it answers: it is in no message, and only     *)
(* properties read it.  Carriage returns are left out.                     *)
(*                                                                         *)
(* External: the container, which takes commands in order and answers each *)
(* with one line, when it likes or never (vhw.py is not in the repository; *)
(* what it answers is in diskfs.h).                                        *)
(***************************************************************************)
EXTENDS Integers, Sequences, SequencesExt, FiniteSetsExt

CONSTANTS
  Clients,             \* tasks that call LinkSend()
  LINK_REPLY_MAX,      \* words of a line that are kept
  LINK_TIMEOUT_TICKS

ASSUME LinkAssumption ==
  /\ LINK_REPLY_MAX \in Nat \ {0} /\ LINK_TIMEOUT_TICKS \in Nat \ {0}
  /\ "none" \notin Clients

VARIABLES
  linkUp,    \* link_server_tid is set
  link,      \* the server: its client, ticks to the deadline, line, and command number
  linbox,    \* messages the server has not received
  lnotif,    \* link_notifier: "drains", "sends" or "delays"
  rxFifo,    \* words that have arrived
  commands,  \* external: commands the container has not answered
  answering, \* external: the rest of the line the container writes
  asking,    \* LinkSend() of each client: "runs", "sends" or "answered", and its answer
  late       \* history: numbers of the commands that were given up

linkVars == <<linkUp, link, linbox, lnotif, rxFifo, commands, answering, asking, late>>
container == <<rxFifo, commands, answering>>

NoTask == "none"
Word(w, data, of) == [word |-> w, data |-> data, of |-> of]
NewLine == Word("\n", <<>>, 0)
Says(w) == <<Word(w, <<>>, 0)>>
NoCommand == [verb |-> "none", path |-> "none", off |-> 0, data |-> <<>>]
LinkMsg(type, from, words, cmd) == [type |-> type, from |-> from, words |-> words, cmd |-> cmd]

LInit ==
  /\ linkUp = FALSE
  /\ link = [client |-> NoTask, deadline |-> 0, line |-> <<>>, sent |-> 0]
  /\ linbox = <<>>
  /\ lnotif = "sends"
  /\ rxFifo = <<>> /\ commands = <<>> /\ answering = <<>>
  /\ asking = [c \in Clients |-> [at |-> "runs", reply |-> <<>>]]
  /\ late = {}

-----------------------------------------------------------------------------
(* The server. *)

\* RegisterAs, and Create of the notifier, which drains first.
ServerStarts ==
  /\ ~linkUp
  /\ linkUp' = TRUE
  /\ lnotif' = "drains"
  /\ UNCHANGED <<link, linbox, container, asking, late>>

\* What is left in the buffer after the words s: the word that would overflow
\* it empties it, and is dropped.
Kept(s) == SubSeq(s, Len(s) - (Len(s) % (LINK_REPLY_MAX + 1)) + 1, Len(s))

\* The positions of the ends of lines among the words of a message.
LineEnds(words) == {i \in DOMAIN words : words[i].word = "\n"}

\* The buffer after these words, and the line that the first end of line ends.
LineAfter(words) ==
  LET ends == LineEnds(words)
  IN  IF ends = {} THEN Kept(link.line \o words)
      ELSE Kept(SubSeq(words, Max(ends) + 1, Len(words)))
FirstLine(words) == Kept(link.line \o SubSeq(words, 1, Min(LineEnds(words)) - 1))

\* Reply(): what LinkSend() returns to c.
LinkReply(c, words) == [asking EXCEPT ![c] = [at |-> "answered", reply |-> words]]

\* Seeded fault: the deadline is not looked at.
WaitsForEver ==
  /\ linbox # <<>> /\ Head(linbox).type = "RX"
  /\ LET words == Head(linbox).words
         answered == link.client # NoTask /\ LineEnds(words) # {}
     IN  /\ link' = [link EXCEPT !.client = IF answered THEN NoTask ELSE @,
                                 !.line = LineAfter(words)]
         /\ asking' = IF answered THEN LinkReply(link.client, FirstLine(words)) ELSE asking
         /\ lnotif' = IF words = <<>> THEN "delays" ELSE "drains"
  /\ linbox' = Tail(linbox)
  /\ UNCHANGED <<linkUp, container, late>>

\* Words from the notifier.  The first line answers the client, more lines
\* answer nobody; a client that is past its deadline is told so.
ServerReceives ==
  /\ linbox # <<>> /\ Head(linbox).type = "RX"
  /\ LET words == Head(linbox).words
         answered == link.client # NoTask /\ LineEnds(words) # {}
         gaveUp == link.client # NoTask /\ ~answered /\ link.deadline = 0
     IN  /\ link' = [link EXCEPT !.client = IF answered \/ gaveUp THEN NoTask ELSE @,
                                 !.line = IF gaveUp THEN <<>> ELSE LineAfter(words)]
         /\ asking' = CASE answered -> LinkReply(link.client, FirstLine(words))
                        [] gaveUp -> LinkReply(link.client, Says("(no response)"))
                        [] OTHER -> asking
         /\ late' = IF gaveUp THEN late \cup {link.sent} ELSE late
         /\ lnotif' = IF words = <<>> THEN "delays" ELSE "drains"
  /\ linbox' = Tail(linbox)
  /\ UNCHANGED <<linkUp, container>>

\* Seeded fault: a command is sent though another is under way.
SendsAnyhow ==
  /\ linbox # <<>> /\ Head(linbox).type = "SEND"
  /\ link' = [client |-> Head(linbox).from, deadline |-> LINK_TIMEOUT_TICKS,
              line |-> <<>>, sent |-> link.sent + 1]
  /\ commands' = Append(commands, [cmd |-> Head(linbox).cmd, of |-> link.sent + 1])
  /\ linbox' = Tail(linbox)
  /\ UNCHANGED <<linkUp, lnotif, rxFifo, answering, asking, late>>

\* A command: it goes out, or the server is busy with another one.
ServerSends ==
  /\ linbox # <<>> /\ Head(linbox).type = "SEND"
  /\ LET m == Head(linbox)
     IN  IF link.client # NoTask
         THEN asking' = LinkReply(m.from, Says("(busy)")) /\ UNCHANGED <<link, commands>>
         ELSE /\ link' = [client |-> m.from, deadline |-> LINK_TIMEOUT_TICKS,
                          line |-> <<>>, sent |-> link.sent + 1]
              /\ commands' = Append(commands, [cmd |-> m.cmd, of |-> link.sent + 1])
              /\ UNCHANGED asking
  /\ linbox' = Tail(linbox)
  /\ UNCHANGED <<linkUp, lnotif, rxFifo, answering, late>>

-----------------------------------------------------------------------------
(* The notifier, the clock and the container. *)

NotifierDrains ==
  /\ lnotif = "drains"
  /\ linbox' = Append(linbox, LinkMsg("RX", "notifier", rxFifo, NoCommand))
  /\ rxFifo' = <<>>
  /\ lnotif' = "sends"
  /\ UNCHANGED <<linkUp, link, commands, answering, asking, late>>

\* A tick ends the notifier's Delay(1), and brings the deadline nearer.  The
\* server and the notifier run when they can: none of their steps waits for it.
LinkTick ==
  /\ lnotif = "delays" /\ linbox = <<>>
  /\ lnotif' = "drains"
  /\ link' = [link EXCEPT !.deadline = IF @ = 0 THEN 0 ELSE @ - 1]
  /\ UNCHANGED <<linkUp, linbox, container, asking, late>>

\* The next word of the line the container writes; the end of the line comes
\* with the last one.
LineArrives ==
  /\ answering # <<>>
  /\ LET n == IF Len(answering) = 2 THEN 2 ELSE 1
     IN  /\ rxFifo' = rxFifo \o SubSeq(answering, 1, n)
         /\ answering' = SubSeq(answering, n + 1, Len(answering))
  /\ UNCHANGED <<linkUp, link, linbox, lnotif, commands, asking, late>>

\* The container takes a command and answers `words'.
ContainerAnswers(words) ==
  /\ answering = <<>> /\ commands # <<>>
  /\ answering' = [i \in DOMAIN words |-> [words[i] EXCEPT !.of = Head(commands).of]]
                  \o <<NewLine>>
  /\ commands' = Tail(commands)
  /\ UNCHANGED <<linkUp, link, linbox, lnotif, rxFifo, asking, late>>

-----------------------------------------------------------------------------
(* Clients. *)

\* LinkSend(): without a server it returns at once.
LinkSend(c, cmd) ==
  /\ asking[c].at = "runs"
  /\ IF ~linkUp
     THEN asking' = LinkReply(c, Says("(no link)")) /\ UNCHANGED linbox
     ELSE /\ asking' = [asking EXCEPT ![c] = [at |-> "sends", reply |-> <<>>]]
          /\ linbox' = Append(linbox, LinkMsg("SEND", c, <<>>, cmd))
  /\ UNCHANGED <<linkUp, link, lnotif, container, late>>

\* The caller goes on with what LinkSend() returned.
Resumes(c) == [asking EXCEPT ![c] = [at |-> "runs", reply |-> <<>>]]

LinkServerStep == ServerReceives \/ ServerSends
LinkStep == ServerStarts \/ LinkServerStep \/ NotifierDrains \/ LinkTick \/ LineArrives

-----------------------------------------------------------------------------
(* Properties. *)

\* LinkSend() returns, whatever the container does: with its line, "(busy)" or,
\* after the deadline, "(no response)".
LinkSendReturns == \A c \in Clients : asking[c].at = "sends" ~> asking[c].at = "answered"

\* A client is answered with words of the line that answers its own command,
\* while no command was given up: only then can a line come late, for the
\* client after it.
AnswerIsOwn ==
  [][\A c \in Clients :
       asking[c].at = "sends" /\ asking'[c].at = "answered" /\ late' = {} =>
         \A i \in DOMAIN asking'[c].reply : asking'[c].reply[i].of \in {0, link.sent}
     ]_linkVars
=============================================================================
