---------------------------- MODULE ClockServer -----------------------------
(***************************************************************************)
(* The clock server, its notifier and its clients (clockserver.c,          *)
(* clock_client.c).                                                        *)
(*                                                                         *)
(* delay_insert() uses the tick counter only as the base of absolute times *)
(* it compares and subtracts again; while the counter does not wrap (2^32  *)
(* ticks of 10 ms, 497 days) all of it depends on differences alone.  So a *)
(* time is a number of ticks from now here, and the counter is left out.   *)
(***************************************************************************)
EXTENDS Integers, Sequences, FiniteSets, SequencesExt

CONSTANTS
  Clients,
  CLOCK_MAX_DELAY,  \* entries of delay_q (64)
  MaxTicks,         \* bound: the longest delay asked for
  MaxPast,          \* bound: requests whose time is not in the future
  MaxRequests       \* bound: messages waiting when a client sends one

ASSUME ClockAssumption ==
  /\ IsFiniteSet(Clients) /\ "notifier" \notin Clients
  /\ CLOCK_MAX_DELAY \in Nat \ {0} /\ MaxTicks \in Nat /\ MaxPast \in Nat
  /\ MaxRequests \in Nat

VARIABLES
  delay_q,       \* delay_q[0..delay_n-1]: client_tid and delta
  tick_notifier, \* where the notifier is: "awaits", "woken", "sends", "calls"
  requests,      \* messages the server has not received
  client,        \* "runs", "asks" or "delayed"
  asked,         \* history: the ticks a delayed client asked for
  due,           \* history: ticks until its time
  absorbed,      \* history: ticks that did not bring its entry nearer
  past           \* history: requests whose time was not in the future

clockVars == <<delay_q, tick_notifier, requests, client, asked, due, absorbed, past>>

DelayNode == [client_tid : Clients, delta : Int]
Tick == [from |-> "notifier", ticks |-> 0]
TimeRequest == -1  \* Time(), and any message of an unknown type

\* delay_build_abs(): when entry i of q is to wake, in ticks from now.
AbsWake(q, i) ==
  LET abs[j \in 0..Len(q)] == IF j = 0 THEN 0 ELSE abs[j - 1] + q[j].delta
  IN abs[i]

\* Seeded fault: the entry that follows the new one keeps its delta.
delay_insert_unlinked(c, wake) ==
  LET later == {i \in DOMAIN delay_q : wake <= AbsWake(delay_q, i)}
      at == IF later = {} THEN Len(delay_q) + 1
            ELSE CHOOSE i \in later : \A j \in later : i <= j
  IN InsertAt(delay_q, at, [client_tid |-> c, delta |-> wake - AbsWake(delay_q, at - 1)])

\* Before the first entry that is not to wake earlier.
delay_insert(c, wake) ==
  LET later == {i \in DOMAIN delay_q : wake <= AbsWake(delay_q, i)}
      at == IF later = {} THEN Len(delay_q) + 1
            ELSE CHOOSE i \in later : \A j \in later : i <= j
      node == [client_tid |-> c, delta |-> wake - AbsWake(delay_q, at - 1)]
      q == InsertAt(delay_q, at, node)
  IN IF later = {} THEN q ELSE [q EXCEPT ![at + 1].delta = @ - node.delta]

ClockInit ==
  /\ delay_q = <<>>
  /\ tick_notifier = "calls"
  /\ requests = <<>>
  /\ client = [c \in Clients |-> "runs"]
  /\ asked = [c \in Clients |-> 0]
  /\ due = [c \in Clients |-> 0]
  /\ absorbed = [c \in Clients |-> 0]
  /\ past = 0

\* AwaitEvent(CLOCKINTID); an interrupt that finds the notifier elsewhere
\* wakes nobody and leaves no trace.
NotifierAwaitsTick ==
  /\ tick_notifier = "calls"
  /\ tick_notifier' = "awaits"
  /\ UNCHANGED <<delay_q, requests, client, asked, due, absorbed, past>>

TimerIRQ ==
  /\ tick_notifier = "awaits"
  /\ tick_notifier' = "woken"
  /\ UNCHANGED <<delay_q, requests, client, asked, due, absorbed, past>>

NotifierSendsTick ==
  /\ tick_notifier = "woken"
  /\ tick_notifier' = "sends"
  /\ requests' = Append(requests, Tick)
  /\ UNCHANGED <<delay_q, client, asked, due, absorbed, past>>

\* Delay(ticks) and DelayUntil(now + ticks), or Time().
Asks(c, ticks) ==
  /\ client[c] = "runs" /\ Len(requests) <= MaxRequests
  /\ client' = [client EXCEPT ![c] = "asks"]
  /\ requests' = Append(requests, [from |-> c, ticks |-> ticks])
  /\ past' = IF ticks = 0 THEN past + 1 ELSE past
  /\ past' <= MaxPast
  /\ UNCHANGED <<delay_q, tick_notifier, asked, due, absorbed>>

Request == Head(requests)
Received(r) == requests # <<>> /\ requests' = Tail(requests) /\ r

\* The reply is the time, or -1 when the queue is full.
ServeTimeOrFull ==
  /\ Received(Request # Tick)
  /\ Request.ticks = TimeRequest \/ Len(delay_q) >= CLOCK_MAX_DELAY
  /\ client' = [client EXCEPT ![Request.from] = "runs"]
  /\ UNCHANGED <<delay_q, tick_notifier, asked, due, absorbed, past>>

\* A time that has passed counts as now; the client stays unanswered.
ServeDelay ==
  LET c == Request.from
  IN /\ Received(Request # Tick)
     /\ Request.ticks # TimeRequest /\ Len(delay_q) < CLOCK_MAX_DELAY
     /\ delay_q' = delay_insert(c, Request.ticks)
     /\ client' = [client EXCEPT ![c] = "delayed"]
     /\ asked' = [asked EXCEPT ![c] = Request.ticks]
     /\ due' = [due EXCEPT ![c] = Request.ticks]
     /\ absorbed' = [absorbed EXCEPT ![c] = 0]
     /\ UNCHANGED <<tick_notifier, past>>

\* Seeded fault: entries with one tick left are removed too.
ExpiredEarly(q) ==
  LET due_now == {k \in DOMAIN q : \A i \in 1..k : q[i].delta <= 1}
  IN IF due_now = {} THEN 0 ELSE CHOOSE k \in due_now : \A i \in due_now : i <= k

\* The first entry's delta is decremented; then every entry at the front that
\* has none left is removed: the first k.
Expired(q) ==
  LET due_now == {k \in DOMAIN q : \A i \in 1..k : q[i].delta <= 0}
  IN IF due_now = {} THEN 0 ELSE CHOOSE k \in due_now : \A i \in due_now : i <= k

delay_on_tick(q) ==
  LET q1 == [q EXCEPT ![1].delta = @ - 1]
  IN IF q = <<>> THEN q ELSE SubSeq(q1, Expired(q1) + 1, Len(q1))

Queued(q) == {q[i].client_tid : i \in DOMAIN q}

\* Seeded fault: the notifier is not answered.
ServeTickSilent ==
  LET woken == Queued(delay_q) \ Queued(delay_q')
  IN /\ Received(Request = Tick)
     /\ delay_q' = delay_on_tick(delay_q)
     /\ client' = [c \in Clients |-> IF c \in woken THEN "runs" ELSE client[c]]
     /\ due' = [c \in Clients |-> IF client'[c] = "delayed" THEN due[c] - 1 ELSE 0]
     /\ UNCHANGED <<tick_notifier, asked, absorbed, past>>

\* The notifier is answered last.
ServeTick ==
  LET woken == Queued(delay_q) \ Queued(delay_q')
      wasted == delay_q # <<>> /\ delay_q[1].delta <= 0
  IN /\ Received(Request = Tick)
     /\ delay_q' = delay_on_tick(delay_q)
     /\ client' = [c \in Clients |-> IF c \in woken THEN "runs" ELSE client[c]]
     /\ due' = [c \in Clients |-> IF client'[c] = "delayed" THEN due[c] - 1 ELSE 0]
     /\ absorbed' = [c \in Clients |-> IF client'[c] # "delayed" THEN 0
                                       ELSE IF wasted THEN absorbed[c] + 1 ELSE absorbed[c]]
     /\ asked' = [c \in Clients |-> IF client'[c] = "delayed" THEN asked[c] ELSE 0]
     /\ tick_notifier' = "calls"
     /\ UNCHANGED past

ClockNext ==
  \/ NotifierAwaitsTick \/ TimerIRQ \/ NotifierSendsTick
  \/ \E c \in Clients, ticks \in {TimeRequest} \cup 0..MaxTicks : Asks(c, ticks)
  \/ ServeTimeOrFull \/ ServeDelay \/ ServeTick

\* The timer fires every 10 ms; the notifier (priority 2) and the server
\* (priority 5) go before the clients of a lower priority.
ClockFairness ==
  /\ WF_clockVars(NotifierAwaitsTick) /\ WF_clockVars(TimerIRQ)
  /\ WF_clockVars(NotifierSendsTick)
  /\ WF_clockVars(ServeTimeOrFull \/ ServeDelay \/ ServeTick)

ClockSpec == ClockInit /\ [][ClockNext]_clockVars /\ ClockFairness

-----------------------------------------------------------------------------

\* A client the server owes a reply has exactly one entry in the queue, and
\* nobody else has one: no sleeper is forgotten, none is woken twice.
SleepersAreQueued ==
  /\ Queued(delay_q) = {c \in Clients : client[c] = "delayed"}
  /\ Cardinality(Queued(delay_q)) = Len(delay_q)

\* Every sleeper is in the queue once, and the deltas up to a client's entry
\* add up to the ticks left until its time, and to one more for each tick an
\* entry without any left has absorbed.
DeltasAddUp ==
  /\ SleepersAreQueued
  /\ \A i \in DOMAIN delay_q :
       LET c == delay_q[i].client_tid IN AbsWake(delay_q, i) = due[c] + absorbed[c]

Released(c) == client[c] = "delayed" /\ client'[c] = "runs"

\* The ticks left when this tick has been counted.
Left(c) == due[c] - 1

\* layer3_tests.c: "after >= before + 2": no Delay() returns early.
NoEarlyWake == [][\A c \in Clients : Released(c) => Left(c) <= 0]_clockVars

\* Every client in Delay() is released, once requests for a time that has
\* passed stop coming.
DelayReturns == \A c \in Clients : (client[c] = "delayed") ~> (client[c] = "runs")

\* "Delay(clock, 100); /* 1 second */" (tc1.c): a delay takes as many ticks
\* of 10 ms as were asked for.
WakesOnTime ==
  [][\A c \in Clients : (Released(c) /\ asked[c] > 0) => Left(c) = 0]_clockVars
=============================================================================
