---------------------------- MODULE ServerProofs ----------------------------
(***************************************************************************)
(* Proofs about the clock server and about the accelerator's servers, each *)
(* for every number of clients.                                            *)
(*                                                                         *)
(* The clock server's delta queue, for every size of the queue and delays  *)
(* of any length: no sleeper is forgotten, none wakes early, and the       *)
(* deltas add up to what is left of each delay.  DeltasAddUp speaks of     *)
(* sums, which no step changes in one place only.  DeltaInv is its local   *)
(* form: the delta of an entry is the difference between its wake time and *)
(* the one before it.  A sum over the queue then is one wake time          *)
(* (WakeTimes), by least counterexample.                                   *)
(*                                                                         *)
(* The accelerator's servers, for every number of cores: each job of a     *)
(* batch runs once before its client is answered, and no job slot is       *)
(* overwritten, however stale the events a server takes.  The events (sgi, *)
(* done_q) do not occur in AInv at all: that is why a stale one does no    *)
(* harm.  What keeps the jobs apart is that a slot is full only while its  *)
(* server holds the job's client, and that the client is with one server,  *)
(* the one of its last request.                                            *)
(***************************************************************************)
EXTENDS ClockServer, ApuServer, QueueLemmas

-----------------------------------------------------------------------------
(* The clock server. *)


Message == [from : Clients, ticks : {TimeRequest} \cup Nat] \cup {Tick}

ClockTypeOK ==
  /\ delay_q \in Seq(DelayNode)
  /\ tick_notifier \in {"calls", "awaits", "woken", "sends"}
  /\ requests \in Seq(Message)
  /\ client \in [Clients -> {"runs", "asks", "delayed"}]
  /\ asked \in [Clients -> Nat]
  /\ due \in [Clients -> Int]
  /\ absorbed \in [Clients -> Nat]
  /\ past \in Nat

\* A client has one message under way, while it is in Send().
RequestInv ==
  /\ \A i \in DOMAIN requests :
       requests[i].from \in Clients => client[requests[i].from] = "asks"
  /\ \A i, j \in DOMAIN requests :
       requests[i].from = requests[j].from /\ requests[i].from \in Clients => i = j

\* The clients in Delay() that the server has heard of are those in its queue.
SleeperInv ==
  /\ \A i \in DOMAIN delay_q : client[delay_q[i].client_tid] = "delayed"
  /\ \A i, j \in DOMAIN delay_q : delay_q[i].client_tid = delay_q[j].client_tid => i = j
  /\ \A c \in Clients : client[c] = "delayed" =>
       \E i \in DOMAIN delay_q : delay_q[i].client_tid = c

\* When the entry of a client is removed, in ticks from now.
Wake(c) == due[c] + absorbed[c]

\* When the entry at place i, or the one before the first, is.
WakeAt(q, i) == IF i = 0 THEN 0 ELSE Wake(q[i].client_tid)

DeltaInv ==
  \A i \in DOMAIN delay_q :
    /\ delay_q[i].delta \in Nat
    /\ delay_q[i].delta = WakeAt(delay_q, i) - WakeAt(delay_q, i - 1)

CInv == ClockTypeOK /\ RequestInv /\ SleeperInv /\ DeltaInv

-----------------------------------------------------------------------------
\* Deltas that are the differences of w add up to w.
LEMMA WakeTimes ==
  ASSUME NEW q, Len(q) \in Nat, NEW w, w[0] = 0,
         \A i \in 0..Len(q) : w[i] \in Int,
         \A i \in 1..Len(q) : q[i].delta = w[i] - w[i - 1]
  PROVE  \A i \in 0..Len(q) : AbsWake(q, i) = w[i]
<1> DEFINE Def(g) == [j \in 0..Len(q) |-> IF j = 0 THEN 0 ELSE g[j - 1] + q[j].delta]
           abs == CHOOSE g : g = Def(g)
           v == [j \in 0..Len(q) |-> w[j]]
           Bad == {i \in 0..Len(q) : abs[i] # w[i]}
<1>1. v = Def(v)
  <2>1. ASSUME NEW j \in 0..Len(q), j # 0 PROVE w[j] = v[j - 1] + q[j].delta
    <3>1. j \in 1..Len(q) /\ j - 1 \in 0..Len(q)
      BY <2>1
    <3>2. w[j] \in Int /\ w[j - 1] \in Int /\ v[j - 1] = w[j - 1]
      BY <3>1
    <3>3. QED
      BY <3>1, <3>2
  <2>2. QED
    BY <2>1
<1>2. abs = Def(abs)
  <2>1. \E g : g = Def(g)
    BY <1>1
  <2> HIDE DEF Def
  <2>2. QED
    BY <2>1, Zenon
<1> HIDE DEF abs
<1>3. Bad = {}
  <2>1. SUFFICES ASSUME Bad # {} PROVE FALSE
    OBVIOUS
  <2>2. PICK i \in Bad : \A j \in Bad : i <= j
    <3>1. Bad \in SUBSET Nat
      OBVIOUS
    <3> HIDE DEF Bad
    <3>2. QED
      BY <2>1, <3>1, LeastNatural
  <2>3. i \in 1..Len(q) /\ i - 1 \in 0..Len(q) /\ abs[i] = abs[i - 1] + q[i].delta
    <3>1. \A j \in 0..Len(q) : abs[j] = IF j = 0 THEN 0 ELSE abs[j - 1] + q[j].delta
      BY <1>2, Zenon
    <3>2. i \in 0..Len(q) /\ i # 0
      BY <3>1
    <3>3. QED
      BY <3>1, <3>2
  <2>4. abs[i - 1] = w[i - 1]
    <3>1. ~(i <= i - 1)
      BY <2>3
    <3>2. i - 1 \notin Bad
      BY <2>2, <3>1
    <3>3. QED
      BY <2>3, <3>2
  <2>5. w[i] \in Int /\ w[i - 1] \in Int
    BY <2>3
  <2>6. QED
    BY <2>3, <2>4, <2>5
<1>4. \A i \in 0..Len(q) : AbsWake(q, i) = abs[i]
  BY DEF AbsWake, abs
<1>5. QED
  BY <1>3, <1>4

\* delay_build_abs() finds the wake times of the sleepers.
LEMMA AbsIsWake ==
  ASSUME ClockTypeOK, DeltaInv
  PROVE  \A i \in 0..Len(delay_q) :
           AbsWake(delay_q, i) = WakeAt(delay_q, i) /\ WakeAt(delay_q, i) \in Int
<1>1. /\ Len(delay_q) \in Nat /\ DOMAIN delay_q = 1..Len(delay_q)
      /\ \A i \in 1..Len(delay_q) : delay_q[i] \in DelayNode
  BY LenProperties, ElementOfSeq DEF ClockTypeOK
<1>2. \A c \in Clients : Wake(c) \in Int
  BY DEF ClockTypeOK, Wake
<1>3. \A i \in 0..Len(delay_q) : WakeAt(delay_q, i) \in Int
  BY <1>1, <1>2 DEF WakeAt, DelayNode
<1> DEFINE w == [i \in 0..Len(delay_q) |-> WakeAt(delay_q, i)]
<1>4. w[0] = 0 /\ \A i \in 0..Len(delay_q) : w[i] \in Int
  BY <1>1, <1>3 DEF WakeAt
<1>5. \A i \in 1..Len(delay_q) : delay_q[i].delta = w[i] - w[i - 1]
  BY <1>1 DEF DeltaInv
<1> HIDE DEF w
<1>6. \A i \in 0..Len(delay_q) : AbsWake(delay_q, i) = w[i]
  BY <1>1, <1>4, <1>5, WakeTimes
<1>7. QED
  BY <1>3, <1>6 DEF w

LEMMA ClockInitInv == ClockInit => CInv
<1> SUFFICES ASSUME ClockInit PROVE CInv
  OBVIOUS
<1>1. ClockTypeOK
  BY DEF ClockInit, ClockTypeOK
<1>2. DOMAIN requests = {} /\ DOMAIN delay_q = {} /\ \A c \in Clients : client[c] = "runs"
  BY DEF ClockInit
<1>3. QED
  BY <1>1, <1>2 DEF CInv, RequestInv, SleeperInv, DeltaInv

(***************************************************************************)
(* Messages to the server                                                  *)
(***************************************************************************)

\* A step that leaves the queue alone, and who sleeps.
LEMMA NoSleeperMoves ==
  ASSUME CInv, UNCHANGED <<delay_q, due, absorbed>>,
         \A c \in Clients : client'[c] = "delayed" <=> client[c] = "delayed"
  PROVE  SleeperInv' /\ DeltaInv'
<1>1. \A i \in DOMAIN delay_q : delay_q[i].client_tid \in Clients
  <2>1. /\ DOMAIN delay_q = 1..Len(delay_q)
        /\ \A i \in 1..Len(delay_q) : delay_q[i] \in DelayNode
    BY LenProperties, ElementOfSeq DEF CInv, ClockTypeOK
  <2>2. QED
    BY <2>1 DEF DelayNode
<1>2. SleeperInv'
  BY <1>1 DEF CInv, SleeperInv
<1>3. DeltaInv'
  BY DEF CInv, DeltaInv, WakeAt, Wake
<1>4. QED
  BY <1>2, <1>3

\* A message of a client that had none under way, or a tick.
LEMMA SendsRequest ==
  ASSUME CInv, NEW m \in Message, requests' = Append(requests, m),
         m.from \in Clients => client[m.from] = "runs" /\ client'[m.from] = "asks",
         \A c \in Clients : c # m.from => client'[c] = client[c]
  PROVE  requests' \in Seq(Message) /\ RequestInv'
<1>1. /\ requests' \in Seq(Message) /\ Len(requests) \in Nat
      /\ DOMAIN requests = 1..Len(requests) /\ DOMAIN requests' = 1..(Len(requests) + 1)
      /\ \A i \in 1..Len(requests) : requests'[i] = requests[i]
      /\ requests'[Len(requests) + 1] = m
  BY AppendProperties, LenProperties DEF CInv, ClockTypeOK
<1>2. \A i \in DOMAIN requests' : i \in DOMAIN requests \/ i = Len(requests) + 1
  BY <1>1
<1>3. \A i \in DOMAIN requests : requests[i].from \in Clients => requests[i].from # m.from
  BY DEF CInv, RequestInv
<1>4. QED
  BY <1>1, <1>2, <1>3 DEF CInv, RequestInv

\* The server receives the first message; it leaves a client it does not
\* answer, or has not heard, in Send().
LEMMA ReceivesRequest ==
  ASSUME CInv, requests # <<>>, requests' = Tail(requests),
         \A c \in Clients : client[c] = "asks" /\ c # Request.from => client'[c] = "asks"
  PROVE  /\ Request \in Message
         /\ Request # Tick => Request.from \in Clients /\ client[Request.from] = "asks"
         /\ requests' \in Seq(Message) /\ RequestInv'
<1>1. /\ Len(requests) \in Nat /\ Len(requests) > 0 /\ DOMAIN requests = 1..Len(requests)
      /\ Request = requests[1] /\ Request \in Message
  BY EmptySeq, LenProperties, HeadTailProperties DEF CInv, ClockTypeOK, Request
<1>2. /\ requests' \in Seq(Message) /\ DOMAIN requests' = 1..(Len(requests) - 1)
      /\ \A i \in 1..(Len(requests) - 1) : requests'[i] = requests[i + 1]
  BY <1>1, HeadTailProperties, LenProperties DEF CInv, ClockTypeOK
<1>3. \A i \in DOMAIN requests' : i + 1 \in DOMAIN requests /\ i + 1 # 1 /\ i \in Nat
                                  /\ requests'[i] = requests[i + 1]
  BY <1>1, <1>2
<1>4. \A i \in DOMAIN requests' : requests'[i].from \in Clients =>
        requests'[i].from # Request.from
  BY <1>1, <1>3 DEF CInv, RequestInv
<1>5. RequestInv'
  <2>1. ASSUME NEW i \in DOMAIN requests', requests'[i].from \in Clients
        PROVE  client'[requests'[i].from] = "asks"
    BY <2>1, <1>3, <1>4 DEF CInv, RequestInv
  <2>2. ASSUME NEW i \in DOMAIN requests', NEW j \in DOMAIN requests',
               requests'[i].from = requests'[j].from, requests'[i].from \in Clients
        PROVE  i = j
    <3>1. i + 1 = j + 1
      BY <2>2, <1>3 DEF CInv, RequestInv
    <3>2. QED
      BY <3>1, <1>3
  <2>3. QED
    BY <2>1, <2>2 DEF RequestInv
<1>6. Request # Tick => Request.from \in Clients /\ client[Request.from] = "asks"
  <2>1. Request # Tick => Request.from \in Clients
    BY <1>1 DEF Message
  <2>2. 1 \in DOMAIN requests
    BY <1>1
  <2>3. QED
    BY <2>1, <2>2, <1>1 DEF CInv, RequestInv
<1>7. QED
  BY <1>1, <1>2, <1>5, <1>6

LEMMA NotifierInv ==
  ASSUME CInv, NotifierAwaitsTick \/ TimerIRQ
  PROVE  CInv'
<1>1. /\ tick_notifier' \in {"awaits", "woken"}
      /\ UNCHANGED <<delay_q, requests, client, asked, due, absorbed, past>>
  BY DEF NotifierAwaitsTick, TimerIRQ
<1>2. ClockTypeOK'
  BY <1>1 DEF CInv, ClockTypeOK
<1>3. RequestInv'
  BY <1>1 DEF CInv, RequestInv
<1>4. QED
  BY <1>1, <1>2, <1>3, NoSleeperMoves DEF CInv

LEMMA NotifierSendsInv ==
  ASSUME CInv, NotifierSendsTick
  PROVE  CInv'
<1>1. /\ tick_notifier' = "sends" /\ requests' = Append(requests, Tick)
      /\ UNCHANGED <<delay_q, client, asked, due, absorbed, past>>
  BY DEF NotifierSendsTick
<1>2. Tick \in Message /\ Tick.from \notin Clients
  BY ClockAssumption DEF Tick, Message
<1>3. requests' \in Seq(Message) /\ RequestInv'
  BY <1>1, <1>2, SendsRequest
<1>4. ClockTypeOK'
  BY <1>1, <1>3 DEF CInv, ClockTypeOK
<1>5. QED
  BY <1>1, <1>3, <1>4, NoSleeperMoves DEF CInv

LEMMA AsksInv ==
  ASSUME CInv, NEW c \in Clients, NEW ticks \in {TimeRequest} \cup 0..MaxTicks,
         Asks(c, ticks)
  PROVE  CInv'
<1> DEFINE m == [from |-> c, ticks |-> ticks]
<1>1. /\ client[c] = "runs" /\ client' = [client EXCEPT ![c] = "asks"]
      /\ requests' = Append(requests, m)
      /\ past' = IF ticks = 0 THEN past + 1 ELSE past
      /\ UNCHANGED <<delay_q, tick_notifier, asked, due, absorbed>>
  BY DEF Asks
<1>2. m \in Message /\ m.from = c
  BY ClockAssumption DEF Message
<1>3. \A d \in Clients : client'[d] = IF d = c THEN "asks" ELSE client[d]
  BY <1>1 DEF CInv, ClockTypeOK
<1> HIDE DEF m
<1>4. requests' \in Seq(Message) /\ RequestInv'
  BY <1>1, <1>2, <1>3, SendsRequest
<1>5. ClockTypeOK'
  BY <1>1, <1>4 DEF CInv, ClockTypeOK
<1>6. QED
  BY <1>1, <1>3, <1>4, <1>5, NoSleeperMoves DEF CInv

\* Time(), or a full queue: the client is answered at once.
LEMMA ServeTimeOrFullInv ==
  ASSUME CInv, ServeTimeOrFull
  PROVE  CInv'
<1>1. /\ requests # <<>> /\ requests' = Tail(requests) /\ Request # Tick
      /\ client' = [client EXCEPT ![Request.from] = "runs"]
      /\ UNCHANGED <<delay_q, tick_notifier, asked, due, absorbed, past>>
  BY DEF ServeTimeOrFull, Received
<1>2. \A c \in Clients : client'[c] = IF c = Request.from THEN "runs" ELSE client[c]
  BY <1>1 DEF CInv, ClockTypeOK
<1>3. /\ Request.from \in Clients /\ client[Request.from] = "asks"
      /\ requests' \in Seq(Message) /\ RequestInv'
  BY <1>1, <1>2, ReceivesRequest
<1>4. ClockTypeOK'
  BY <1>1, <1>3 DEF CInv, ClockTypeOK
<1>5. QED
  BY <1>1, <1>2, <1>3, <1>4, NoSleeperMoves DEF CInv

(***************************************************************************)
(* Delay(): delay_insert()                                                 *)
(***************************************************************************)

\* q is the queue with an entry for c at place `at', due in wake ticks: its
\* delta and the next are differences between neighbours again.
InsertedAt(q, c, wake, at) ==
  LET n == Len(delay_q)
  IN  /\ q \in Seq(DelayNode) /\ Len(q) = n + 1
      /\ \A i \in 1..(at - 1) : q[i] = delay_q[i]
      /\ q[at].client_tid = c
      /\ q[at].delta = wake - WakeAt(delay_q, at - 1) /\ q[at].delta \in Nat
      /\ at <= n => /\ q[at + 1].client_tid = delay_q[at].client_tid
                    /\ q[at + 1].delta = WakeAt(delay_q, at) - wake
                    /\ q[at + 1].delta \in Nat
      /\ \A i \in (at + 2)..(n + 1) : q[i] = delay_q[i - 1]

\* delay_insert() does that before the first entry that wakes no earlier.
LEMMA InsertsDelay ==
  ASSUME CInv, NEW c \in Clients, NEW wake \in Nat
  PROVE  \E at \in 1..(Len(delay_q) + 1) : InsertedAt(delay_insert(c, wake), c, wake, at)
<1> DEFINE n == Len(delay_q)
           W(i) == WakeAt(delay_q, i)
           later == {i \in DOMAIN delay_q : wake <= AbsWake(delay_q, i)}
           at == IF later = {} THEN n + 1
                 ELSE CHOOSE i \in later : \A j \in later : i <= j
           node == [client_tid |-> c, delta |-> wake - AbsWake(delay_q, at - 1)]
           r == InsertAt(delay_q, at, node)
           q == IF later = {} THEN r ELSE [r EXCEPT ![at + 1].delta = @ - node.delta]
<1>1. /\ n \in Nat /\ DOMAIN delay_q = 1..n /\ delay_q \in Seq(DelayNode)
      /\ \A i \in 1..n : delay_q[i] \in DelayNode
  BY LenProperties, ElementOfSeq DEF CInv, ClockTypeOK
<1>2. /\ \A i \in 0..n : AbsWake(delay_q, i) = W(i) /\ W(i) \in Int
      /\ W(0) = 0
  BY AbsIsWake DEF CInv, WakeAt
<1> HIDE DEF W, n
<1>3. /\ at \in 1..(n + 1)
      /\ later = {} <=> at = n + 1
      /\ at <= n => wake <= W(at)
      /\ W(at - 1) <= wake
  <2>1. later = {i \in 1..n : wake <= W(i)}
    BY <1>1, <1>2
  <2>2. CASE later = {}
    <3>1. at = n + 1
      BY <2>2
    <3>2. n \in 1..n => ~(wake <= W(n))
      BY <2>1, <2>2
    <3>3. W(n) <= wake
      <4>1. CASE n = 0
        BY <4>1, <1>2
      <4>2. CASE n # 0
        <5>1. n \in 1..n /\ n \in 0..n
          BY <4>2, <1>1
        <5>2. W(n) \in Int
          BY <5>1, <1>2
        <5>3. QED
          BY <3>2, <5>1, <5>2
      <4>3. QED
        BY <4>1, <4>2
    <3> HIDE DEF at, later
    <3>4. QED
      BY <2>2, <3>1, <3>3, <1>1
  <2>3. CASE later # {}
    <3>1. later \in SUBSET Nat
      BY <2>1
    <3>2. at \in later /\ \A j \in later : at <= j
      <4> HIDE DEF later
      <4>1. \E x \in later : \A y \in later : x <= y
        BY <2>3, <3>1, LeastNatural
      <4>2. at = CHOOSE i \in later : \A j \in later : i <= j
        BY <2>3
      <4> HIDE DEF at
      <4>3. QED
        BY <4>1, <4>2
    <3> HIDE DEF at
    <3>3. at \in 1..n /\ wake <= W(at)
      BY <3>2, <2>1
    <3>4. W(at - 1) <= wake
      <4>1. CASE at = 1
        BY <4>1, <1>2
      <4>2. CASE at # 1
        <5>1. at - 1 \in 1..n /\ at - 1 \in 0..n /\ ~(at <= at - 1)
          BY <4>2, <3>3, <1>1
        <5>2. at - 1 \notin later
          BY <3>2, <5>1
        <5>3. W(at - 1) \in Int /\ ~(wake <= W(at - 1))
          BY <5>1, <5>2, <2>1, <1>2
        <5>4. QED
          BY <5>3
      <4>3. QED
        BY <4>1, <4>2
    <3>5. QED
      BY <2>3, <3>3, <3>4, <1>1
  <2>4. QED
    BY <2>2, <2>3
<1> HIDE DEF at, later
<1>4. /\ node \in DelayNode /\ node.client_tid = c
      /\ node.delta = wake - W(at - 1) /\ node.delta \in Nat
  <2>1. at - 1 \in 0..n
    BY <1>1, <1>3
  <2>2. AbsWake(delay_q, at - 1) = W(at - 1) /\ W(at - 1) \in Int
    BY <2>1, <1>2
  <2>3. wake - W(at - 1) \in Nat
    BY <2>2, <1>3
  <2>4. QED
    BY <2>2, <2>3 DEF DelayNode
<1> HIDE DEF node
<1>5. /\ r \in Seq(DelayNode) /\ Len(r) = n + 1 /\ r[at] = node
      /\ \A i \in 1..(at - 1) : r[i] = delay_q[i]
      /\ \A i \in (at + 1)..(n + 1) : r[i] = delay_q[i - 1]
  <2>1. /\ delay_q \in Seq(DelayNode) /\ node \in DelayNode
        /\ at \in 1..(Len(delay_q) + 1)
    BY <1>1, <1>3, <1>4 DEF n
  <2>2. QED
    BY <2>1, InsertsAt DEF n
<1> HIDE DEF r
<1>6. CASE later = {}
  <2>1. q = r /\ at = n + 1
    BY <1>6, <1>3
  <2> HIDE DEF q
  <2>2. /\ q \in Seq(DelayNode) /\ Len(q) = n + 1
        /\ \A i \in 1..(at - 1) : q[i] = delay_q[i]
        /\ q[at].client_tid = c
        /\ q[at].delta = wake - W(at - 1) /\ q[at].delta \in Nat
        /\ ~(at <= n) /\ \A i \in (at + 2)..(n + 1) : FALSE
    BY <2>1, <1>1, <1>4, <1>5
  <2>3. q = delay_insert(c, wake)
    BY DEF delay_insert, q, r, node, at, later, n
  <2>4. QED
    BY <2>2, <2>3, <1>3 DEF n, W, InsertedAt
<1>7. CASE later # {}
  <2>1. /\ at \in 1..n /\ at + 1 \in 1..(n + 1) /\ at + 1 # at
        /\ wake <= W(at) /\ W(at) \in Int /\ W(at - 1) \in Int
    <3>1. at \in 1..n /\ at + 1 \in 1..(n + 1) /\ at \in 0..n /\ at - 1 \in 0..n
      BY <1>7, <1>1, <1>3
    <3>2. QED
      BY <3>1, <1>2, <1>3
  <2>2. r[at + 1] = delay_q[at] /\ r[at + 1] \in DelayNode
    BY <2>1, <1>1, <1>5
  <2>3. delay_q[at].delta = W(at) - W(at - 1)
    BY <2>1, <1>1 DEF CInv, DeltaInv, W
  <2>4. /\ r[at + 1].delta - node.delta = W(at) - wake
        /\ r[at + 1].delta - node.delta \in Nat
    BY <2>1, <2>2, <2>3, <1>4
  <2> DEFINE e == [r[at + 1] EXCEPT !.delta = @ - node.delta]
  <2>5. e \in DelayNode /\ e.client_tid = delay_q[at].client_tid /\ e.delta = W(at) - wake
    BY <2>2, <2>4 DEF DelayNode
  <2>6. q = [r EXCEPT ![at + 1] = e]
    BY <1>7, Zenon
  <2> HIDE DEF e, q
  <2>7. /\ q \in Seq(DelayNode) /\ Len(q) = n + 1
        /\ \A i \in 1..(n + 1) : q[i] = IF i = at + 1 THEN e ELSE r[i]
    BY <2>1, <2>5, <2>6, <1>5, ExceptSeq
  <2>8. /\ \A i \in 1..(at - 1) : q[i] = delay_q[i]
        /\ q[at] = node /\ q[at + 1] = e
        /\ \A i \in (at + 2)..(n + 1) : q[i] = delay_q[i - 1]
    <3>1. \A i \in 1..(at - 1) : i \in 1..(n + 1) /\ i # at + 1
      BY <2>1, <1>1
    <3>2. \A i \in (at + 2)..(n + 1) : i \in 1..(n + 1) /\ i # at + 1 /\ i \in (at + 1)..(n + 1)
      BY <2>1, <1>1
    <3>3. at \in 1..(n + 1)
      BY <2>1, <1>1
    <3>4. QED
      BY <2>1, <2>7, <3>1, <3>2, <3>3, <1>5
  <2>9. q = delay_insert(c, wake)
    BY DEF delay_insert, q, r, node, at, later, n
  <2>10. W(at) - wake \in Nat
    BY <2>1
  <2>11. QED
    BY <2>5, <2>7, <2>8, <2>9, <2>10, <1>3, <1>4 DEF n, W, InsertedAt
<1>8. QED
  BY <1>6, <1>7

LEMMA ServeDelayInv ==
  ASSUME CInv, ServeDelay
  PROVE  CInv'
<1> DEFINE n == Len(delay_q)
<1>0. /\ requests # <<>> /\ requests' = Tail(requests) /\ Request # Tick
      /\ Request.ticks # TimeRequest
      /\ delay_q' = delay_insert(Request.from, Request.ticks)
      /\ client' = [client EXCEPT ![Request.from] = "delayed"]
      /\ asked' = [asked EXCEPT ![Request.from] = Request.ticks]
      /\ due' = [due EXCEPT ![Request.from] = Request.ticks]
      /\ absorbed' = [absorbed EXCEPT ![Request.from] = 0]
      /\ UNCHANGED <<tick_notifier, past>>
  BY DEF ServeDelay, Received
<1>1. /\ Request \in Message /\ Request.from \in Clients /\ client[Request.from] = "asks"
      /\ requests' \in Seq(Message) /\ RequestInv'
  <2>1. \A d \in Clients : d # Request.from => client'[d] = client[d]
    BY <1>0 DEF CInv, ClockTypeOK
  <2>2. QED
    BY <1>0, <2>1, ReceivesRequest
<1> PICK c \in Clients : c = Request.from
  BY <1>1
<1> PICK wake \in Nat : wake = Request.ticks
  BY <1>0, <1>1 DEF Message, Tick
<1>2. /\ client[c] = "asks" /\ delay_q' = delay_insert(c, wake)
      /\ \A d \in Clients : /\ client'[d] = IF d = c THEN "delayed" ELSE client[d]
                            /\ due'[d] = IF d = c THEN wake ELSE due[d]
                            /\ absorbed'[d] = IF d = c THEN 0 ELSE absorbed[d]
  BY <1>0, <1>1 DEF CInv, ClockTypeOK
<1> PICK at \in 1..(n + 1) : InsertedAt(delay_q', c, wake, at)
  BY <1>2, InsertsDelay
<1>3. /\ n \in Nat /\ DOMAIN delay_q = 1..n
      /\ delay_q' \in Seq(DelayNode) /\ DOMAIN delay_q' = 1..(n + 1)
      /\ \A i \in 1..n : delay_q[i].client_tid \in Clients
  <2>1. /\ n \in Nat /\ DOMAIN delay_q = 1..n
        /\ \A i \in 1..n : delay_q[i] \in DelayNode
    BY LenProperties, ElementOfSeq DEF CInv, ClockTypeOK
  <2>2. delay_q' \in Seq(DelayNode) /\ Len(delay_q') = n + 1
    BY DEF InsertedAt
  <2>3. QED
    BY <2>1, <2>2, LenProperties DEF DelayNode
<1>4. ClockTypeOK'
  <2>1. delay_q' \in Seq(DelayNode) /\ requests' \in Seq(Message) /\ Request.ticks \in Nat
    BY <1>1, <1>3
  <2> HIDE DEF n
  <2>2. QED
    BY <2>1, <1>0 DEF CInv, ClockTypeOK
<1>5. \A i \in 1..(n + 1) :
        delay_q'[i].client_tid = IF i < at THEN delay_q[i].client_tid
                                 ELSE IF i = at THEN c ELSE delay_q[i - 1].client_tid
  <2> SUFFICES ASSUME NEW i \in 1..(n + 1)
               PROVE  delay_q'[i].client_tid = IF i < at THEN delay_q[i].client_tid
                                 ELSE IF i = at THEN c ELSE delay_q[i - 1].client_tid
    OBVIOUS
  <2>1. CASE i < at
    <3>1. i \in 1..(at - 1)
      BY <2>1
    <3>2. QED
      BY <2>1, <3>1 DEF InsertedAt
  <2>2. CASE i = at
    BY <2>2 DEF InsertedAt
  <2>3. CASE i = at + 1
    <3>1. at <= n /\ ~(i < at) /\ i # at /\ i - 1 = at
      BY <2>3, <1>3
    <3>2. QED
      BY <2>3, <3>1 DEF InsertedAt
  <2>4. CASE i > at + 1
    <3>1. i \in (at + 2)..(n + 1) /\ ~(i < at) /\ i # at
      BY <2>4, <1>3
    <3>2. QED
      BY <3>1 DEF InsertedAt
  <2>5. QED
    BY <1>3, <2>1, <2>2, <2>3, <2>4
<1>6. \A i \in 1..n : delay_q[i].client_tid # c
  BY <1>2, <1>3 DEF CInv, SleeperInv
<1>7. SleeperInv'
  <2>1. \A i \in 1..(n + 1) : client'[delay_q'[i].client_tid] = "delayed"
    <3>1. \A i \in 1..n : client'[delay_q[i].client_tid] = "delayed"
      BY <1>2, <1>3 DEF CInv, SleeperInv
    <3>2. client'[c] = "delayed"
      BY <1>2
    <3>3. \A i \in 1..(n + 1) : (i < at => i \in 1..n) /\ (i # at /\ ~(i < at) => i - 1 \in 1..n)
      BY <1>3
    <3>4. QED
      BY <1>5, <3>1, <3>2, <3>3
  <2>2. ASSUME NEW i \in 1..(n + 1), NEW j \in 1..(n + 1),
               delay_q'[i].client_tid = delay_q'[j].client_tid
        PROVE  i = j
    <3> DEFINE old(k) == IF k < at THEN k ELSE k - 1
    <3>1. \A k \in 1..(n + 1) : k # at =>
            old(k) \in 1..n /\ delay_q'[k].client_tid = delay_q[old(k)].client_tid
      BY <1>3, <1>5
    <3>2. i # at /\ j # at => old(i) = old(j)
      <4> HIDE DEF old
      <4>1. \A k, m \in 1..n : delay_q[k].client_tid = delay_q[m].client_tid => k = m
        BY <1>3 DEF CInv, SleeperInv
      <4>2. QED
        BY <3>1, <2>2, <4>1
    <3>3. i # at /\ j # at => i = j
      BY <3>2, <1>3
    <3>4. i = at <=> j = at
      <4>1. delay_q'[at].client_tid = c
        BY <1>5
      <4> HIDE DEF old
      <4>2. QED
        BY <4>1, <3>1, <2>2, <1>6
    <3>5. QED
      BY <3>3, <3>4
  <2>3. ASSUME NEW d \in Clients, client'[d] = "delayed"
        PROVE  \E i \in 1..(n + 1) : delay_q'[i].client_tid = d
    <3>1. CASE d = c
      BY <3>1, <1>5
    <3>2. CASE d # c
      <4>1. PICK i \in 1..n : delay_q[i].client_tid = d
        BY <2>3, <3>2, <1>2, <1>3 DEF CInv, SleeperInv
      <4>2. CASE i < at
        BY <4>1, <4>2, <1>3, <1>5
      <4>3. CASE i >= at
        <5>1. i + 1 \in 1..(n + 1) /\ ~(i + 1 < at) /\ i + 1 # at /\ (i + 1) - 1 = i
          BY <4>3, <1>3
        <5>2. QED
          BY <4>1, <5>1, <1>5
      <4>4. QED
        BY <4>2, <4>3, <1>3
    <3>3. QED
      BY <3>1, <3>2
  <2>4. QED
    BY <2>1, <2>2, <2>3, <1>3 DEF SleeperInv
<1> DEFINE W(i) == WakeAt(delay_q, i)
           V(i) == WakeAt(delay_q, i)'
<1>8. \A i \in 0..(n + 1) : V(i) = IF i < at THEN W(i) ELSE IF i = at THEN wake ELSE W(i - 1)
  <2>1. Wake(c)' = wake /\ \A d \in Clients : d # c => Wake(d)' = Wake(d)
    BY <1>2 DEF Wake
  <2>2. V(0) = W(0) /\ 0 < at
    BY DEF WakeAt
  <2>3. ASSUME NEW i \in 1..(n + 1) PROVE V(i) = IF i < at THEN W(i) ELSE IF i = at THEN wake ELSE W(i - 1)
    <3>1. CASE i < at
      <4>1. i \in 1..n /\ delay_q'[i].client_tid = delay_q[i].client_tid
        BY <3>1, <1>3, <1>5
      <4>2. QED
        BY <3>1, <4>1, <2>1, <1>3, <1>6 DEF WakeAt
    <3>2. CASE i = at
      BY <3>2, <1>5, <2>1 DEF WakeAt
    <3>3. CASE i > at
      <4>1. i - 1 \in 1..n /\ i # 0 /\ i - 1 # 0
        BY <3>3, <1>3
      <4>2. delay_q'[i].client_tid = delay_q[i - 1].client_tid
        BY <3>3, <1>5
      <4>3. V(i) = W(i - 1)
        BY <4>1, <4>2, <2>1, <1>3, <1>6 DEF WakeAt
      <4>4. QED
        BY <3>3, <4>3
    <3>4. QED
      BY <3>1, <3>2, <3>3, <1>3
  <2>4. QED
    BY <2>2, <2>3, <1>3
<1>9. DeltaInv'
  <2> SUFFICES ASSUME NEW i \in 1..(n + 1)
               PROVE  delay_q'[i].delta \in Nat /\ delay_q'[i].delta = V(i) - V(i - 1)
    BY <1>3 DEF DeltaInv
  <2> HIDE DEF W, V, n
  <2>0. i \in 0..(n + 1) /\ i - 1 \in 0..(n + 1)
    BY <1>3
  <2>1. CASE i < at
    <3>1. i \in 1..(at - 1) /\ i \in 1..n /\ i - 1 < at
      BY <2>1, <1>3
    <3>2. delay_q'[i] = delay_q[i]
      BY <3>1 DEF InsertedAt
    <3>3. V(i) = W(i) /\ V(i - 1) = W(i - 1)
      BY <2>0, <2>1, <3>1, <1>8
    <3>4. QED
      BY <3>1, <3>2, <3>3, <1>3 DEF CInv, DeltaInv, W
  <2>2. CASE i = at
    <3>1. V(i) = wake /\ V(i - 1) = W(i - 1)
      BY <2>0, <2>2, <1>8
    <3>2. QED
      BY <2>2, <3>1 DEF InsertedAt, W
  <2>3. CASE i = at + 1
    <3>1. at <= n /\ ~(i < at) /\ i # at /\ i - 1 = at
      BY <2>3, <1>3
    <3>2. V(i) = W(at) /\ V(i - 1) = wake
      BY <2>0, <3>1, <1>8
    <3>3. QED
      BY <2>3, <3>1, <3>2 DEF InsertedAt, W, n
  <2>4. CASE i > at + 1
    <3>1. /\ i \in (at + 2)..(n + 1) /\ i - 1 \in 1..n
          /\ ~(i < at) /\ i # at /\ ~(i - 1 < at) /\ i - 1 # at
      BY <2>4, <1>3
    <3>2. delay_q'[i] = delay_q[i - 1]
      BY <3>1 DEF InsertedAt, n
    <3>3. V(i) = W(i - 1) /\ V(i - 1) = W((i - 1) - 1)
      BY <2>0, <3>1, <1>8
    <3>4. QED
      BY <3>1, <3>2, <3>3, <1>3 DEF CInv, DeltaInv, W
  <2>5. QED
    BY <1>3, <2>1, <2>2, <2>3, <2>4
<1>10. QED
  BY <1>1, <1>4, <1>7, <1>9 DEF CInv

(***************************************************************************)
(* A tick: delay_on_tick()                                                 *)
(***************************************************************************)
LEMMA ExpiredFacts ==
  ASSUME NEW q, Len(q) \in Nat, Len(q) > 0, DOMAIN q = 1..Len(q)
  PROVE  /\ Expired(q) \in 0..Len(q)
         /\ \A i \in 1..Expired(q) : q[i].delta <= 0
         /\ Expired(q) = 0 => ~(q[1].delta <= 0)
<1> DEFINE due_now == {k \in DOMAIN q : \A i \in 1..k : q[i].delta <= 0}
<1>1. CASE due_now = {}
  <2>1. Expired(q) = 0
    BY <1>1 DEF Expired
  <2>2. 1 \notin due_now /\ 1 \in DOMAIN q /\ 1..1 = {1}
    BY <1>1
  <2>3. ~(q[1].delta <= 0)
    BY <2>2
  <2>4. QED
    BY <2>1, <2>3
<1>2. CASE due_now # {}
  <2>1. due_now \in SUBSET (0..Len(q))
    OBVIOUS
  <2> DEFINE k == CHOOSE k \in due_now : \A i \in due_now : i <= k
  <2>2. k \in due_now
    <3> HIDE DEF due_now
    <3>1. \E x \in due_now : \A y \in due_now : y <= x
      BY <1>2, <2>1, GreatestBelow
    <3>2. QED
      BY <3>1
  <2>3. Expired(q) = k
    BY <1>2 DEF Expired
  <2> HIDE DEF k
  <2>4. k \in 1..Len(q) /\ \A i \in 1..k : q[i].delta <= 0
    BY <2>2
  <2>5. QED
    BY <2>3, <2>4
<1>3. QED
  BY <1>1, <1>2

\* r is what a tick leaves of the queue: the first k entries are removed, of
\* which the first had at most one tick left and the others none.
TickRemoves(r, k) ==
  /\ r \in Seq(DelayNode) /\ Len(r) = Len(delay_q) - k
  /\ \A i \in 1..Len(r) :
       /\ r[i].client_tid = delay_q[k + i].client_tid
       /\ r[i].delta = IF k + i = 1 THEN delay_q[1].delta - 1 ELSE delay_q[k + i].delta
  /\ k > 0 => delay_q[1].delta <= 1
  /\ k = 0 => delay_q[1].delta > 1
  /\ \A i \in 2..k : delay_q[i].delta = 0

LEMMA OnTick ==
  ASSUME CInv, delay_q # <<>>
  PROVE  \E k \in 0..Len(delay_q) : TickRemoves(delay_on_tick(delay_q), k)
<1> DEFINE n == Len(delay_q)
           q1 == [delay_q EXCEPT ![1].delta = @ - 1]
           e == [delay_q[1] EXCEPT !.delta = @ - 1]
           r == SubSeq(q1, Expired(q1) + 1, Len(q1))
<1>1. /\ delay_q \in Seq(DelayNode) /\ n \in Nat /\ n > 0 /\ DOMAIN delay_q = 1..n
      /\ \A i \in 1..n : delay_q[i] \in DelayNode
      /\ \A i \in 1..n : delay_q[i].delta \in Nat
  BY LenProperties, ElementOfSeq, EmptySeq DEF CInv, ClockTypeOK, DeltaInv
<1>2. 1 \in 1..n
  BY <1>1
<1>3. /\ e \in DelayNode /\ e.client_tid = delay_q[1].client_tid
      /\ e.delta = delay_q[1].delta - 1
  BY <1>1, <1>2 DEF DelayNode
<1>4. q1 = [delay_q EXCEPT ![1] = e]
  OBVIOUS
<1> HIDE DEF q1, e
<1>5. /\ q1 \in Seq(DelayNode) /\ Len(q1) = n /\ DOMAIN q1 = 1..n
      /\ \A i \in 1..n : q1[i] = IF i = 1 THEN e ELSE delay_q[i]
      /\ \A i \in 1..n : q1[i] \in DelayNode
  <2>1. /\ q1 \in Seq(DelayNode) /\ Len(q1) = n
        /\ \A i \in 1..n : q1[i] = IF i = 1 THEN e ELSE delay_q[i]
    BY <1>1, <1>2, <1>3, <1>4, ExceptSeq
  <2>2. QED
    BY <2>1, LenProperties, ElementOfSeq
<1> PICK k \in 0..n : k = Expired(q1)
  BY <1>1, <1>5, ExpiredFacts
<1>6. /\ \A i \in 1..k : q1[i].delta <= 0
      /\ k = 0 => ~(q1[1].delta <= 0)
  BY <1>1, <1>5, ExpiredFacts
<1>7. /\ r \in Seq(DelayNode) /\ Len(r) = n - k
      /\ \A i \in 1..(n - k) : r[i] = q1[k + i]
  <2>1. k + 1 \in Int /\ n \in Int /\ \A i \in (k + 1)..n : q1[i] \in DelayNode
    BY <1>1, <1>5
  <2>2. r = SubSeq(q1, k + 1, n)
    BY <1>5
  <2> HIDE DEF r, n
  <2>3. /\ r \in Seq(DelayNode) /\ Len(r) = IF k + 1 <= n THEN n - (k + 1) + 1 ELSE 0
        /\ \A i \in 1..(n - (k + 1) + 1) : r[i] = q1[(k + 1) + i - 1]
    BY <2>1, <2>2, SubSeqProperties
  <2>4. /\ n - (k + 1) + 1 = n - k /\ \A i \in 1..(n - k) : (k + 1) + i - 1 = k + i
        /\ (IF k + 1 <= n THEN n - (k + 1) + 1 ELSE 0) = n - k
    BY <1>1
  <2>5. Len(r) = n - k
    BY <2>3, <2>4
  <2>6. \A i \in 1..(n - k) : r[i] = q1[k + i]
    BY <2>3, <2>4
  <2>7. QED
    BY <2>3, <2>5, <2>6
<1>8. r = delay_on_tick(delay_q)
  BY DEF delay_on_tick, q1
<1> HIDE DEF r
<1>9. \A i \in 1..Len(r) :
        /\ r[i].client_tid = delay_q[k + i].client_tid
        /\ r[i].delta = IF k + i = 1 THEN delay_q[1].delta - 1 ELSE delay_q[k + i].delta
  <2> SUFFICES ASSUME NEW i \in 1..(n - k)
               PROVE  /\ r[i].client_tid = delay_q[k + i].client_tid
                      /\ r[i].delta = IF k + i = 1 THEN delay_q[1].delta - 1
                                                   ELSE delay_q[k + i].delta
    BY <1>7
  <2>1. k + i \in 1..n
    BY <1>1
  <2>2. r[i] = IF k + i = 1 THEN e ELSE delay_q[k + i]
    BY <1>5, <1>7, <2>1
  <2>3. QED
    BY <2>2, <1>3
<1>10. /\ k > 0 => delay_q[1].delta <= 1
       /\ k = 0 => delay_q[1].delta > 1
  BY <1>1, <1>2, <1>3, <1>5, <1>6
<1>11. ASSUME NEW i \in 2..k PROVE delay_q[i].delta = 0
  <2>1. i \in 1..n /\ i \in 1..k /\ i # 1
    BY <1>1
  <2>2. QED
    BY <2>1, <1>1, <1>5, <1>6
<1>12. TickRemoves(r, k)
  BY <1>7, <1>9, <1>10, <1>11 DEF TickRemoves
<1>13. QED
  BY <1>8, <1>12

\* Who is woken by a tick, and what becomes of the others' times.
LEMMA TickWakes ==
  ASSUME CInv, ServeTick, delay_q # <<>>, NEW k \in 0..Len(delay_q), TickRemoves(delay_q', k)
  PROVE  /\ \A i \in 1..Len(delay_q) :
              /\ client'[delay_q[i].client_tid] = IF i <= k THEN "runs" ELSE "delayed"
              /\ i <= k => Wake(delay_q[i].client_tid) = delay_q[1].delta
         /\ \A c \in Clients : client[c] # "delayed" => client'[c] = client[c]
         /\ \A c \in Clients : client'[c] = "delayed" =>
              /\ \E i \in (k + 1)..Len(delay_q) : delay_q[i].client_tid = c
              /\ Wake(c)' = Wake(c) - (IF delay_q[1].delta = 0 THEN 0 ELSE 1)
<1> DEFINE n == Len(delay_q)
           tid(i) == delay_q[i].client_tid
           woken == Queued(delay_q) \ Queued(delay_q')
<1>1. /\ n \in Nat /\ n > 0 /\ DOMAIN delay_q = 1..n
      /\ DOMAIN delay_q' = 1..(n - k)
      /\ \A i \in 1..n : tid(i) \in Clients /\ delay_q[i].delta \in Nat
      /\ \A i \in 1..(n - k) : delay_q'[i].client_tid = tid(k + i)
  <2>1. /\ n \in Nat /\ n > 0 /\ DOMAIN delay_q = 1..n
        /\ \A i \in 1..n : delay_q[i] \in DelayNode
    BY LenProperties, ElementOfSeq, EmptySeq DEF CInv, ClockTypeOK
  <2>2. delay_q' \in Seq(DelayNode) /\ Len(delay_q') = n - k
        /\ \A i \in 1..(n - k) : delay_q'[i].client_tid = tid(k + i)
    BY DEF TickRemoves
  <2>3. DOMAIN delay_q' = 1..(n - k)
    BY <2>2, LenProperties
  <2>4. \A i \in 1..n : delay_q[i].delta \in Nat
    BY <2>1 DEF CInv, DeltaInv
  <2>5. QED
    BY <2>1, <2>2, <2>3, <2>4 DEF DelayNode
<1>2. /\ \A i, j \in 1..n : tid(i) = tid(j) => i = j
      /\ \A i \in 1..n : client[tid(i)] = "delayed"
      /\ \A c \in Clients : client[c] = "delayed" => \E i \in 1..n : tid(i) = c
  BY <1>1 DEF CInv, SleeperInv
<1> HIDE DEF tid, n
<1>3. \A i \in 1..n : tid(i) \in Queued(delay_q') <=> i > k
  <2> SUFFICES ASSUME NEW i \in 1..n PROVE tid(i) \in Queued(delay_q') <=> i > k
    OBVIOUS
  <2>1. ASSUME i > k PROVE tid(i) \in Queued(delay_q')
    <3>1. i - k \in 1..(n - k) /\ k + (i - k) = i
      BY <2>1, <1>1
    <3>2. QED
      BY <3>1, <1>1 DEF Queued
  <2>2. ASSUME tid(i) \in Queued(delay_q') PROVE i > k
    <3>1. PICK j \in 1..(n - k) : tid(i) = tid(k + j)
      BY <2>2, <1>1 DEF Queued
    <3>2. k + j \in 1..n /\ k + j > k
      BY <1>1
    <3>3. QED
      BY <3>1, <3>2, <1>2
  <2>3. QED
    BY <2>1, <2>2
<1>4. /\ Queued(delay_q) = {tid(i) : i \in 1..n}
      /\ woken \subseteq Queued(delay_q)
  BY <1>1 DEF Queued, tid
<1>5. \A i \in 1..n : tid(i) \in woken <=> i <= k
  BY <1>1, <1>3, <1>4
<1>6. \A c \in Clients : client'[c] = IF c \in woken THEN "runs" ELSE client[c]
  BY DEF ServeTick
<1> HIDE DEF woken
<1>7. \A i \in 1..n : client'[tid(i)] = IF i <= k THEN "runs" ELSE "delayed"
  BY <1>1, <1>2, <1>5, <1>6
<1>8. \A c \in Clients : client[c] # "delayed" => client'[c] = client[c]
  BY <1>2, <1>4, <1>6
<1>9. ASSUME NEW c \in Clients, client'[c] = "delayed"
      PROVE  \E i \in (k + 1)..n : tid(i) = c
  <2>1. client[c] = "delayed"
    BY <1>9, <1>8
  <2>2. PICK i \in 1..n : tid(i) = c
    BY <2>1, <1>2
  <2>3. ~(i <= k)
    BY <2>2, <1>7, <1>9
  <2>4. i \in (k + 1)..n
    BY <2>3, <1>1
  <2>5. QED
    BY <2>2, <2>4
<1>10. \A i \in 1..n : i <= k => Wake(tid(i)) = delay_q[1].delta
  <2> DEFINE w == [i \in 0..n |-> WakeAt(delay_q, i)]
  <2>1. \A i \in 1..n : w[i] = Wake(tid(i))
    BY <1>1 DEF WakeAt, tid
  <2>2. \A i \in 0..n : w[i] \in Int
    BY AbsIsWake DEF CInv, n
  <2>3. w[0] = 0 /\ \A i \in 1..n : delay_q[i].delta = w[i] - w[i - 1]
    <3>1. 0 \in 0..n /\ \A i \in 1..n : i \in 0..n /\ i - 1 \in 0..n
      BY <1>1
    <3>2. WakeAt(delay_q, 0) = 0
      BY DEF WakeAt
    <3>3. \A i \in 1..n : delay_q[i].delta = WakeAt(delay_q, i) - WakeAt(delay_q, i - 1)
      BY <1>1 DEF CInv, DeltaInv
    <3>4. QED
      BY <3>1, <3>2, <3>3
  <2> HIDE DEF w
  <2>4. k > 0 => w[1] = delay_q[1].delta
    <3>1. 1 \in 1..n /\ w[1] \in Int /\ 1 - 1 = 0
      BY <2>2, <1>1
    <3>2. delay_q[1].delta = w[1] - w[0]
      BY <3>1, <2>3
    <3>3. QED
      BY <3>1, <3>2, <2>3
  <2>5. ASSUME NEW i \in 2..k PROVE w[i] = w[i - 1]
    <3>1. i \in 1..n /\ i \in 0..n /\ i - 1 \in 0..n
      BY <1>1 DEF n
    <3>2. w[i] \in Int /\ w[i - 1] \in Int
      BY <3>1, <2>2
    <3>3. delay_q[i].delta = 0
      BY DEF TickRemoves
    <3>4. QED
      BY <3>1, <3>2, <3>3, <2>3
  <2>6. \A i \in 1..k : w[i] = w[1]
    <3>1. k \in Nat
      BY <1>1 DEF n
    <3>2. QED
      BY <2>5, <3>1, Constant
  <2>7. ASSUME NEW i \in 1..n, i <= k PROVE Wake(tid(i)) = delay_q[1].delta
    <3>1. i \in 1..k /\ k > 0
      BY <2>7, <1>1 DEF n
    <3>2. QED
      BY <3>1, <2>1, <2>4, <2>6
  <2>8. QED
    BY <2>7
<1>11. \A c \in Clients : client'[c] = "delayed" =>
         Wake(c)' = Wake(c) - (IF delay_q[1].delta = 0 THEN 0 ELSE 1)
  <2> SUFFICES ASSUME NEW c \in Clients, client'[c] = "delayed"
               PROVE  Wake(c)' = Wake(c) - (IF delay_q[1].delta = 0 THEN 0 ELSE 1)
    OBVIOUS
  <2>1. delay_q[1].delta <= 0 <=> delay_q[1].delta = 0
    BY <1>1
  <2>2. /\ due'[c] = due[c] - 1
        /\ absorbed'[c] = IF delay_q[1].delta = 0 THEN absorbed[c] + 1 ELSE absorbed[c]
    BY <2>1 DEF ServeTick
  <2>3. due[c] \in Int /\ absorbed[c] \in Int
    BY DEF CInv, ClockTypeOK
  <2>4. Wake(c) = due[c] + absorbed[c] /\ Wake(c)' = due'[c] + absorbed'[c]
    BY DEF Wake
  <2>5. CASE delay_q[1].delta = 0
    BY <2>2, <2>3, <2>4, <2>5
  <2>6. CASE delay_q[1].delta # 0
    BY <2>2, <2>3, <2>4, <2>6
  <2>7. QED
    BY <2>5, <2>6
<1>12. QED
  BY <1>7, <1>8, <1>9, <1>10, <1>11 DEF tid, n

LEMMA ServeTickInv ==
  ASSUME CInv, ServeTick
  PROVE  CInv'
<1>1. /\ requests # <<>> /\ requests' = Tail(requests) /\ Request = Tick
      /\ delay_q' = delay_on_tick(delay_q)
      /\ due' = [c \in Clients |-> IF client'[c] = "delayed" THEN due[c] - 1 ELSE 0]
      /\ asked' = [c \in Clients |-> IF client'[c] = "delayed" THEN asked[c] ELSE 0]
      /\ tick_notifier' = "calls" /\ UNCHANGED past
  BY DEF ServeTick, Received
<1>2. /\ client' \in [Clients -> {"runs", "asks", "delayed"}]
      /\ due' \in [Clients -> Int] /\ asked' \in [Clients -> Nat]
  BY <1>1 DEF ServeTick, CInv, ClockTypeOK
<1>3. absorbed' \in [Clients -> Nat]
  BY DEF ServeTick, CInv, ClockTypeOK
<1>4. ASSUME delay_q' \in Seq(DelayNode),
             \A c \in Clients : client[c] = "asks" => client'[c] = "asks"
      PROVE  ClockTypeOK' /\ RequestInv'
  <2>1. requests' \in Seq(Message) /\ RequestInv'
    BY <1>1, <1>4, ReceivesRequest
  <2>2. ClockTypeOK'
    BY <1>1, <1>2, <1>3, <1>4, <2>1 DEF CInv, ClockTypeOK
  <2>3. QED
    BY <2>1, <2>2
<1>5. CASE delay_q = <<>>
  <2>1. delay_q' = <<>>
    BY <1>1, <1>5 DEF delay_on_tick
  <2>2. \A c \in Clients : client[c] # "delayed"
    BY <1>5 DEF CInv, SleeperInv
  <2>3. \A c \in Clients : client'[c] = client[c]
    BY <2>1, <1>5 DEF ServeTick, Queued
  <2>4. SleeperInv' /\ DeltaInv'
    BY <2>1, <2>2, <2>3 DEF SleeperInv, DeltaInv
  <2>5. QED
    BY <1>4, <2>1, <2>3, <2>4 DEF CInv
<1>6. CASE delay_q # <<>>
  <2> DEFINE n == Len(delay_q)
             tid(i) == delay_q[i].client_tid
             W(i) == WakeAt(delay_q, i)
             V(i) == WakeAt(delay_q, i)'
             s == IF delay_q[1].delta = 0 THEN 0 ELSE 1
  <2> PICK k \in 0..n : TickRemoves(delay_q', k)
    BY <1>1, <1>6, OnTick
  <2>1. /\ \A i \in 1..n : /\ client'[tid(i)] = IF i <= k THEN "runs" ELSE "delayed"
                           /\ i <= k => Wake(tid(i)) = delay_q[1].delta
        /\ \A c \in Clients : client[c] # "delayed" => client'[c] = client[c]
        /\ \A c \in Clients : client'[c] = "delayed" =>
             /\ \E i \in (k + 1)..n : tid(i) = c
             /\ Wake(c)' = Wake(c) - s
    BY <1>6, TickWakes
  <2>2. /\ n \in Nat /\ n > 0 /\ DOMAIN delay_q = 1..n
        /\ \A i \in 1..n : tid(i) \in Clients /\ delay_q[i].delta \in Nat
    <3>1. /\ n \in Nat /\ n > 0 /\ DOMAIN delay_q = 1..n
          /\ \A i \in 1..n : delay_q[i] \in DelayNode
      BY <1>6, LenProperties, ElementOfSeq, EmptySeq DEF CInv, ClockTypeOK
    <3>2. QED
      BY <3>1 DEF DelayNode, CInv, DeltaInv
  <2>3. /\ delay_q' \in Seq(DelayNode) /\ DOMAIN delay_q' = 1..(n - k)
        /\ \A i \in 1..(n - k) :
             /\ delay_q'[i].client_tid = tid(k + i)
             /\ delay_q'[i].delta = IF k + i = 1 THEN delay_q[1].delta - 1
                                                 ELSE delay_q[k + i].delta
    <3>1. delay_q' \in Seq(DelayNode) /\ Len(delay_q') = n - k
      BY DEF TickRemoves
    <3>2. QED
      BY <3>1, LenProperties DEF TickRemoves
  <2>4. /\ k > 0 => delay_q[1].delta <= 1
        /\ k = 0 => delay_q[1].delta > 1
    BY DEF TickRemoves
  <2>5. \A i \in 0..n : W(i) \in Int
    BY AbsIsWake DEF CInv
  <2>6. W(0) = 0 /\ V(0) = 0 /\ \A i \in 1..n : W(i) = Wake(tid(i)) /\ delay_q[i].delta = W(i) - W(i - 1)
    BY <2>2 DEF WakeAt, CInv, DeltaInv
  <2>7. \A i \in 1..(n - k) : V(i) = W(k + i) - s
    <3> SUFFICES ASSUME NEW i \in 1..(n - k) PROVE V(i) = W(k + i) - s
      OBVIOUS
    <3>1. k + i \in 1..n /\ ~(k + i <= k) /\ i # 0 /\ k + i # 0
      BY <2>2
    <3> PICK c \in Clients : c = tid(k + i)
      BY <2>2, <3>1
    <3>2. client'[c] = "delayed" /\ delay_q'[i].client_tid = c
      BY <2>1, <2>3, <3>1
    <3>3. Wake(c)' = Wake(c) - s
      BY <2>1, <3>2
    <3>4. V(i) = Wake(c)'
      BY <3>1, <3>2 DEF WakeAt
    <3>5. W(k + i) = Wake(c)
      BY <3>1, <2>6
    <3>6. QED
      BY <3>3, <3>4, <3>5
  <2> HIDE DEF n, tid, W, V, s
  <2>8. SleeperInv'
    <3>1. \A i \in 1..(n - k) : k + i \in 1..n /\ ~(k + i <= k)
      BY <2>2
    <3>2. \A i \in 1..(n - k) : client'[delay_q'[i].client_tid] = "delayed"
      BY <2>1, <2>3, <3>1
    <3>3. ASSUME NEW i \in 1..(n - k), NEW j \in 1..(n - k),
                 delay_q'[i].client_tid = delay_q'[j].client_tid
          PROVE  i = j
      <4>1. tid(k + i) = tid(k + j)
        BY <3>3, <2>3
      <4>2. k + i = k + j
        BY <4>1, <3>1, <2>2 DEF CInv, SleeperInv, tid
      <4>3. QED
        BY <4>2
    <3>4. ASSUME NEW c \in Clients, client'[c] = "delayed"
          PROVE  \E i \in 1..(n - k) : delay_q'[i].client_tid = c
      <4>1. PICK j \in (k + 1)..n : tid(j) = c
        BY <3>4, <2>1
      <4>2. j - k \in 1..(n - k) /\ k + (j - k) = j
        BY <2>2
      <4>3. QED
        BY <4>1, <4>2, <2>3
    <3>5. QED
      BY <2>3, <3>2, <3>3, <3>4 DEF SleeperInv
  <2>9. DeltaInv'
    <3> SUFFICES ASSUME NEW i \in 1..(n - k)
                 PROVE  delay_q'[i].delta \in Nat /\ delay_q'[i].delta = V(i) - V(i - 1)
      BY <2>3 DEF DeltaInv, V
    <3>1. /\ k + i \in 1..n /\ (k + i) - 1 \in 0..n /\ k + i \in 0..n
          /\ W(k + i) \in Int /\ W((k + i) - 1) \in Int
      <4>1. k + i \in 1..n /\ (k + i) - 1 \in 0..n /\ k + i \in 0..n
        BY <2>2
      <4>2. QED
        BY <4>1, <2>5
    <3>2. CASE k + i = 1
      <4>1. k = 0 /\ i = 1 /\ i - 1 = 0 /\ (k + i) - 1 = 0
        BY <3>2, <2>2
      <4>2. delay_q[1].delta > 1 /\ s = 1 /\ delay_q[1].delta \in Nat
        BY <4>1, <2>2, <2>4 DEF s
      <4>3. delay_q'[i].delta = delay_q[1].delta - 1 /\ delay_q[1].delta = W(1) - 0
        BY <3>2, <3>1, <4>1, <2>3, <2>6
      <4>4. V(i) = W(1) - 1 /\ V(i - 1) = 0
        BY <3>2, <4>1, <4>2, <2>6, <2>7
      <4>5. W(1) \in Int
        BY <3>1, <3>2
      <4>6. QED
        BY <4>2, <4>3, <4>4, <4>5
    <3>3. CASE k + i # 1
      <4>1. /\ delay_q'[i].delta = W(k + i) - W((k + i) - 1)
            /\ delay_q'[i].delta \in Nat
        BY <3>1, <3>3, <2>2, <2>3, <2>6
      <4>2. CASE i = 1
        <5>1. k > 0 /\ k \in 1..n /\ k <= k /\ (k + i) - 1 = k /\ i - 1 = 0
          <6>1. n \in Nat
            BY <2>2
          <6>2. QED
            BY <3>3, <4>2, <6>1
        <5>2. W(k) = delay_q[1].delta
          BY <5>1, <2>1, <2>6
        <5>3. s = delay_q[1].delta
          <6>1. 1 \in 1..n
            BY <2>2
          <6>2. delay_q[1].delta \in Nat /\ delay_q[1].delta <= 1
            BY <5>1, <6>1, <2>2, <2>4
          <6>3. QED
            BY <6>2 DEF s
        <5>4. V(i) = W(k + i) - s /\ V(i - 1) = 0
          BY <5>1, <2>6, <2>7
        <5>5. QED
          BY <4>1, <5>1, <5>2, <5>3, <5>4, <3>1
      <4>3. CASE i # 1
        <5>1. i - 1 \in 1..(n - k) /\ k + (i - 1) = (k + i) - 1
          BY <4>3, <2>2
        <5>2. V(i) = W(k + i) - s /\ V(i - 1) = W((k + i) - 1) - s
          BY <5>1, <2>7
        <5>3. s \in Int
          BY DEF s
        <5>4. QED
          BY <4>1, <5>2, <5>3, <3>1
      <4>4. QED
        BY <4>2, <4>3
    <3>4. QED
      BY <3>2, <3>3
  <2>10. \A c \in Clients : client[c] = "asks" => client'[c] = "asks"
    BY <2>1
  <2>11. QED
    BY <1>4, <2>3, <2>8, <2>9, <2>10 DEF CInv
<1>7. QED
  BY <1>5, <1>6

-----------------------------------------------------------------------------
LEMMA ClockStep == CInv /\ [ClockNext]_clockVars => CInv'
<1> SUFFICES ASSUME CInv, [ClockNext]_clockVars PROVE CInv'
  OBVIOUS
<1>1. CASE ClockNext
  BY <1>1, NotifierInv, NotifierSendsInv, AsksInv, ServeTimeOrFullInv, ServeDelayInv,
     ServeTickInv DEF ClockNext
<1>2. CASE UNCHANGED clockVars
  <2>1. UNCHANGED <<delay_q, tick_notifier, requests, client, asked, due, absorbed, past>>
    BY <1>2 DEF clockVars
  <2>2. ClockTypeOK' /\ RequestInv'
    BY <2>1 DEF CInv, ClockTypeOK, RequestInv
  <2>3. QED
    BY <2>1, <2>2, NoSleeperMoves DEF CInv
<1>3. QED
  BY <1>1, <1>2

\* The invariant of the delta queue holds in every state.
THEOREM ClockInvariant == ClockSpec => []CInv
BY ClockInitInv, ClockStep, PTL DEF ClockSpec

\* Every sleeper is in the queue once, and the deltas up to its entry add up to
\* what is left of its delay (delay_insert(), delay_on_tick()).
THEOREM DeltasAlwaysAddUp == ClockSpec => []DeltasAddUp
<1>1. CInv => DeltasAddUp
  <2> SUFFICES ASSUME CInv PROVE DeltasAddUp
    OBVIOUS
  <2> DEFINE n == Len(delay_q)
             f == [i \in 1..n |-> delay_q[i].client_tid]
  <2>1. /\ n \in Nat /\ DOMAIN delay_q = 1..n
        /\ \A i \in 1..n : delay_q[i].client_tid \in Clients
    <3>1. /\ n \in Nat /\ DOMAIN delay_q = 1..n
          /\ \A i \in 1..n : delay_q[i] \in DelayNode
      BY LenProperties, ElementOfSeq DEF CInv, ClockTypeOK
    <3>2. QED
      BY <3>1 DEF DelayNode
  <2>2. Queued(delay_q) = {c \in Clients : client[c] = "delayed"}
    BY <2>1 DEF Queued, CInv, SleeperInv
  <2>3. Cardinality(Queued(delay_q)) = n
    <3>1. f \in [1..n -> Queued(delay_q)]
      BY <2>1 DEF Queued
    <3>2. \A i, j \in 1..n : f[i] = f[j] => i = j
      BY <2>1 DEF CInv, SleeperInv
    <3>3. \A c \in Queued(delay_q) : \E i \in 1..n : f[i] = c
      BY <2>1 DEF Queued
    <3>4. n \in Nat
      BY <2>1
    <3> HIDE DEF f, n
    <3>5. QED
      BY <3>1, <3>2, <3>3, <3>4, DistinctCount
  <2>4. \A i \in 1..n : LET c == delay_q[i].client_tid
                        IN  AbsWake(delay_q, i) = due[c] + absorbed[c]
    BY <2>1, AbsIsWake DEF CInv, WakeAt, Wake
  <2>5. QED
    BY <2>1, <2>2, <2>3, <2>4 DEF DeltasAddUp, SleepersAreQueued
<1>2. QED
  BY <1>1, ClockInvariant, PTL

\* No Delay() returns before its ticks have passed (delay_on_tick()).
THEOREM NobodyWakesEarly == ClockSpec => NoEarlyWake
<1>1. CInv /\ [ClockNext]_clockVars => [\A c \in Clients : Released(c) => Left(c) <= 0]_clockVars
  <2> SUFFICES ASSUME CInv, ClockNext, NEW c \in Clients, Released(c)
               PROVE  Left(c) <= 0
    BY DEF clockVars
  <2>1. client[c] = "delayed" /\ client'[c] = "runs"
    BY DEF Released
  <2>2. ~ServeTimeOrFull
    <3> SUFFICES ASSUME ServeTimeOrFull PROVE FALSE
      OBVIOUS
    <3>1. /\ requests # <<>> /\ requests' = Tail(requests) /\ Request # Tick
          /\ client' = [client EXCEPT ![Request.from] = "runs"]
      BY DEF ServeTimeOrFull, Received
    <3>2. \A d \in Clients : d # Request.from => client'[d] = client[d]
      BY <3>1 DEF CInv, ClockTypeOK
    <3>3. client[Request.from] = "asks"
      BY <3>1, <3>2, ReceivesRequest
    <3>4. QED
      BY <3>2, <3>3, <2>1
  <2>3. ServeTick
    <3>1. \A d \in Clients : client' # [client EXCEPT ![d] = "asks"]
      BY <2>1 DEF CInv, ClockTypeOK
    <3>2. client' # [client EXCEPT ![Request.from] = "delayed"]
      BY <2>1 DEF CInv, ClockTypeOK
    <3>3. client' # client
      BY <2>1
    <3>4. QED
      BY <2>2, <3>1, <3>2, <3>3 DEF ClockNext, NotifierAwaitsTick, TimerIRQ,
         NotifierSendsTick, Asks, ServeDelay
  <2>4. PICK i \in DOMAIN delay_q : delay_q[i].client_tid = c
    BY <2>1 DEF CInv, SleeperInv
  <2>5. i \in 1..Len(delay_q) /\ delay_q # <<>> /\ delay_q' = delay_on_tick(delay_q)
    BY <2>3, <2>4, LenProperties DEF ServeTick, CInv, ClockTypeOK
  <2>6. PICK k \in 0..Len(delay_q) : TickRemoves(delay_q', k)
    BY <2>5, OnTick
  <2>7. i <= k /\ Wake(c) = delay_q[1].delta
    BY <2>1, <2>3, <2>4, <2>5, <2>6, TickWakes
  <2>8. delay_q[1].delta <= 1
    BY <2>5, <2>6, <2>7 DEF TickRemoves
  <2>9. due[c] \in Int /\ absorbed[c] \in Nat
    BY DEF CInv, ClockTypeOK
  <2>10. QED
    BY <2>7, <2>8, <2>9 DEF Wake, Left
<1>2. QED
  BY <1>1, ClockInvariant, PTL DEF ClockSpec, NoEarlyWake

-----------------------------------------------------------------------------
(* The accelerator's servers. *)


ApuTypeOK ==
  /\ fn \in [Cores -> ApuClients \cup {NoJob}]
  /\ worker \in [Cores -> [at : {"waits", "runs", "ran", "signals"},
                           job : ApuClients \cup {NoJob}]]
  /\ sgi \in [Cores -> BOOLEAN]
  /\ done_q \in [Cores -> Nat]
  /\ apu_server \in [Cores -> [at : {"receives", "checks", "calls", "awaits"},
                               client : ApuClients \cup {NoJob}]]
  /\ apu_inbox \in [Cores -> Seq(ApuClients)]
  /\ batch \in [ApuClients -> [n : Nat, next : Nat \ {0}]]
  /\ sends \in [ApuClients -> BOOLEAN]
  /\ ran \in [ApuClients -> [Cores -> Nat]]
  /\ batches \in Nat

Serves(k, c) == apu_server[k].client = c
InQueue(k, c) == c \in Range(apu_inbox[k])

\* The slot of core k holds the job its server waits for, and the core works
\* on no other.
SlotInv(k) ==
  /\ apu_server[k].at = "receives" <=> Serves(k, NoJob)
  /\ fn[k] # NoJob => Serves(k, fn[k])
  /\ worker[k].at \in {"runs", "ran"} => fn[k] # NoJob /\ worker[k].job = fn[k]

\* Client c blocks in Send() just while the server of its last request has it,
\* in its inbox or in its hands.
WithInv(k, c) ==
  /\ (Serves(k, c) \/ InQueue(k, c)) <=> (sends[c] /\ batch[c].next = k + 1)
  /\ ~(Serves(k, c) /\ InQueue(k, c))

BatchInv(c) ==
  /\ batch[c].n \in Cores \cup {0} /\ batch[c].next <= batch[c].n + 1
  /\ sends[c] => batch[c].next # 1

\* Core k has run the job of client c's call.
Done(k, c) ==
  \/ k + 1 < batch[c].next
  \/ /\ k + 1 = batch[c].next
     /\ ~sends[c] \/ (Serves(k, c) /\ (fn[k] = NoJob \/ worker[k].at = "ran"))

RanInv(k, c) ==
  /\ ran[c][k] <= 1
  /\ batch[c].n # 0 => ran[c][k] = IF Done(k, c) THEN 1 ELSE 0

AInv ==
  /\ ApuTypeOK
  /\ \A k \in Cores : SlotInv(k) /\ Distinct(apu_inbox[k])
  /\ \A c \in ApuClients : BatchInv(c)
  /\ \A k \in Cores, c \in ApuClients : WithInv(k, c) /\ RanInv(k, c)

-----------------------------------------------------------------------------
LEMMA CoreNumbers ==
  ASSUME NEW k \in Cores
  PROVE  k \in Nat /\ k >= 1 /\ \A n \in Cores : 1..n \subseteq Cores
<1>1. Cardinality(Cores) \in Nat
  BY ApuAssumption, FS_CardinalityType
<1>2. QED
  BY <1>1, ApuAssumption

\* What matters of a client's call for core k: before its turn and after.
LEMMA DoneFacts ==
  ASSUME NEW k \in Cores, NEW l \in Cores, NEW c \in ApuClients, batch[c].next = k + 1
  PROVE  /\ l # k => (Done(l, c) <=> l < k)
         /\ ~sends[c] => Done(k, c)
         /\ fn[k] = NoJob /\ Serves(k, c) => Done(k, c)
<1>1. k \in Nat /\ l \in Nat
  BY CoreNumbers
<1>2. (l + 1 < batch[c].next <=> l < k) /\ (l + 1 = batch[c].next <=> l = k)
  BY <1>1
<1>3. QED
  BY <1>2 DEF Done

LEMMA SameDone ==
  ASSUME NEW k \in Cores, NEW c \in ApuClients, RanInv(k, c),
         UNCHANGED <<batch, ran>>, Done(k, c)' <=> Done(k, c)
  PROVE  RanInv(k, c)'
BY DEF RanInv

\* Nobody is client NoJob.
LEMMA NotNoJob == NoJob \notin ApuClients /\ NoJob = 0
BY ApuAssumption DEF NoJob

LEMMA ApuInit == AInit => AInv
<1> SUFFICES ASSUME AInit PROVE AInv
  OBVIOUS
<1>1. ApuTypeOK
  BY DEF AInit, ApuTypeOK, NoBatch
<1>2. \A k \in Cores : apu_inbox[k] = <<>> /\ Range(apu_inbox[k]) = {} /\ Distinct(apu_inbox[k])
  BY DEF AInit, Range, Distinct
<1>3. \A k \in Cores : SlotInv(k)
  BY DEF AInit, SlotInv, Serves
<1>4. \A c \in ApuClients : BatchInv(c)
  BY DEF AInit, BatchInv, NoBatch
<1>5. ASSUME NEW k \in Cores, NEW c \in ApuClients PROVE WithInv(k, c) /\ RanInv(k, c)
  <2>1. ~Serves(k, c) /\ ~InQueue(k, c) /\ ~sends[c]
    BY <1>2, NotNoJob DEF AInit, Serves, InQueue
  <2>2. ran[c][k] = 0 /\ batch[c].n = 0
    BY DEF AInit, NoBatch
  <2>3. QED
    BY <2>1, <2>2 DEF WithInv, RanInv
<1>6. QED
  BY <1>1, <1>2, <1>3, <1>4, <1>5 DEF AInv

(***************************************************************************)
(* The core                                                                *)
(***************************************************************************)

\* A step that leaves the clients, the inboxes and whom the servers serve as
\* they are, and changes the slot and the core's work in one core only.
LEMMA CoreStep ==
  ASSUME AInv, ApuTypeOK', NEW k \in Cores,
         UNCHANGED <<apu_inbox, batch, sends>>,
         \A l \in Cores : apu_server'[l].client = apu_server[l].client,
         \A l \in Cores : apu_server'[l].at = "receives" <=> apu_server[l].at = "receives",
         \A l \in Cores : l # k => fn'[l] = fn[l] /\ worker'[l] = worker[l],
         \A l \in Cores, c \in ApuClients : l # k => ran'[c][l] = ran[c][l],
         SlotInv(k)',
         \A c \in ApuClients : RanInv(k, c)'
  PROVE  AInv'
<1>1. \A l \in Cores : SlotInv(l)' /\ Distinct(apu_inbox'[l])
  BY DEF AInv, SlotInv, Serves
<1>2. \A c \in ApuClients : BatchInv(c)'
  BY DEF AInv, BatchInv
<1>3. \A l \in Cores, c \in ApuClients : WithInv(l, c)'
  BY DEF AInv, WithInv, Serves, InQueue
<1>4. \A l \in Cores, c \in ApuClients : RanInv(l, c)'
  BY DEF AInv, RanInv, Done, Serves
<1>5. QED
  BY <1>1, <1>2, <1>3, <1>4 DEF AInv

LEMMA WorkerTakesInv ==
  ASSUME AInv, NEW k \in Cores, WorkerTakes(k)
  PROVE  AInv'
<1>1. /\ worker[k].at = "waits" /\ fn[k] # NoJob
      /\ worker' = [worker EXCEPT ![k] = [at |-> "runs", job |-> fn[k]]]
      /\ UNCHANGED <<fn, sgi, ran, done_q, apu_server, apu_inbox, batch, sends, batches>>
  BY DEF WorkerTakes, serverVars, clientVars
<1>2. ApuTypeOK'
  BY <1>1 DEF AInv, ApuTypeOK
<1>3. \A l \in Cores : worker'[l] = IF l = k THEN [at |-> "runs", job |-> fn[k]] ELSE worker[l]
  BY <1>1 DEF AInv, ApuTypeOK
<1>4. SlotInv(k)'
  BY <1>1, <1>3 DEF AInv, SlotInv, Serves
<1>5. \A c \in ApuClients : RanInv(k, c)'
  BY <1>1, <1>3 DEF AInv, RanInv, Done, Serves
<1>6. QED
  BY <1>1, <1>2, <1>3, <1>4, <1>5, CoreStep

\* The core runs the job of the client its server serves, for the first time.
LEMMA WorkerRunsInv ==
  ASSUME AInv, NEW k \in Cores, WorkerRuns(k)
  PROVE  AInv'
<1>0. worker[k].at = "runs"
  BY DEF WorkerRuns
<1> PICK d \in ApuClients : /\ d = worker[k].job /\ d # NoJob
                            /\ fn[k] = d /\ Serves(k, d)
  BY <1>0 DEF AInv, ApuTypeOK, SlotInv
<1>1. /\ worker[k].at = "runs"
      /\ ran' = [ran EXCEPT ![d][k] = @ + 1]
      /\ worker' = [worker EXCEPT ![k].at = "ran"]
      /\ UNCHANGED <<fn, sgi, done_q, apu_server, apu_inbox, batch, sends, batches>>
  BY DEF WorkerRuns, serverVars, clientVars
<1>2. /\ worker' \in [Cores -> [at : {"waits", "runs", "ran", "signals"},
                                job : ApuClients \cup {NoJob}]]
      /\ worker'[k].at = "ran" /\ worker'[k].job = d
      /\ \A l \in Cores : l # k => worker'[l] = worker[l]
  BY <1>1 DEF AInv, ApuTypeOK
<1>3. /\ ran' \in [ApuClients -> [Cores -> Nat]]
      /\ \A c \in ApuClients, l \in Cores :
           ran'[c][l] = IF c = d /\ l = k THEN ran[c][l] + 1 ELSE ran[c][l]
  BY <1>1 DEF AInv, ApuTypeOK
<1>4. ApuTypeOK'
  BY <1>1, <1>2, <1>3 DEF AInv, ApuTypeOK
<1>5. SlotInv(k)'
  BY <1>1, <1>2 DEF AInv, SlotInv, Serves
<1>6. ASSUME NEW c \in ApuClients PROVE RanInv(k, c)'
  <2>1. CASE c = d
    <3>1. sends[d] /\ batch[d].next = k + 1 /\ batch[d].n # 0
      BY CoreNumbers DEF AInv, ApuTypeOK, WithInv, BatchInv
    <3>2. ran[d][k] = 0
      BY <1>1, <3>1, CoreNumbers DEF AInv, RanInv, Done
    <3>3. Done(k, d)'
      BY <1>1, <1>2, <3>1 DEF Done, Serves
    <3>4. QED
      BY <2>1, <1>3, <3>2, <3>3 DEF RanInv
  <2>2. CASE c # d
    BY <2>2, <1>1, <1>3 DEF AInv, RanInv, Done, Serves
  <2>3. QED
    BY <2>1, <2>2
<1>7. QED
  BY <1>1, <1>2, <1>3, <1>4, <1>5, <1>6, CoreStep

LEMMA WorkerCompletesInv ==
  ASSUME AInv, NEW k \in Cores, WorkerCompletes(k)
  PROVE  AInv'
<1>1. CASE Clears(k, "ran", "signals")
  <2>1. /\ worker[k].at = "ran"
        /\ fn' = [fn EXCEPT ![k] = NoJob]
        /\ worker' = [worker EXCEPT ![k] = [at |-> "signals", job |-> NoJob]]
        /\ UNCHANGED <<sgi, ran, done_q, apu_server, apu_inbox, batch, sends, batches>>
    BY <1>1 DEF Clears, serverVars, clientVars
  <2>2. /\ \A l \in Cores : fn'[l] = IF l = k THEN NoJob ELSE fn[l]
        /\ \A l \in Cores : worker'[l] = IF l = k THEN [at |-> "signals", job |-> NoJob]
                                                  ELSE worker[l]
    BY <2>1 DEF AInv, ApuTypeOK
  <2>3. ApuTypeOK'
    BY <2>1 DEF AInv, ApuTypeOK
  <2>4. SlotInv(k)'
    BY <2>1, <2>2 DEF AInv, SlotInv, Serves
  <2>5. \A c \in ApuClients : RanInv(k, c)'
    BY <2>1, <2>2 DEF AInv, RanInv, Done, Serves
  <2>6. QED
    BY <2>1, <2>2, <2>3, <2>4, <2>5, CoreStep
<1>2. CASE Signals(k, "signals", "waits")
  <2>1. /\ worker[k].at = "signals"
        /\ sgi' = [sgi EXCEPT ![k] = TRUE]
        /\ worker' = [worker EXCEPT ![k] = [at |-> "waits", job |-> NoJob]]
        /\ UNCHANGED <<fn, ran, done_q, apu_server, apu_inbox, batch, sends, batches>>
    BY <1>2 DEF Signals, serverVars, clientVars
  <2>2. \A l \in Cores : worker'[l] = IF l = k THEN [at |-> "waits", job |-> NoJob]
                                              ELSE worker[l]
    BY <2>1 DEF AInv, ApuTypeOK
  <2>3. ApuTypeOK'
    BY <2>1 DEF AInv, ApuTypeOK
  <2>4. SlotInv(k)'
    BY <2>1, <2>2 DEF AInv, SlotInv, Serves
  <2>5. \A c \in ApuClients : RanInv(k, c)'
    BY <2>1, <2>2 DEF AInv, RanInv, Done, Serves
  <2>6. QED
    BY <2>1, <2>2, <2>3, <2>4, <2>5, CoreStep
<1>3. QED
  BY <1>1, <1>2 DEF WorkerCompletes

\* A step of a server, or of the interrupt that wakes it, that does not end its
\* wait for the job.
LEMMA ServerMoves ==
  ASSUME AInv, NEW k \in Cores, NEW a \in {"checks", "calls", "awaits"},
         apu_server[k].at # "receives",
         apu_server' = [apu_server EXCEPT ![k].at = a],
         sgi' \in [Cores -> BOOLEAN], done_q' \in [Cores -> Nat],
         UNCHANGED <<fn, worker, ran, apu_inbox, batch, sends, batches>>
  PROVE  AInv'
<1>1. /\ apu_server' \in [Cores -> [at : {"receives", "checks", "calls", "awaits"},
                                    client : ApuClients \cup {NoJob}]]
      /\ \A l \in Cores : /\ apu_server'[l].client = apu_server[l].client
                          /\ apu_server'[l].at = IF l = k THEN a ELSE apu_server[l].at
  <2>1. apu_server \in [Cores -> [at : {"receives", "checks", "calls", "awaits"},
                                  client : ApuClients \cup {NoJob}]]
    BY DEF AInv, ApuTypeOK
  <2>2. QED
    BY <2>1
<1>2. ApuTypeOK'
  BY <1>1 DEF AInv, ApuTypeOK
<1>3. SlotInv(k)'
  BY <1>1 DEF AInv, SlotInv, Serves
<1>4. \A c \in ApuClients : RanInv(k, c)'
  BY <1>1 DEF AInv, RanInv, Done, Serves
<1>5. QED
  BY <1>1, <1>2, <1>3, <1>4, CoreStep

LEMMA ApuDoneIRQInv ==
  ASSUME AInv, NEW k \in Cores, ApuDoneIRQ(k)
  PROVE  AInv'
<1>1. sgi' \in [Cores -> BOOLEAN] /\ UNCHANGED <<fn, worker, ran, apu_inbox, batch, sends, batches>>
  BY DEF ApuDoneIRQ, clientVars, AInv, ApuTypeOK
<1>2. CASE apu_server[k].at = "awaits"
  BY <1>1, <1>2, ServerMoves DEF ApuDoneIRQ, AInv, ApuTypeOK
<1>3. CASE apu_server[k].at # "awaits"
  <2>1. done_q' \in [Cores -> Nat] /\ UNCHANGED apu_server
    <3>1. done_q \in [Cores -> Nat]
      BY DEF AInv, ApuTypeOK
    <3>2. QED
      BY <3>1, <1>3 DEF ApuDoneIRQ
  <2>2. ApuTypeOK'
    BY <1>1, <2>1 DEF AInv, ApuTypeOK
  <2>3. SlotInv(k)' /\ \A c \in ApuClients : RanInv(k, c)'
    BY <1>1, <2>1 DEF AInv, SlotInv, RanInv, Done, Serves
  <2>4. QED
    BY <1>1, <2>1, <2>2, <2>3, CoreStep
<1>4. QED
  BY <1>2, <1>3

(***************************************************************************)
(* The server                                                              *)
(***************************************************************************)

\* AwaitEvent() takes an event or blocks: it never leaves the loop.
LEMMA ServerAwaitsInv ==
  ASSUME AInv, NEW k \in Cores, ServerAwaits(k)
  PROVE  AInv'
<1>1. /\ apu_server[k].at = "calls"
      /\ UNCHANGED <<fn, worker, sgi, ran, apu_inbox, batch, sends, batches>>
  BY DEF ServerAwaits, coreVars, clientVars
<1>2. sgi' \in [Cores -> BOOLEAN] /\ done_q' \in [Cores -> Nat]
  <2>1. sgi \in [Cores -> BOOLEAN] /\ done_q \in [Cores -> Nat] /\ done_q[k] \in Nat
    BY DEF AInv, ApuTypeOK
  <2>2. QED
    BY <2>1, <1>1 DEF ServerAwaits
<1>3. \E a \in {"checks", "awaits"} : apu_server' = [apu_server EXCEPT ![k].at = a]
  BY DEF ServerAwaits
<1>4. QED
  BY <1>1, <1>2, <1>3, ServerMoves

\* The server replies: its slot is empty, so the client's job was done.
LEMMA ServerRepliesInv ==
  ASSUME AInv, NEW k \in Cores, apu_server[k].at # "receives", fn[k] = NoJob,
         ServerReplies(k), UNCHANGED <<coreVars, done_q, apu_inbox, batch, batches>>
  PROVE  AInv'
<1> PICK c \in ApuClients : Serves(k, c)
  BY DEF AInv, ApuTypeOK, SlotInv, Serves
<1>1. /\ apu_server' = [apu_server EXCEPT ![k] = [at |-> "receives", client |-> NoJob]]
      /\ sends' = [sends EXCEPT ![c] = FALSE]
      /\ UNCHANGED <<fn, worker, sgi, ran, done_q, apu_inbox, batch, batches>>
  BY DEF ServerReplies, coreVars, Serves
<1>2. /\ \A l \in Cores : apu_server'[l] = IF l = k THEN [at |-> "receives", client |-> NoJob]
                                                    ELSE apu_server[l]
      /\ ~sends'[c] /\ \A d \in ApuClients : d # c => (sends'[d] <=> sends[d])
  BY <1>1 DEF AInv, ApuTypeOK
<1>3. ApuTypeOK'
  BY <1>1 DEF AInv, ApuTypeOK
<1>4. \A l \in Cores : SlotInv(l)' /\ Distinct(apu_inbox'[l])
  BY <1>1, <1>2 DEF AInv, SlotInv, Serves
<1>5. \A d \in ApuClients : BatchInv(d)'
  BY <1>1, <1>2 DEF AInv, BatchInv
<1>6. sends[c] /\ batch[c].next = k + 1 /\ ~InQueue(k, c)
  BY DEF AInv, WithInv
<1>7. \A l \in Cores : l # k => ~Serves(l, c) /\ ~InQueue(l, c)
  BY <1>6, CoreNumbers DEF AInv, WithInv
<1>8. \A l \in Cores, d \in ApuClients :
        Serves(l, d)' <=> Serves(l, d) /\ ~(l = k /\ d = c)
  BY <1>2, NotNoJob DEF Serves
<1>9. ASSUME NEW l \in Cores, NEW d \in ApuClients PROVE WithInv(l, d)' /\ RanInv(l, d)'
  <2>1. WithInv(l, d)'
    BY <1>1, <1>2, <1>6, <1>7, <1>8 DEF AInv, WithInv, InQueue
  <2>2. CASE d = c
    <3>1. batch'[c].next = k + 1 /\ ~sends'[c]
      BY <1>1, <1>2, <1>6
    <3>2. (l # k => (Done(l, c)' <=> l < k)) /\ Done(k, c)'
      <4>1. k \in Nat /\ l \in Nat
        BY CoreNumbers
      <4>2. /\ l + 1 < batch'[c].next <=> l < k
            /\ l + 1 = batch'[c].next <=> l = k
        BY <3>1, <4>1
      <4>3. QED
        BY <3>1, <4>2 DEF Done
    <3>3. (l # k => (Done(l, c) <=> l < k)) /\ Done(k, c)
      BY <1>6, DoneFacts
    <3>4. RanInv(l, c)'
      BY <3>2, <3>3, <1>1, SameDone DEF AInv
    <3>5. QED
      BY <3>4, <2>1, <2>2
  <2>3. CASE d # c
    <3>1. Done(l, d)' <=> Done(l, d)
      BY <2>3, <1>1, <1>2, <1>8 DEF Done
    <3>2. RanInv(l, d)'
      BY <3>1, <1>1, SameDone DEF AInv
    <3>3. QED
      BY <3>2, <2>1
  <2>4. QED
    BY <2>1, <2>2, <2>3
<1>10. QED
  BY <1>3, <1>4, <1>5, <1>9 DEF AInv

LEMMA ServerChecksInv ==
  ASSUME AInv, NEW k \in Cores, ServerChecks(k)
  PROVE  AInv'
<1>1. /\ apu_server[k].at = "checks"
      /\ UNCHANGED <<coreVars, done_q, apu_inbox, batch, batches>>
  BY DEF ServerChecks
<1>2. CASE fn[k] = NoJob
  BY <1>1, <1>2, ServerRepliesInv DEF ServerChecks
<1>3. CASE fn[k] # NoJob
  BY <1>1, <1>3, ServerMoves DEF ServerChecks, coreVars, AInv, ApuTypeOK
<1>4. QED
  BY <1>2, <1>3

\* The server takes the first client of its inbox; its slot is empty.
LEMMA ServerDispatchesInv ==
  ASSUME AInv, NEW k \in Cores, ServerDispatches(k)
  PROVE  AInv'
<1> DEFINE q == apu_inbox[k]
<1>1. apu_inbox \in [Cores -> Seq(ApuClients)] /\ q \in Seq(ApuClients) /\ q # <<>>
      /\ Distinct(q)
  BY DEF ServerDispatches, AInv, ApuTypeOK
<1>2. /\ Head(q) \in Range(q) /\ Range(q) \subseteq ApuClients /\ Tail(q) \in Seq(ApuClients)
      /\ Range(Tail(q)) = Range(q) \ {Head(q)} /\ Distinct(Tail(q))
  BY <1>1, LeavesQueue, RangeTyped
<1> PICK c \in ApuClients : c = Head(q)
  BY <1>2
<1>3. /\ apu_server[k].at = "receives" /\ InQueue(k, c)
      /\ apu_inbox' = [apu_inbox EXCEPT ![k] = Tail(q)]
      /\ fn' = [fn EXCEPT ![k] = c]
      /\ apu_server' = [apu_server EXCEPT ![k] = [at |-> "checks", client |-> c]]
      /\ UNCHANGED <<worker, sgi, ran, done_q, batch, sends, batches>>
  BY <1>2 DEF ServerDispatches, clientVars, InQueue
<1>4. /\ \A l \in Cores : fn'[l] = IF l = k THEN c ELSE fn[l]
      /\ \A l \in Cores : apu_server'[l] = IF l = k THEN [at |-> "checks", client |-> c]
                                                    ELSE apu_server[l]
      /\ \A l \in Cores : apu_inbox'[l] = IF l = k THEN Tail(q) ELSE apu_inbox[l]
  BY <1>3 DEF AInv, ApuTypeOK
<1>5. ApuTypeOK'
  BY <1>2, <1>3 DEF AInv, ApuTypeOK
<1>6. /\ Serves(k, NoJob) /\ fn[k] = NoJob
      /\ worker[k].at # "runs" /\ worker[k].at # "ran" /\ c # NoJob
  BY <1>3, NotNoJob DEF AInv, SlotInv, Serves
<1>7. \A l \in Cores : SlotInv(l)'
  BY <1>3, <1>4, <1>6, NotNoJob DEF AInv, SlotInv, Serves
<1>8. \A l \in Cores, d \in ApuClients :
        /\ Serves(l, d)' <=> Serves(l, d) \/ (l = k /\ d = c)
        /\ InQueue(l, d)' <=> InQueue(l, d) /\ ~(l = k /\ d = c)
  BY <1>2, <1>4, <1>6, NotNoJob DEF Serves, InQueue
<1>9. sends[c] /\ batch[c].next = k + 1
  BY <1>3 DEF AInv, WithInv
<1>10. \A d \in ApuClients : BatchInv(d)'
  BY <1>3 DEF AInv, BatchInv
<1>11. ASSUME NEW l \in Cores, NEW d \in ApuClients PROVE WithInv(l, d)' /\ RanInv(l, d)'
  <2>1. WithInv(l, d)'
    BY <1>3, <1>8 DEF AInv, WithInv
  <2> k \in Nat /\ l \in Nat
    BY CoreNumbers
  <2>2. Done(l, d)' <=> Done(l, d)
    <3>1. CASE l = k /\ d = c
      BY <3>1, <1>3, <1>4, <1>6, <1>9, NotNoJob DEF Done, Serves
    <3>2. CASE l = k /\ d # c
      <4>1. ~Serves(k, d) /\ ~Serves(k, d)'
        BY <3>2, <1>6, <1>8, NotNoJob DEF Serves
      <4>2. QED
        BY <3>2, <4>1, <1>3 DEF Done
    <3>3. CASE l # k
      BY <3>3, <1>3, <1>4 DEF Done, Serves
    <3>4. QED
      BY <3>1, <3>2, <3>3
  <2>3. QED
    BY <2>1, <2>2, <1>3 DEF AInv, RanInv
<1>12. \A l \in Cores : Distinct(apu_inbox'[l])
  BY <1>2, <1>4 DEF AInv
<1>13. QED
  BY <1>5, <1>7, <1>10, <1>11, <1>12 DEF AInv

(***************************************************************************)
(* The client                                                              *)
(***************************************************************************)

\* A call starts, or returns: its client is with no server, before and after.
LEMMA BatchStep ==
  ASSUME AInv, ApuTypeOK', NEW c \in ApuClients,
         ~sends[c], batch'[c].next = 1, batch'[c].n \in Cores \cup {0},
         \A d \in ApuClients : d # c => batch'[d] = batch[d] /\ ran'[d] = ran[d],
         \A k \in Cores : ran'[c][k] <= 1 /\ (batch'[c].n # 0 => ran'[c][k] = 0),
         UNCHANGED <<fn, worker, apu_server, apu_inbox, sends>>
  PROVE  AInv'
<1>1. \A l \in Cores : SlotInv(l)' /\ Distinct(apu_inbox'[l])
  BY DEF AInv, SlotInv, Serves
<1>2. ASSUME NEW d \in ApuClients PROVE BatchInv(d)'
  <2>1. CASE d = c
    <3>1. batch'[c].n \in Nat /\ 1 <= batch'[c].n + 1
      BY CoreNumbers
    <3>2. QED
      BY <2>1, <3>1 DEF BatchInv
  <2>2. CASE d # c
    BY <2>2 DEF AInv, BatchInv
  <2>3. QED
    BY <2>1, <2>2
<1>3. ASSUME NEW k \in Cores, NEW d \in ApuClients PROVE WithInv(k, d)' /\ RanInv(k, d)'
  <2>1. Serves(k, d)' = Serves(k, d) /\ InQueue(k, d)' = InQueue(k, d)
    BY DEF Serves, InQueue
  <2>2. CASE d = c
    <3>1. WithInv(k, c)'
      BY <2>1, <2>2 DEF AInv, WithInv
    <3>2. ~Done(k, c)'
      BY CoreNumbers DEF Done
    <3>3. QED
      BY <2>2, <3>1, <3>2 DEF RanInv
  <2>3. CASE d # c
    BY <2>3, <2>1 DEF AInv, WithInv, RanInv, Done
  <2>4. QED
    BY <2>2, <2>3
<1>4. QED
  BY <1>1, <1>2, <1>3 DEF AInv

LEMMA BatchStartsInv ==
  ASSUME AInv, NEW c \in ApuClients, NEW n \in Cores, BatchStarts(c, n)
  PROVE  AInv'
<1>1. /\ batch[c] = NoBatch
      /\ batch' = [batch EXCEPT ![c] = [n |-> n, next |-> 1]]
      /\ ran' = [ran EXCEPT ![c] = [k \in Cores |-> 0]]
      /\ batches' = batches + 1
      /\ UNCHANGED <<fn, worker, sgi, done_q, apu_server, apu_inbox, sends>>
  BY DEF BatchStarts, serverVars
<1>2. ~sends[c]
  BY <1>1 DEF NoBatch, AInv, ApuTypeOK, BatchInv
<1>3. ApuTypeOK'
  BY <1>1, CoreNumbers DEF AInv, ApuTypeOK
<1>4. \A d \in ApuClients :
        /\ batch'[d] = IF d = c THEN [n |-> n, next |-> 1] ELSE batch[d]
        /\ ran'[d] = IF d = c THEN [k \in Cores |-> 0] ELSE ran[d]
  BY <1>1 DEF AInv, ApuTypeOK
<1>5. QED
  BY <1>1, <1>2, <1>3, <1>4, BatchStep

LEMMA BatchReturnsInv ==
  ASSUME AInv, NEW c \in ApuClients, BatchReturns(c)
  PROVE  AInv'
<1>1. /\ ~sends[c] /\ batch' = [batch EXCEPT ![c] = [n |-> 0, next |-> 1]]
      /\ UNCHANGED <<fn, worker, sgi, done_q, apu_server, apu_inbox, ran, sends, batches>>
  BY DEF BatchReturns, NoBatch, coreVars, serverVars
<1>2. ApuTypeOK'
  BY <1>1 DEF AInv, ApuTypeOK
<1>3. \A d \in ApuClients :
        batch'[d] = IF d = c THEN [n |-> 0, next |-> 1] ELSE batch[d]
  BY <1>1 DEF AInv, ApuTypeOK
<1>4. \A k \in Cores : ran'[c][k] <= 1
  BY <1>1 DEF AInv, RanInv
<1>5. QED
  BY <1>1, <1>2, <1>3, <1>4, BatchStep

\* A client sends the next job of its call: it is with no server yet.
LEMMA BatchSendsInv ==
  ASSUME AInv, NEW c \in ApuClients, BatchSends(c)
  PROVE  AInv'
<1> PICK k \in Nat : k = batch[c].next /\ k # 0
  BY DEF AInv, ApuTypeOK
<1>1. /\ ~sends[c] /\ k <= batch[c].n
      /\ sends' = [sends EXCEPT ![c] = TRUE]
      /\ apu_inbox' = [apu_inbox EXCEPT ![k] = Append(@, c)]
      /\ batch' = [batch EXCEPT ![c].next = k + 1]
      /\ UNCHANGED <<fn, worker, sgi, ran, done_q, apu_server, batches>>
  BY DEF BatchSends, coreVars
<1>2. k \in Cores /\ batch[c].n \in Cores
  <2>1. batch[c].n \in Cores
    BY <1>1 DEF AInv, BatchInv
  <2>2. k \in 1..batch[c].n
    BY <1>1, <2>1, CoreNumbers
  <2>3. QED
    BY <2>1, <2>2, CoreNumbers
<1>3. /\ ~InQueue(k, c) /\ apu_inbox[k] \in Seq(ApuClients) /\ Distinct(apu_inbox[k])
      /\ \A l \in Cores : ~Serves(l, c) /\ ~InQueue(l, c)
  BY <1>1, <1>2 DEF AInv, ApuTypeOK, WithInv
<1>4. /\ apu_inbox'[k] = Append(apu_inbox[k], c)
      /\ \A l \in Cores : l # k => apu_inbox'[l] = apu_inbox[l]
      /\ sends'[c] /\ \A d \in ApuClients : d # c => (sends'[d] <=> sends[d])
      /\ batch' \in [ApuClients -> [n : Nat, next : Nat \ {0}]]
      /\ \A d \in ApuClients : /\ batch'[d].n = batch[d].n
                               /\ batch'[d].next = IF d = c THEN k + 1 ELSE batch[d].next
  <2>1. /\ apu_inbox'[k] = Append(apu_inbox[k], c)
        /\ \A l \in Cores : l # k => apu_inbox'[l] = apu_inbox[l]
    BY <1>1, <1>2 DEF AInv, ApuTypeOK
  <2>2. sends'[c] /\ \A d \in ApuClients : d # c => (sends'[d] <=> sends[d])
    BY <1>1 DEF AInv, ApuTypeOK
  <2>3. /\ batch \in [ApuClients -> [n : Nat, next : Nat \ {0}]]
        /\ batch' = [batch EXCEPT ![c].next = k + 1] /\ k + 1 \in Nat \ {0}
    BY <1>1 DEF AInv, ApuTypeOK
  <2>4. QED
    BY <2>1, <2>2, <2>3
<1>5. /\ apu_inbox'[k] \in Seq(ApuClients) /\ Distinct(apu_inbox'[k])
      /\ Range(apu_inbox'[k]) = Range(apu_inbox[k]) \cup {c}
  BY <1>3, <1>4, AppendsTo DEF InQueue
<1>6. ApuTypeOK'
  BY <1>1, <1>4, <1>5 DEF AInv, ApuTypeOK
<1>7. \A l \in Cores : SlotInv(l)' /\ Distinct(apu_inbox'[l])
  BY <1>1, <1>4, <1>5 DEF AInv, SlotInv, Serves
<1>8. \A d \in ApuClients : BatchInv(d)'
  BY <1>1, <1>2, <1>4, CoreNumbers DEF AInv, BatchInv
<1>9. \A l \in Cores, d \in ApuClients :
        /\ Serves(l, d)' <=> Serves(l, d)
        /\ InQueue(l, d)' <=> InQueue(l, d) \/ (l = k /\ d = c)
  BY <1>1, <1>4, <1>5 DEF Serves, InQueue
<1>10. ASSUME NEW l \in Cores, NEW d \in ApuClients PROVE WithInv(l, d)' /\ RanInv(l, d)'
  <2> k \in Nat /\ l \in Nat
    BY CoreNumbers
  <2>1. CASE d = c
    <3>1. WithInv(l, c)'
      BY <1>3, <1>4, <1>9 DEF WithInv
    <3>2. Done(l, c)' = Done(l, c)
      BY <1>1, <1>3, <1>4, <1>9 DEF Done
    <3>3. QED
      BY <2>1, <3>1, <3>2, <1>1, <1>4 DEF AInv, RanInv
  <2>2. CASE d # c
    BY <2>2, <1>1, <1>4, <1>9 DEF AInv, WithInv, RanInv, Done
  <2>3. QED
    BY <2>1, <2>2
<1>11. QED
  BY <1>6, <1>7, <1>8, <1>10 DEF AInv

-----------------------------------------------------------------------------
LEMMA ApuUnchanged ==
  ASSUME AInv, UNCHANGED apuVars
  PROVE  AInv'
<1>1. UNCHANGED <<fn, worker, sgi, done_q, apu_server, apu_inbox, batch, sends, ran, batches>>
  BY DEF apuVars
<1>2. ApuTypeOK'
  BY <1>1 DEF AInv, ApuTypeOK
<1>3. QED
  BY <1>1, <1>2 DEF AInv, SlotInv, BatchInv, WithInv, RanInv, Done, Serves, InQueue

LEMMA ApuStep == AInv /\ [ANext]_apuVars => AInv'
<1> SUFFICES ASSUME AInv, [ANext]_apuVars PROVE AInv'
  OBVIOUS
<1>1. ASSUME NEW k \in Cores,
             WorkerTakes(k) \/ WorkerRuns(k) \/ WorkerCompletes(k) \/ ApuDoneIRQ(k)
             \/ ServerDispatches(k) \/ ServerChecks(k) \/ ServerAwaits(k)
      PROVE  AInv'
  BY <1>1, WorkerTakesInv, WorkerRunsInv, WorkerCompletesInv, ApuDoneIRQInv,
     ServerDispatchesInv, ServerChecksInv, ServerAwaitsInv
<1>2. ASSUME NEW c \in ApuClients,
             (\E n \in Cores : BatchStarts(c, n)) \/ BatchSends(c) \/ BatchReturns(c)
      PROVE  AInv'
  BY <1>2, BatchStartsInv, BatchSendsInv, BatchReturnsInv
<1>3. CASE UNCHANGED apuVars
  BY <1>3, ApuUnchanged
<1>4. QED
  BY <1>1, <1>2, <1>3 DEF ANext

\* The invariant of a batch on its way through the servers holds in every state.
THEOREM ApuInvariant == ASpec => []AInv
BY ApuInit, ApuStep, PTL DEF ASpec

\* A core runs a client's job at most once, and exactly once when the client is
\* answered (APUBatch(), apu_core_server_loop(), secondary_worker_c()).
THEOREM JobsRunOnce == ASpec => []RanOnceWhenAnswered
<1>1. AInv => RanOnceWhenAnswered
  <2> SUFFICES ASSUME AInv PROVE RanOnceWhenAnswered
    OBVIOUS
  <2>1. \A c \in ApuClients, k \in Cores : ran[c][k] <= 1
    BY DEF AInv, RanInv
  <2>2. ASSUME NEW c \in ApuClients, NEW k \in 1..(batch[c].next - 1),
               ~sends[c] \/ k < batch[c].next - 1
        PROVE  ran[c][k] = 1
    <3>1. batch[c].next \in Nat /\ batch[c].n \in Nat /\ k \in Nat
      BY DEF AInv, ApuTypeOK
    <3>2. batch[c].n \in Cores /\ k \in 1..batch[c].n
      BY <3>1 DEF AInv, BatchInv
    <3>3. k \in Cores
      BY <3>2, CoreNumbers
    <3>4. Done(k, c)
      BY <3>1, <2>2 DEF Done
    <3>5. QED
      BY <3>1, <3>2, <3>3, <3>4 DEF AInv, RanInv
  <2>3. QED
    BY <2>1, <2>2 DEF RanOnceWhenAnswered
<1>2. QED
  BY <1>1, ApuInvariant, PTL

\* accel_dispatch() finds the slot empty and the core done with the job before
\* it: no job is overwritten, and no core clears another's.
THEOREM SlotsAreFreeWhenFilled == ASpec => SlotIsFreeWhenFilled
<1>1. AInv /\ [ANext]_apuVars =>
        [\A k \in Cores : (fn'[k] # fn[k] /\ fn'[k] # NoJob) =>
           fn[k] = NoJob /\ worker[k].at \in {"waits", "signals"}]_apuVars
  <2> SUFFICES ASSUME AInv, ANext, NEW k \in Cores, fn'[k] # fn[k], fn'[k] # NoJob
               PROVE  fn[k] = NoJob /\ worker[k].at \in {"waits", "signals"}
    BY DEF apuVars
  <2>1. ServerDispatches(k)
    <3>1. ASSUME NEW l \in Cores, Clears(l, "ran", "signals") PROVE FALSE
      BY <3>1 DEF Clears, AInv, ApuTypeOK
    <3>2. ASSUME NEW l \in Cores, ServerDispatches(l) PROVE l = k
      BY <3>2 DEF ServerDispatches, AInv, ApuTypeOK
    <3>3. QED
      BY <3>1, <3>2 DEF ANext, WorkerTakes, WorkerRuns, WorkerCompletes, Signals, ApuDoneIRQ,
         ServerChecks, ServerAwaits, BatchStarts, BatchSends, BatchReturns, coreVars
  <2>2. apu_server[k].at = "receives" /\ SlotInv(k)
    BY <2>1 DEF ServerDispatches, AInv
  <2>3. fn[k] = NoJob /\ worker[k].at \notin {"runs", "ran"}
    BY <2>2 DEF SlotInv, Serves
  <2>4. worker[k].at \in {"waits", "runs", "ran", "signals"}
    BY DEF AInv, ApuTypeOK
  <2>5. QED
    BY <2>3, <2>4
<1>2. QED
  BY <1>1, ApuInvariant, PTL DEF ASpec, SlotIsFreeWhenFilled
=============================================================================
