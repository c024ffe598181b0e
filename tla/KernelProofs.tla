---------------------------- MODULE KernelProofs ----------------------------
(***************************************************************************)
(* The kernel's invariants, proved for every table size, ring size, set of *)
(* priorities, boot sequence and set of events.                            *)
(*                                                                         *)
(* Every action ends in Schedule(h), where h is the heap the handler left. *)
(* The argument is therefore in two halves: each handler leaves a heap     *)
(* that holds every runnable task exactly once, the trapping task          *)
(* included (HandlerDone), and Schedule then takes one best entry out of   *)
(* such a heap (ScheduleStep).                                             *)
(*                                                                         *)
(* At the end, Kernel implements Lifecycle.  The invariant makes the       *)
(* abstract state of a slot a function of live, PID and BLOCKED_LIST, so   *)
(* an action is known in the abstract by which tasks it blocks and which   *)
(* it wakes: ContinueStep and SuspendStep turn that knowledge into a step. *)
(*                                                                         *)
(* On top of that, Send/Receive/Reply is a rendezvous, for every number of *)
(* tasks and servers.  MailInv says for each task where the message it     *)
(* waits on is; a message moves from its sender to a mailbox, from there   *)
(* into the hands of the receiver, and is gone with the reply.             *)
(* MessagesConserved counts those places, and bounds the rings by counting *)
(* the tasks in one mailbox.                                               *)
(***************************************************************************)
EXTENDS Rendezvous, KernelRefinement, QueueLemmas

\* The idle task is never blocked and never exits.
IdleRunnable == Idle \in live /\ ~Blocked(Idle)

\* What Schedule() leaves, as its heap hands out a task of the best priority
\* there is: a dispatch in the abstract scheduler asks for it.
TopPriorityRuns ==
  PID # NoTask => \A t \in InHeap(heap) : priority[PID] <= priority[t]

IInv ==
  /\ TypeOK
  /\ SlotPartition
  /\ BlockedForOneReason
  /\ NoSleepOnQueuedEvent
  /\ TopPriorityRuns
  /\ KernelNeverParks
  /\ IdleRunnable

\* What a handler leaves for Schedule(h): h holds exactly the runnable tasks.
HandlerDone(h) ==
  /\ h \in [Tids -> Nat]
  /\ live' \subseteq Tids
  /\ priority' \in [Tids -> 0..255]
  /\ BLOCKED_LIST' \in [Tids -> [pid : 0..NUMPROCS, priority : 0..255]]
  /\ \A t \in Tids :
       h[t] = IF t \in live' /\ BLOCKED_LIST'[t].pid = 0 THEN 1 ELSE 0
  /\ \A t \in Tids :
       BLOCKED_LIST'[t].pid # 0 => BLOCKED_LIST'[t].pid = t /\ t \in live'
  /\ IdleRunnable'

\* The idle task is a task; -1 is not.
LEMMA IdleIsTid == Idle \in Tids /\ NoTask \notin Tids
BY KernelAssumption, SMT DEF Tids, NoTask

\* Schedule on such a heap runs one of its best tasks and keeps the others.
LEMMA ScheduleStep ==
  ASSUME NEW h, HandlerDone(h), Schedule(h)
  PROVE  /\ PID' \in Tids
         /\ heap' \in [Tids -> Nat]
         /\ SlotPartition'
         /\ TopPriorityRuns'
         /\ KernelNeverParks'
<1>1. Idle \in InHeap(h)
  BY IdleIsTid, SMT DEF HandlerDone, InHeap, IdleRunnable, Blocked
<1>2. PICK t \in Top(h, priority') : PID' = t /\ heap' = [h EXCEPT ![t] = @ - 1]
  BY <1>1 DEF Schedule
<1>3. t \in Tids /\ h[t] = 1 /\ t \in live' /\ BLOCKED_LIST'[t].pid = 0
  BY <1>2, SMT DEF Top, InHeap, HandlerDone
<1>4. \A u \in Tids : heap'[u] = IF u \in live' /\ u # PID' /\ ~Blocked(u)' THEN 1 ELSE 0
  BY <1>2, <1>3, SMT DEF HandlerDone, Blocked
<1>5. heap' \in [Tids -> Nat]
  BY <1>2, <1>3, SMT DEF HandlerDone
<1>6. SlotPartition'
  BY <1>2, <1>3, <1>4, SMT DEF SlotPartition, Blocked, HandlerDone
<1>7. TopPriorityRuns'
  <2>1. \A u \in InHeap(heap)' : u \in InHeap(h)
    BY <1>2, <1>3, <1>4, SMT DEF InHeap, HandlerDone, Blocked
  <2>2. QED
    BY <2>1, <1>2, SMT DEF TopPriorityRuns, Top
<1>8. PID' \in Tids /\ KernelNeverParks'
  BY <1>2, <1>3, IdleIsTid DEF KernelNeverParks
<1>9. QED
  BY <1>5, <1>6, <1>7, <1>8

\* The types of what Schedule leaves alone.
ListsTyped ==
  /\ mailbox \in [Tids -> Seq(Tids)]
  /\ waiting_reply \in [Tids -> 0..1]
  /\ waiting_send \in [Tids -> 0..1]
  /\ pid_ls \in [Events -> Seq(Tids)]
  /\ eventq_len \in [Events -> Nat]

\* What is left to show of a handler that ends in Schedule(h).
LEMMA StepPreservesIInv ==
  ASSUME NEW h, HandlerDone(h), Schedule(h),
         ListsTyped', BlockedForOneReason', NoSleepOnQueuedEvent'
  PROVE  IInv'
<1>1. TypeOK'
  BY ScheduleStep DEF TypeOK, ListsTyped, HandlerDone
<1>2. QED
  BY <1>1, ScheduleStep DEF IInv, HandlerDone

\* A handler that only puts the caller back.
LEMMA RequeueDone ==
  ASSUME IInv, UNCHANGED <<taskVars, BLOCKED_LIST>>
  PROVE  HandlerDone(scrSchedule(heap, PID))
<1>1. PID \in Tids /\ heap[PID] = 0 /\ PID \in live /\ ~Blocked(PID)
  BY SMT DEF IInv, TypeOK, SlotPartition, KernelNeverParks
<1>2. QED
  BY <1>1, SMT DEF IInv, TypeOK, SlotPartition, IdleRunnable, HandlerDone,
                   scrSchedule, taskVars, Blocked

\* A handler that puts the caller back and touches no wait list.
LEMMA RequeueStep ==
  ASSUME IInv, UNCHANGED <<taskVars, BLOCKED_LIST, ipcVars, pid_ls>>,
         eventq_len' \in [Events -> Nat], NoSleepOnQueuedEvent',
         Schedule(scrSchedule(heap, PID))
  PROVE  IInv'
<1>1. ListsTyped'
  BY DEF IInv, TypeOK, ListsTyped, ipcVars
<1>2. BlockedForOneReason'
  BY DEF IInv, BlockedForOneReason, ipcVars, Blocked, Awaits, Range
<1>3. QED
  BY <1>1, <1>2, RequeueDone, StepPreservesIInv

\* The same, when the handler changes nothing else.
LEMMA PlainRequeueStep ==
  ASSUME IInv, UNCHANGED <<taskVars, BLOCKED_LIST, ipcVars, eventVars>>,
         Schedule(scrSchedule(heap, PID))
  PROVE  IInv'
<1>1. NoSleepOnQueuedEvent' /\ eventq_len' \in [Events -> Nat]
  BY DEF IInv, TypeOK, NoSleepOnQueuedEvent, eventVars
<1>2. QED
  BY <1>1, RequeueStep DEF eventVars

\* The task that traps is a live task other than idle, and not blocked.
LEMMA TrapFacts ==
  ASSUME IInv, Traps
  PROVE  /\ PID \in Tids /\ PID # Idle /\ PID \in live
         /\ heap[PID] = 0 /\ ~Blocked(PID)
         /\ waiting_reply[PID] = 0 /\ waiting_send[PID] = 0 /\ ~Awaits(PID)
BY SMT DEF IInv, Traps, TypeOK, SlotPartition, BlockedForOneReason

\* What the partition says of a task that has no slot, or is blocked.
LEMMA SlotFacts ==
  ASSUME IInv, NEW t \in Tids
  PROVE  /\ t \notin live => t # PID /\ heap[t] = 0 /\ ~Blocked(t)
         /\ t = PID => t \in live /\ heap[t] = 0 /\ ~Blocked(t)
         /\ Blocked(t) => t \in live /\ heap[t] = 0 /\ BLOCKED_LIST[t].pid = t
         /\ heap[t] = IF t \in live /\ t # PID /\ ~Blocked(t) THEN 1 ELSE 0
BY DEF IInv, SlotPartition

\* Exit() preserves IInv.
LEMMA KillInv ==
  ASSUME IInv, Kill
  PROVE  IInv'
<1>1. Traps /\ live' = live \ {PID} /\ UNCHANGED <<priority, BLOCKED_LIST>>
  BY DEF Kill
<1>2. HandlerDone(heap)
  <2>1. \A t \in Tids : heap[t] = IF t \in live' /\ ~Blocked(t) THEN 1 ELSE 0
    BY <1>1, SlotFacts
  <2>2. \A t \in Tids : Blocked(t) => BLOCKED_LIST[t].pid = t /\ t \in live'
    BY <1>1, SlotFacts
  <2>3. QED
    BY <1>1, <2>1, <2>2, TrapFacts DEF IInv, TypeOK, IdleRunnable, HandlerDone, Blocked
<1>3. ListsTyped'
  BY DEF Kill, IInv, TypeOK, ListsTyped, ipcVars, eventVars
<1>4. BlockedForOneReason' /\ NoSleepOnQueuedEvent'
  <2>1. UNCHANGED <<BLOCKED_LIST, waiting_reply, waiting_send, pid_ls, eventq_len>>
    BY <1>1 DEF Kill, ipcVars, eventVars
  <2>2. BlockedForOneReason'
    BY <2>1 DEF IInv, BlockedForOneReason, Blocked, Awaits, Range
  <2>3. QED
    BY <2>1, <2>2 DEF IInv, NoSleepOnQueuedEvent
<1>5. QED
  BY <1>2, <1>3, <1>4, StepPreservesIInv DEF Kill

\* Create() preserves IInv.
LEMMA KernelCreateInv ==
  ASSUME IInv, NEW t \in Tids, t \notin live, NEW prio \in 0..255,
         KernelCreate(t, prio)
  PROVE  IInv'
<1> DEFINE h == scrSchedule(scrSchedule(heap, PID), t)
<1>1. /\ Traps /\ live' = live \cup {t}
      /\ priority' = [priority EXCEPT ![t] = prio]
      /\ waiting_reply' = [waiting_reply EXCEPT ![t] = 0]
      /\ waiting_send' = [waiting_send EXCEPT ![t] = 0]
      /\ UNCHANGED <<BLOCKED_LIST, pid_ls, eventq_len>>
  BY DEF KernelCreate, eventVars
<1>2. /\ t # PID /\ heap[t] = 0 /\ ~Blocked(t)
      /\ PID \in Tids /\ heap[PID] = 0 /\ PID \in live /\ ~Blocked(PID)
  BY <1>1, TrapFacts, SlotFacts
<1>3. HandlerDone(h)
  <2>1. h \in [Tids -> Nat] /\ live' \subseteq Tids /\ priority' \in [Tids -> 0..255]
    <3>1. h \in [Tids -> Nat]
      <4>1. heap \in [Tids -> Nat] /\ heap[PID] \in Nat /\ PID \in Tids /\ t \in Tids
        BY <1>2 DEF IInv, TypeOK
      <4>2. ASSUME NEW g \in [Tids -> Nat], NEW u \in Tids
            PROVE  scrSchedule(g, u) \in [Tids -> Nat]
        BY SMT DEF scrSchedule
      <4>3. QED
        BY <4>1, <4>2
    <3>2. live' \subseteq Tids
      BY <1>1 DEF IInv, TypeOK
    <3>3. priority' \in [Tids -> 0..255]
      BY <1>1 DEF IInv, TypeOK
    <3>4. QED
      BY <3>1, <3>2, <3>3
  <2>2. \A u \in Tids : h[u] = IF u \in live' /\ ~Blocked(u) THEN 1 ELSE 0
    <3>1. \A u \in Tids : h[u] = IF u = t \/ u = PID THEN 1 ELSE heap[u]
      BY <1>2, SMT DEF IInv, TypeOK, scrSchedule
    <3>2. QED
      BY <3>1, <1>1, <1>2, SlotFacts
  <2>3. \A u \in Tids : Blocked(u) => BLOCKED_LIST[u].pid = u /\ u \in live'
    BY <1>1, SlotFacts
  <2>4. QED
    BY <1>1, <2>1, <2>2, <2>3 DEF IInv, TypeOK, IdleRunnable, HandlerDone, Blocked
<1>4. waiting_reply' = waiting_reply /\ waiting_send' = waiting_send
  BY <1>1, <1>2, SMT DEF IInv, TypeOK, BlockedForOneReason
<1>5. UNCHANGED <<BLOCKED_LIST, pid_ls, eventq_len, waiting_reply, waiting_send>>
  BY <1>1, <1>4
<1>6. ListsTyped'
  <2>1. mailbox' \in [Tids -> Seq(Tids)]
    BY DEF KernelCreate, IInv, TypeOK
  <2>2. QED
    BY <1>5, <2>1 DEF IInv, TypeOK, ListsTyped
<1>7. BlockedForOneReason' /\ NoSleepOnQueuedEvent'
  <2>1. BlockedForOneReason'
    BY <1>5 DEF IInv, BlockedForOneReason, Blocked, Awaits, Range
  <2>2. NoSleepOnQueuedEvent'
    BY <1>5 DEF IInv, NoSleepOnQueuedEvent
  <2>3. QED
    BY <2>1, <2>2
<1>8. QED
  BY <1>3, <1>6, <1>7, StepPreservesIInv DEF KernelCreate

-----------------------------------------------------------------------------
\* The three shapes of a handler that blocks or wakes tasks.

\* block() keeps the type of the blocked list.
LEMMA BlockTyped ==
  ASSUME IInv, Traps
  PROVE  /\ block(BLOCKED_LIST, PID) \in [Tids -> [pid : 0..NUMPROCS, priority : 0..255]]
         /\ \A u \in Tids : block(BLOCKED_LIST, PID)[u].pid =
                            IF u = PID THEN PID ELSE BLOCKED_LIST[u].pid
<1>1. PID \in Tids /\ PID \in 0..NUMPROCS
  BY TrapFacts, KernelAssumption, SMT DEF Tids
<1>2. QED
  BY <1>1, SMT DEF IInv, TypeOK, block

\* The caller blocks and nobody is woken.
LEMMA BlockDone ==
  ASSUME IInv, Traps, UNCHANGED taskVars, BLOCKED_LIST' = block(BLOCKED_LIST, PID)
  PROVE  /\ HandlerDone(heap)
         /\ \A u \in Tids : Blocked(u)' <=> (u = PID \/ Blocked(u))
<1>1. \A u \in Tids : BLOCKED_LIST'[u].pid = IF u = PID THEN PID ELSE BLOCKED_LIST[u].pid
  BY BlockTyped
<1>2. PID \in Tids /\ PID # 0 /\ PID \in live /\ PID # Idle
  BY TrapFacts, SMT DEF Tids
<1>3. \A u \in Tids : heap[u] = IF u \in live /\ BLOCKED_LIST'[u].pid = 0 THEN 1 ELSE 0
  BY <1>1, <1>2, SlotFacts DEF Blocked
<1>4. \A u \in Tids : BLOCKED_LIST'[u].pid # 0 => BLOCKED_LIST'[u].pid = u /\ u \in live
  BY <1>1, <1>2, SlotFacts DEF Blocked
<1>5. HandlerDone(heap)
  BY <1>1, <1>2, <1>3, <1>4, BlockTyped, IdleIsTid
     DEF IInv, TypeOK, IdleRunnable, HandlerDone, Blocked, taskVars
<1>6. QED
  BY <1>1, <1>2, <1>5 DEF Blocked

\* unblock_ind for tasks that block() marked: it never takes its early return.
LEMMA WakeFacts ==
  ASSUME NEW bl, bl \in [Tids -> [pid : 0..NUMPROCS, priority : 0..255]],
         NEW h \in [Tids -> Nat], NEW S \in SUBSET Tids,
         \A u \in S : bl[u].pid # 0
  PROVE  /\ WakeList(bl, S) \in [Tids -> [pid : 0..NUMPROCS, priority : 0..255]]
         /\ WakeHeap(h, bl, S) \in [Tids -> Nat]
         /\ \A u \in Tids :
              /\ WakeList(bl, S)[u].pid = IF u \in S THEN 0 ELSE bl[u].pid
              /\ WakeHeap(h, bl, S)[u] = IF u \in S THEN h[u] + 1 ELSE h[u]
<1>1. ASSUME NEW u \in Tids
      PROVE  WakeList(bl, S)[u] \in [pid : 0..NUMPROCS, priority : 0..255]
  <2>1. 0 \in 0..NUMPROCS
    BY KernelAssumption, SMT
  <2>2. bl[u] \in [pid : 0..NUMPROCS, priority : 0..255]
    OBVIOUS
  <2>3. [bl[u] EXCEPT !.pid = 0] \in [pid : 0..NUMPROCS, priority : 0..255]
    BY <2>1, <2>2
  <2>4. QED
    BY <2>2, <2>3 DEF WakeList
<1>2. WakeHeap(h, bl, S) \in [Tids -> Nat]
  BY SMT DEF WakeHeap
<1>3. \A u \in Tids :
        /\ WakeList(bl, S)[u].pid = IF u \in S THEN 0 ELSE bl[u].pid
        /\ WakeHeap(h, bl, S)[u] = IF u \in S THEN h[u] + 1 ELSE h[u]
  BY SMT DEF WakeList, WakeHeap, NotBlocked
<1>4. QED
  BY <1>1, <1>2, <1>3 DEF WakeList

\* The caller blocks, then `dest' is made ready: the receiver of a message.
LEMMA BlockWakeDone ==
  ASSUME IInv, Traps, UNCHANGED taskVars,
         NEW dest \in Tids, dest = PID \/ Blocked(dest),
         BLOCKED_LIST' = WakeList(block(BLOCKED_LIST, PID), {dest})
  PROVE  /\ HandlerDone(WakeHeap(heap, block(BLOCKED_LIST, PID), {dest}))
         /\ \A u \in Tids : Blocked(u)' <=> (u # dest /\ (u = PID \/ Blocked(u)))
<1> DEFINE bl == block(BLOCKED_LIST, PID)
           h == WakeHeap(heap, bl, {dest})
<1>1. PID \in Tids /\ PID # 0 /\ PID \in live /\ PID # Idle
  BY TrapFacts, SMT DEF Tids
<1>2. /\ bl \in [Tids -> [pid : 0..NUMPROCS, priority : 0..255]]
      /\ \A u \in Tids : bl[u].pid = IF u = PID THEN PID ELSE BLOCKED_LIST[u].pid
  BY BlockTyped
<1>3. bl[dest].pid # 0
  BY <1>1, <1>2 DEF Blocked
<1>4. /\ BLOCKED_LIST' \in [Tids -> [pid : 0..NUMPROCS, priority : 0..255]]
      /\ h \in [Tids -> Nat]
      /\ \A u \in Tids :
           /\ BLOCKED_LIST'[u].pid = IF u = dest THEN 0 ELSE bl[u].pid
           /\ h[u] = IF u = dest THEN heap[u] + 1 ELSE heap[u]
  <2> HIDE DEF bl
  <2>1. heap \in [Tids -> Nat] /\ {dest} \in SUBSET Tids /\ \A u \in {dest} : bl[u].pid # 0
    BY <1>3 DEF IInv, TypeOK
  <2>2. BLOCKED_LIST' = WakeList(bl, {dest})
    BY DEF bl
  <2>3. /\ WakeList(bl, {dest}) \in [Tids -> [pid : 0..NUMPROCS, priority : 0..255]]
        /\ h \in [Tids -> Nat]
        /\ \A u \in Tids :
             /\ WakeList(bl, {dest})[u].pid = IF u \in {dest} THEN 0 ELSE bl[u].pid
             /\ h[u] = IF u \in {dest} THEN heap[u] + 1 ELSE heap[u]
    BY <2>1, <1>2, WakeFacts
  <2>4. QED
    BY <2>2, <2>3
<1> HIDE DEF bl, h
<1>5. ASSUME NEW u \in Tids
      PROVE  h[u] = IF u \in live /\ BLOCKED_LIST'[u].pid = 0 THEN 1 ELSE 0
  <2>1. CASE u = dest
    <3>1. heap[u] = 0 /\ u \in live
      BY <2>1, <1>1, SlotFacts
    <3>2. h[u] = heap[u] + 1 /\ BLOCKED_LIST'[u].pid = 0
      BY <2>1, <1>4
    <3>3. QED
      BY <3>1, <3>2
  <2>2. CASE u # dest
    <3>1. h[u] = heap[u] /\ BLOCKED_LIST'[u].pid = bl[u].pid
      BY <2>2, <1>4
    <3>2. CASE u = PID
      <4>1. heap[u] = 0 /\ bl[u].pid # 0
        BY <3>2, <1>1, <1>2, SlotFacts
      <4>2. QED
        BY <3>1, <4>1
    <3>3. CASE u # PID
      <4>1. bl[u].pid = BLOCKED_LIST[u].pid
        BY <3>3, <1>2
      <4>2. heap[u] = IF u \in live /\ BLOCKED_LIST[u].pid = 0 THEN 1 ELSE 0
        BY <3>3, SlotFacts DEF Blocked
      <4>3. QED
        BY <3>1, <4>1, <4>2
    <3>4. QED
      BY <3>2, <3>3
  <2>3. QED
    BY <2>1, <2>2
<1>6. ASSUME NEW u \in Tids, BLOCKED_LIST'[u].pid # 0
      PROVE  BLOCKED_LIST'[u].pid = u /\ u \in live
  <2>1. BLOCKED_LIST'[u].pid = bl[u].pid
    BY <1>4, <1>6
  <2>2. CASE u = PID
    BY <2>1, <2>2, <1>1, <1>2
  <2>3. CASE u # PID
    <3>1. bl[u].pid = BLOCKED_LIST[u].pid
      BY <2>3, <1>2
    <3>2. QED
      BY <2>1, <3>1, <1>6, SlotFacts DEF Blocked
  <2>4. QED
    BY <2>2, <2>3
<1>7. BLOCKED_LIST'[Idle].pid = 0
  BY <1>1, <1>2, <1>4, IdleIsTid DEF IInv, IdleRunnable, Blocked
<1>8. HandlerDone(h)
  BY <1>4, <1>5, <1>6, <1>7 DEF IInv, TypeOK, IdleRunnable, HandlerDone, Blocked, taskVars
<1>9. \A u \in Tids : Blocked(u)' <=> (u # dest /\ (u = PID \/ Blocked(u)))
  BY <1>1, <1>2, <1>4 DEF Blocked
<1>10. QED
  BY <1>8, <1>9 DEF h, bl

\* The caller is put back, then the blocked tasks of S are made ready: a reply
\* or an interrupt.
LEMMA RequeueWakeDone ==
  ASSUME IInv, UNCHANGED taskVars,
         NEW S \in SUBSET Tids, \A u \in S : Blocked(u),
         BLOCKED_LIST' = WakeList(BLOCKED_LIST, S)
  PROVE  /\ HandlerDone(WakeHeap(scrSchedule(heap, PID), BLOCKED_LIST, S))
         /\ \A u \in Tids : Blocked(u)' <=> (u \notin S /\ Blocked(u))
<1> DEFINE h1 == scrSchedule(heap, PID)
           h == WakeHeap(h1, BLOCKED_LIST, S)
<1>1. PID \in Tids /\ heap[PID] = 0 /\ PID \in live /\ ~Blocked(PID)
  BY SMT DEF IInv, TypeOK, SlotPartition, KernelNeverParks
<1>2. h1 \in [Tids -> Nat] /\ \A u \in Tids : h1[u] = IF u = PID THEN 1 ELSE heap[u]
  BY <1>1, SMT DEF IInv, TypeOK, scrSchedule
<1> HIDE DEF h1
<1>3. /\ BLOCKED_LIST' \in [Tids -> [pid : 0..NUMPROCS, priority : 0..255]]
      /\ h \in [Tids -> Nat]
      /\ \A u \in Tids :
           /\ BLOCKED_LIST'[u].pid = IF u \in S THEN 0 ELSE BLOCKED_LIST[u].pid
           /\ h[u] = IF u \in S THEN h1[u] + 1 ELSE h1[u]
  <2>1. BLOCKED_LIST \in [Tids -> [pid : 0..NUMPROCS, priority : 0..255]]
    BY DEF IInv, TypeOK
  <2>2. QED
    BY <2>1, <1>2, WakeFacts DEF Blocked
<1> HIDE DEF h
<1>4. \A u \in Tids : h[u] = IF u \in live /\ BLOCKED_LIST'[u].pid = 0 THEN 1 ELSE 0
  BY <1>1, <1>2, <1>3, SlotFacts, SMT DEF Blocked
<1>5. \A u \in Tids : BLOCKED_LIST'[u].pid # 0 => BLOCKED_LIST'[u].pid = u /\ u \in live
  BY <1>3, SlotFacts DEF Blocked
<1>6. BLOCKED_LIST'[Idle].pid = 0
  BY <1>3, IdleIsTid DEF IInv, IdleRunnable, Blocked
<1>7. HandlerDone(h)
  BY <1>3, <1>4, <1>5, <1>6 DEF IInv, TypeOK, IdleRunnable, HandlerDone, Blocked, taskVars
<1>8. \A u \in Tids : Blocked(u)' <=> (u \notin S /\ Blocked(u))
  BY <1>3 DEF Blocked
<1>9. QED
  BY <1>7, <1>8 DEF h, h1

-----------------------------------------------------------------------------
\* BlockedForOneReason, task by task and list by list.
OneReason(t) ==
  /\ Blocked(t) <=> (waiting_reply[t] = 1 \/ waiting_send[t] = 1 \/ Awaits(t))
  /\ ~(waiting_reply[t] = 1 /\ waiting_send[t] = 1)
  /\ ~(waiting_reply[t] = 1 /\ Awaits(t))
  /\ ~(waiting_send[t] = 1 /\ Awaits(t))

\* Steps that leave the interrupt wait lists alone.
LEMMA IpcReasons ==
  ASSUME IInv, UNCHANGED eventVars, \A u \in Tids : OneReason(u)'
  PROVE  BlockedForOneReason' /\ NoSleepOnQueuedEvent' /\ eventq_len' \in [Events -> Nat]
<1>1. pid_ls' = pid_ls /\ eventq_len' = eventq_len
  BY DEF eventVars
<1>2. BlockedForOneReason'
  BY <1>1 DEF IInv, BlockedForOneReason, OneReason, Range
<1>3. NoSleepOnQueuedEvent' /\ eventq_len' \in [Events -> Nat]
  BY <1>1 DEF IInv, TypeOK, NoSleepOnQueuedEvent
<1>4. QED
  BY <1>2, <1>3

\* Each task waits for one thing at most, and for one exactly when blocked.
LEMMA OneReasonNow ==
  ASSUME IInv, NEW u \in Tids
  PROVE  OneReason(u)
BY DEF IInv, BlockedForOneReason, OneReason

\* A step that leaves the wait lists alone leaves who awaits an event alone.
LEMMA AwaitsUnchanged ==
  ASSUME UNCHANGED eventVars, NEW u
  PROVE  Awaits(u)' <=> Awaits(u)
BY DEF Awaits, Range, eventVars

\* A sender put into a mailbox keeps its type.
LEMMA MailTyped ==
  ASSUME IInv, NEW u \in Tids, NEW t \in Tids
  PROVE  /\ Append(mailbox[u], t) \in Seq(Tids)
         /\ Append(mailbox[u], t) # <<>>
         /\ Tail(Append(mailbox[u], t)) \in Seq(Tids)
         /\ mailbox[u] # <<>> => Tail(mailbox[u]) \in Seq(Tids)
<1>1. mailbox[u] \in Seq(Tids)
  BY DEF IInv, TypeOK
<1>2. Append(mailbox[u], t) \in Seq(Tids) /\ Append(mailbox[u], t) # <<>>
  BY <1>1, AppendProperties
<1>3. \A q \in Seq(Tids) : q # <<>> => Tail(q) \in Seq(Tids)
  BY HeadTailProperties
<1>4. QED
  BY <1>1, <1>2, <1>3

\* A ring that does not look empty is not empty.
LEMMA NotEmpty ==
  ASSUME NEW q, ~LooksEmpty(q)
  PROVE  q # <<>>
BY KernelAssumption, SMT DEF LooksEmpty

\* Send() to a busy task preserves IInv.
LEMMA SendQueuesInv ==
  ASSUME IInv, NEW dest \in Tids, SendQueues(dest)
  PROVE  IInv'
<1>1. /\ Traps /\ waiting_reply' = [waiting_reply EXCEPT ![PID] = 1]
      /\ mailbox' = [mailbox EXCEPT ![dest] = Append(mailbox[dest], PID)]
      /\ BLOCKED_LIST' = block(BLOCKED_LIST, PID)
      /\ UNCHANGED <<taskVars, waiting_send, eventVars>>
      /\ Schedule(heap)
  BY DEF SendQueues, SendAccepted
<1>2. HandlerDone(heap) /\ \A u \in Tids : Blocked(u)' <=> (u = PID \/ Blocked(u))
  BY <1>1, BlockDone
<1>3. ASSUME NEW u \in Tids PROVE OneReason(u)'
  <2>1. waiting_reply'[u] = (IF u = PID THEN 1 ELSE waiting_reply[u]) /\ waiting_send'[u] = waiting_send[u]
    BY <1>1, TrapFacts DEF IInv, TypeOK
  <2>2. OneReason(u) /\ (Awaits(u)' <=> Awaits(u))
    BY <1>1, OneReasonNow, AwaitsUnchanged
  <2>3. Blocked(u)' <=> (u = PID \/ Blocked(u))
    BY <1>2
  <2>4. QED
    BY <1>1, <2>1, <2>2, <2>3, TrapFacts DEF OneReason
<1>4. ListsTyped'
  <2>1. mailbox' \in [Tids -> Seq(Tids)]
    BY <1>1, TrapFacts, MailTyped DEF IInv, TypeOK
  <2>2. waiting_reply' \in [Tids -> 0..1]
    BY <1>1, TrapFacts DEF IInv, TypeOK
  <2>3. UNCHANGED <<waiting_send, pid_ls, eventq_len>>
    BY <1>1 DEF eventVars
  <2>4. QED
    BY <2>1, <2>2, <2>3 DEF IInv, TypeOK, ListsTyped
<1>5. QED
  BY <1>1, <1>2, <1>3, <1>4, IpcReasons, StepPreservesIInv

\* Send() to a task in Receive() preserves IInv.
LEMMA SendDeliversInv ==
  ASSUME IInv, NEW dest \in Tids, SendDelivers(dest)
  PROVE  IInv'
<1>1. /\ Traps /\ waiting_reply' = [waiting_reply EXCEPT ![PID] = 1]
      /\ waiting_send[dest] = 1
      /\ waiting_send' = [waiting_send EXCEPT ![dest] = 0]
      /\ mailbox' = [mailbox EXCEPT ![dest] = Tail(Append(mailbox[dest], PID))]
      /\ BLOCKED_LIST' = WakeList(block(BLOCKED_LIST, PID), {dest})
      /\ UNCHANGED <<taskVars, eventVars>>
      /\ Schedule(WakeHeap(heap, block(BLOCKED_LIST, PID), {dest}))
  BY DEF SendDelivers, SendAccepted
<1>2. dest # PID /\ Blocked(dest)
  BY <1>1, TrapFacts, OneReasonNow DEF OneReason
<1>3. /\ HandlerDone(WakeHeap(heap, block(BLOCKED_LIST, PID), {dest}))
      /\ \A u \in Tids : Blocked(u)' <=> (u # dest /\ (u = PID \/ Blocked(u)))
  BY <1>1, <1>2, BlockWakeDone
<1>4. ASSUME NEW u \in Tids PROVE OneReason(u)'
  <2>1. waiting_reply'[u] = (IF u = PID THEN 1 ELSE waiting_reply[u]) /\ waiting_send'[u] = (IF u = dest THEN 0 ELSE waiting_send[u])
    BY <1>1, TrapFacts DEF IInv, TypeOK
  <2>2. OneReason(u) /\ (Awaits(u)' <=> Awaits(u))
    BY <1>1, OneReasonNow, AwaitsUnchanged
  <2>3. Blocked(u)' <=> (u # dest /\ (u = PID \/ Blocked(u)))
    BY <1>3
  <2>4. QED
    BY <1>1, <1>2, <2>1, <2>2, <2>3, TrapFacts DEF OneReason
<1>5. ListsTyped'
  BY <1>1, TrapFacts, MailTyped DEF IInv, TypeOK, ListsTyped, eventVars
<1>6. QED
  BY <1>1, <1>3, <1>4, <1>5, IpcReasons, StepPreservesIInv

\* Receive() with no mail preserves IInv.
LEMMA ReceiveParksInv ==
  ASSUME IInv, ReceiveParks
  PROVE  IInv'
<1>1. /\ Traps /\ waiting_send' = [waiting_send EXCEPT ![PID] = 1]
      /\ BLOCKED_LIST' = block(BLOCKED_LIST, PID)
      /\ UNCHANGED <<taskVars, mailbox, waiting_reply, eventVars>>
      /\ Schedule(heap)
  BY DEF ReceiveParks
<1>2. HandlerDone(heap) /\ \A u \in Tids : Blocked(u)' <=> (u = PID \/ Blocked(u))
  BY <1>1, BlockDone
<1>3. ASSUME NEW u \in Tids PROVE OneReason(u)'
  <2>1. waiting_reply'[u] = waiting_reply[u] /\ waiting_send'[u] = (IF u = PID THEN 1 ELSE waiting_send[u])
    BY <1>1, TrapFacts DEF IInv, TypeOK
  <2>2. OneReason(u) /\ (Awaits(u)' <=> Awaits(u))
    BY <1>1, OneReasonNow, AwaitsUnchanged
  <2>3. Blocked(u)' <=> (u = PID \/ Blocked(u))
    BY <1>2
  <2>4. QED
    BY <1>1, <2>1, <2>2, <2>3, TrapFacts DEF OneReason
<1>4. ListsTyped'
  BY <1>1, TrapFacts DEF IInv, TypeOK, ListsTyped, eventVars
<1>5. QED
  BY <1>1, <1>2, <1>3, <1>4, IpcReasons, StepPreservesIInv

\* Receive() with mail preserves IInv.
LEMMA ReceivePopsInv ==
  ASSUME IInv, ReceivePops
  PROVE  IInv'
<1>1. /\ Traps /\ ~LooksEmpty(mailbox[PID])
      /\ mailbox' = [mailbox EXCEPT ![PID] = Tail(mailbox[PID])]
      /\ waiting_send' = [waiting_send EXCEPT ![PID] = 0]
      /\ BLOCKED_LIST' = WakeList(block(BLOCKED_LIST, PID), {PID})
      /\ UNCHANGED <<taskVars, waiting_reply, eventVars>>
      /\ Schedule(WakeHeap(heap, block(BLOCKED_LIST, PID), {PID}))
  BY DEF ReceivePops
<1>2. /\ HandlerDone(WakeHeap(heap, block(BLOCKED_LIST, PID), {PID}))
      /\ \A u \in Tids : Blocked(u)' <=> (u # PID /\ (u = PID \/ Blocked(u)))
  BY <1>1, TrapFacts, BlockWakeDone
<1>3. ASSUME NEW u \in Tids PROVE OneReason(u)'
  <2>1. waiting_reply'[u] = waiting_reply[u] /\ waiting_send'[u] = (IF u = PID THEN 0 ELSE waiting_send[u])
    BY <1>1, TrapFacts DEF IInv, TypeOK
  <2>2. OneReason(u) /\ (Awaits(u)' <=> Awaits(u))
    BY <1>1, OneReasonNow, AwaitsUnchanged
  <2>3. Blocked(u)' <=> (u # PID /\ (u = PID \/ Blocked(u)))
    BY <1>2
  <2>4. QED
    BY <1>1, <2>1, <2>2, <2>3, TrapFacts DEF OneReason
<1>4. ListsTyped'
  BY <1>1, TrapFacts, MailTyped, NotEmpty DEF IInv, TypeOK, ListsTyped, eventVars
<1>5. QED
  BY <1>1, <1>2, <1>3, <1>4, IpcReasons, StepPreservesIInv

\* Reply() preserves IInv.
LEMMA ReplyWakesInv ==
  ASSUME IInv, NEW dest \in Tids, ReplyWakes(dest)
  PROVE  IInv'
<1>1. /\ waiting_reply[dest] = 1
      /\ waiting_reply' = [waiting_reply EXCEPT ![dest] = 0]
      /\ BLOCKED_LIST' = WakeList(BLOCKED_LIST, {dest})
      /\ UNCHANGED <<taskVars, mailbox, waiting_send, eventVars>>
      /\ Schedule(WakeHeap(scrSchedule(heap, PID), BLOCKED_LIST, {dest}))
  BY DEF ReplyWakes
<1>2. \A u \in {dest} : Blocked(u)
  BY <1>1, OneReasonNow DEF OneReason
<1>3. /\ HandlerDone(WakeHeap(scrSchedule(heap, PID), BLOCKED_LIST, {dest}))
      /\ \A u \in Tids : Blocked(u)' <=> (u \notin {dest} /\ Blocked(u))
  BY <1>1, <1>2, RequeueWakeDone
<1>4. ASSUME NEW u \in Tids PROVE OneReason(u)'
  <2>1. waiting_reply'[u] = (IF u = dest THEN 0 ELSE waiting_reply[u]) /\ waiting_send'[u] = waiting_send[u]
    BY <1>1 DEF IInv, TypeOK
  <2>2. OneReason(u) /\ (Awaits(u)' <=> Awaits(u))
    BY <1>1, OneReasonNow, AwaitsUnchanged
  <2>3. Blocked(u)' <=> (u # dest /\ Blocked(u))
    BY <1>3
  <2>4. QED
    BY <1>1, <2>1, <2>2, <2>3 DEF OneReason
<1>5. ListsTyped'
  BY <1>1 DEF IInv, TypeOK, ListsTyped, eventVars
<1>6. QED
  BY <1>1, <1>3, <1>4, <1>5, IpcReasons, StepPreservesIInv

-----------------------------------------------------------------------------
\* AwaitEvent() with no event queued preserves IInv.
LEMMA AwaitBlocksInv ==
  ASSUME IInv, NEW e \in Events, AwaitBlocks(e)
  PROVE  IInv'
<1>1. /\ Traps /\ eventq_len[e] = 0
      /\ pid_ls' = [pid_ls EXCEPT ![e] = Append(pid_ls[e], PID)]
      /\ BLOCKED_LIST' = block(BLOCKED_LIST, PID)
      /\ UNCHANGED <<taskVars, ipcVars, eventq_len>>
      /\ UNCHANGED <<mailbox, waiting_reply, waiting_send>>
      /\ Schedule(heap)
  BY DEF AwaitBlocks, ipcVars
<1>2. PID \in Tids /\ \A f \in Events : PID \notin Range(pid_ls[f])
  BY <1>1, TrapFacts DEF Awaits
<1>3. HandlerDone(heap) /\ \A u \in Tids : Blocked(u)' <=> (u = PID \/ Blocked(u))
  BY <1>1, BlockDone
<1>4. pid_ls \in [Events -> Seq(Tids)]
  BY DEF IInv, TypeOK
<1>5. /\ pid_ls'[e] \in Seq(Tids)
      /\ Range(pid_ls'[e]) = Range(pid_ls[e]) \cup {PID}
      /\ \A i, j \in DOMAIN pid_ls'[e] : pid_ls'[e][i] = pid_ls'[e][j] => i = j
  <2>1. \A i, j \in DOMAIN pid_ls[e] : pid_ls[e][i] = pid_ls[e][j] => i = j
    BY DEF IInv, BlockedForOneReason
  <2>2. pid_ls'[e] = Append(pid_ls[e], PID) /\ pid_ls[e] \in Seq(Tids)
    BY <1>1, <1>4
  <2>3. QED
    BY <2>1, <2>2, <1>2, AppendsTo DEF Distinct
<1>6. \A f \in Events : f # e => pid_ls'[f] = pid_ls[f]
  BY <1>1, <1>4
<1>7. \A u \in Tids : Awaits(u)' <=> (u = PID \/ Awaits(u))
  <2>1. \A f \in Events : f # e => Range(pid_ls'[f]) = Range(pid_ls[f])
    BY <1>6
  <2>2. \A u \in Tids : Awaits(u)' <=> \E f \in Events : u \in Range(pid_ls'[f])
    BY DEF Awaits, Range
  <2>3. QED
    BY <2>1, <2>2, <1>5 DEF Awaits
<1>8. \A u \in Tids : OneReason(u)'
  BY <1>1, <1>3, <1>7, TrapFacts, OneReasonNow DEF OneReason
<1>9. BlockedForOneReason'
  <2>1. \A f \in Events : \A i, j \in DOMAIN pid_ls'[f] :
          pid_ls'[f][i] = pid_ls'[f][j] => i = j
    BY <1>5, <1>6 DEF IInv, BlockedForOneReason
  <2>2. \A f, g \in Events : f # g => Range(pid_ls'[f]) \cap Range(pid_ls'[g]) = {}
    <3>1. \A f, g \in Events : f # g => Range(pid_ls[f]) \cap Range(pid_ls[g]) = {}
      BY DEF IInv, BlockedForOneReason
    <3>2. QED
      BY <3>1, <1>2, <1>5, <1>6
  <2>3. QED
    BY <2>1, <2>2, <1>8 DEF BlockedForOneReason, OneReason, Range
<1>10. NoSleepOnQueuedEvent'
  BY <1>1, <1>6 DEF IInv, NoSleepOnQueuedEvent
<1>11. ListsTyped'
  <2>1. pid_ls' \in [Events -> Seq(Tids)]
    BY <1>1, <1>4, <1>5
  <2>2. QED
    BY <2>1, <1>1 DEF IInv, TypeOK, ListsTyped
<1>12. QED
  BY <1>1, <1>3, <1>9, <1>10, <1>11, StepPreservesIInv

\* An interrupt of kind e, whatever it leaves in the event queue.
LEMMA InterruptInv ==
  ASSUME IInv, NEW e \in Events, unblock_return(e), UNCHANGED <<taskVars, ipcVars>>,
         eventq_len' \in [Events -> Nat],
         \A f \in Events : f # e => eventq_len'[f] = eventq_len[f]
  PROVE  IInv'
<1> DEFINE S == Range(pid_ls[e])
<1>1. /\ pid_ls' = [pid_ls EXCEPT ![e] = <<>>]
      /\ BLOCKED_LIST' = WakeList(BLOCKED_LIST, S)
      /\ Schedule(WakeHeap(scrSchedule(heap, PID), BLOCKED_LIST, S))
      /\ UNCHANGED <<mailbox, waiting_reply, waiting_send>>
  BY DEF unblock_return, ipcVars
<1>2. pid_ls \in [Events -> Seq(Tids)]
  BY DEF IInv, TypeOK
<1>3. S \in SUBSET Tids /\ \A u \in S : Blocked(u)
  <2>1. pid_ls[e] \in Seq(Tids)
    BY <1>2
  <2>2. S \subseteq Tids
    BY <2>1, ElementOfSeq, LenProperties DEF Range
  <2>3. QED
    BY <2>2, OneReasonNow DEF OneReason, Awaits
<1>4. /\ HandlerDone(WakeHeap(scrSchedule(heap, PID), BLOCKED_LIST, S))
      /\ \A u \in Tids : Blocked(u)' <=> (u \notin S /\ Blocked(u))
  BY <1>1, <1>3, RequeueWakeDone
<1>5. /\ pid_ls'[e] = <<>> /\ Range(pid_ls'[e]) = {} /\ DOMAIN pid_ls'[e] = {}
      /\ \A f \in Events : f # e => pid_ls'[f] = pid_ls[f]
  <2>1. pid_ls'[e] = <<>> /\ \A f \in Events : f # e => pid_ls'[f] = pid_ls[f]
    BY <1>1, <1>2
  <2>2. DOMAIN pid_ls'[e] = {}
    BY <2>1, SMT
  <2>3. QED
    BY <2>1, <2>2 DEF Range
<1>6. \A f, g \in Events : f # g => Range(pid_ls[f]) \cap Range(pid_ls[g]) = {}
  BY DEF IInv, BlockedForOneReason
<1>7. \A u \in Tids : Awaits(u)' <=> (u \notin S /\ Awaits(u))
  <2>1. \A f \in Events : Range(pid_ls'[f]) = IF f = e THEN {} ELSE Range(pid_ls[f])
    BY <1>5
  <2>2. \A u \in Tids : Awaits(u)' <=> \E f \in Events : u \in Range(pid_ls'[f])
    BY DEF Awaits, Range
  <2>3. QED
    BY <2>1, <2>2, <1>6 DEF Awaits
<1>8. \A u \in Tids : OneReason(u)'
  <2>1. \A u \in S : Awaits(u)
    BY DEF Awaits
  <2>2. QED
    BY <2>1, <1>1, <1>4, <1>7, OneReasonNow DEF OneReason
<1>9. BlockedForOneReason'
  <2>1. \A f \in Events : \A i, j \in DOMAIN pid_ls'[f] :
          pid_ls'[f][i] = pid_ls'[f][j] => i = j
    BY <1>5 DEF IInv, BlockedForOneReason
  <2>2. \A f, g \in Events : f # g => Range(pid_ls'[f]) \cap Range(pid_ls'[g]) = {}
    BY <1>5, <1>6
  <2>3. QED
    BY <2>1, <2>2, <1>8 DEF BlockedForOneReason, OneReason, Range
<1>10. NoSleepOnQueuedEvent'
  BY <1>5 DEF IInv, NoSleepOnQueuedEvent
<1>11. ListsTyped'
  <2>1. pid_ls' \in [Events -> Seq(Tids)]
    BY <1>1, <1>2
  <2>2. QED
    BY <2>1, <1>1 DEF IInv, TypeOK, ListsTyped
<1>12. QED
  BY <1>1, <1>4, <1>9, <1>10, <1>11, StepPreservesIInv

-----------------------------------------------------------------------------
\* kmain establishes IInv.
LEMMA InitIInv == Init => IInv
<1> SUFFICES ASSUME Init PROVE IInv
  OBVIOUS
<1> USE DEF Init
<1>1. Len(Boot) \in Nat /\ \A t \in 1..Len(Boot) : Boot[t] \in 0..255 /\ t \in Tids
  <2>1. Boot \in Seq(Priorities) /\ Len(Boot) \in Nat
    BY KernelAssumption, LenProperties
  <2>2. \A t \in 1..Len(Boot) : Boot[t] \in Priorities
    BY <2>1, ElementOfSeq
  <2>3. 1..Len(Boot) \subseteq Tids
    BY <2>1, KernelAssumption, SMT DEF Tids
  <2>4. QED
    BY <2>1, <2>2, <2>3, KernelAssumption
<1>2. live \subseteq Tids /\ PID \in live
  BY <1>1
<1>3. TypeOK
  <2>1. 0 \in 0..NUMPROCS /\ 0 \in 0..255
    BY KernelAssumption, SMT
  <2>2. priority \in [Tids -> 0..255]
    <3>1. \A t \in Tids : (IF t \in 1..Len(Boot) THEN Boot[t] ELSE 0) \in 0..255
      BY <1>1, <2>1
    <3>2. QED
      BY <3>1
  <2>3. BLOCKED_LIST \in [Tids -> [pid : 0..NUMPROCS, priority : 0..255]]
    BY <2>1
  <2>4. <<>> \in Seq(Tids)
    OBVIOUS
  <2>5. mailbox \in [Tids -> Seq(Tids)] /\ pid_ls \in [Events -> Seq(Tids)]
    BY <2>4
  <2>6. QED
    BY <1>2, <2>2, <2>3, <2>5 DEF TypeOK
<1>4. \A t \in Tids : ~Blocked(t)
  BY DEF Blocked
<1>5. SlotPartition
  BY <1>2, <1>4 DEF SlotPartition
<1>6. Range(<<>>) = {}
  <2>1. DOMAIN <<>> = {}
    BY SMT
  <2>2. QED
    BY <2>1 DEF Range
<1>7. BlockedForOneReason
  <2>1. \A e \in Events : pid_ls[e] = <<>> /\ DOMAIN pid_ls[e] = {}
    BY SMT
  <2>2. \A t \in Tids : ~Awaits(t)
    BY <1>6, <2>1 DEF Awaits
  <2>3. \A t \in Tids : waiting_reply[t] = 0 /\ waiting_send[t] = 0
    OBVIOUS
  <2>4. QED
    BY <1>4, <1>6, <2>1, <2>2, <2>3 DEF BlockedForOneReason
<1>8. NoSleepOnQueuedEvent
  BY DEF NoSleepOnQueuedEvent
<1>9. TopPriorityRuns
  <2>1. \A u \in live : priority[PID] <= priority[u]
    OBVIOUS
  <2>2. InHeap(heap) \subseteq live
    BY SMT DEF InHeap
  <2>3. QED
    BY <2>1, <2>2 DEF TopPriorityRuns
<1>10. KernelNeverParks
  BY <1>2, IdleIsTid DEF KernelNeverParks
<1>11. IdleRunnable
  BY <1>4, IdleIsTid, KernelAssumption DEF IdleRunnable
<1>12. QED
  BY <1>3, <1>5, <1>7, <1>8, <1>9, <1>10, <1>11 DEF IInv

\* The scheduling calls preserve IInv.
LEMMA TaskStepInv == IInv /\ TaskStep => IInv'
<1> SUFFICES ASSUME IInv, TaskStep PROVE IInv'
  OBVIOUS
<1>1. CASE Yield
  BY <1>1, PlainRequeueStep DEF Yield
<1>2. CASE Kill
  BY <1>2, KillInv
<1>3. CASE \E t \in FreeSlots, prio \in Priorities : KernelCreate(t, prio)
  <2>1. PICK t \in FreeSlots, prio \in Priorities : KernelCreate(t, prio)
    BY <1>3
  <2>2. t \in Tids /\ t \notin live /\ prio \in 0..255
    BY KernelAssumption DEF FreeSlots
  <2>3. QED
    BY <2>1, <2>2, KernelCreateInv
<1>4. CASE KernelCreateFails
  BY <1>4, PlainRequeueStep DEF KernelCreateFails
<1>5. QED
  BY <1>1, <1>2, <1>3, <1>4 DEF TaskStep

\* Send, Receive and Reply preserve IInv.
LEMMA IpcStepInv == IInv /\ (SendStep \/ ReceiveStep \/ ReplyStep) => IInv'
<1> SUFFICES ASSUME IInv, SendStep \/ ReceiveStep \/ ReplyStep PROVE IInv'
  OBVIOUS
<1>1. ASSUME NEW dest \in Tids, SendRefused(dest) PROVE IInv'
  BY <1>1, PlainRequeueStep DEF SendRefused
<1>2. ASSUME NEW dest \in Tids, ReplyRefused(dest) PROVE IInv'
  BY <1>2, PlainRequeueStep DEF ReplyRefused
<1>3. QED
  BY <1>1, <1>2, SendQueuesInv, SendDeliversInv, ReceiveParksInv, ReceivePopsInv,
     ReplyWakesInv DEF SendStep, ReceiveStep, ReplyStep

\* AwaitEvent() and the interrupts preserve IInv.
LEMMA EventStepInv == IInv /\ EventStep => IInv'
<1> SUFFICES ASSUME IInv, EventStep PROVE IInv'
  OBVIOUS
<1>1. eventq_len \in [Events -> Nat]
  BY DEF IInv, TypeOK
<1>2. ASSUME NEW e \in OffEvents, AwaitOff(e) PROVE IInv'
  BY <1>2, PlainRequeueStep DEF AwaitOff
<1>3. ASSUME NEW e \in Events, AwaitPending(e) PROVE IInv'
  <2>1. /\ eventq_len[e] # 0
        /\ eventq_len' = [eventq_len EXCEPT ![e] = eventq_len[e] - 1]
        /\ UNCHANGED <<taskVars, BLOCKED_LIST, ipcVars, pid_ls>>
        /\ Schedule(scrSchedule(heap, PID))
    BY <1>3 DEF AwaitPending
  <2>2. eventq_len' \in [Events -> Nat]
    BY <1>1, <2>1, SMT
  <2>3. NoSleepOnQueuedEvent'
    BY <1>1, <2>1 DEF IInv, NoSleepOnQueuedEvent
  <2>4. QED
    BY <2>1, <2>2, <2>3, RequeueStep
<1>4. ASSUME NEW e \in Events, AwaitBlocks(e) PROVE IInv'
  BY <1>4, AwaitBlocksInv
<1>5. ASSUME NEW e \in ClockEvents, ClockIRQ(e) PROVE IInv'
  BY <1>1, <1>5, InterruptInv DEF ClockIRQ, Events
<1>6. ASSUME NEW e \in Events, NEW n \in Nat, QueuedIRQ(e, n) PROVE IInv'
  <2>1. eventq_len' = [eventq_len EXCEPT ![e] = n]
    BY <1>6 DEF QueuedIRQ
  <2>2. /\ eventq_len' \in [Events -> Nat]
        /\ \A f \in Events : f # e => eventq_len'[f] = eventq_len[f]
    BY <1>1, <2>1
  <2>3. QED
    BY <1>6, <2>2, InterruptInv DEF QueuedIRQ
<1>7. ASSUME NEW e \in UartEvents, NEW burst \in 0..MaxBurst, UartIRQ(e, burst)
      PROVE  IInv'
  <2>1. e \in Events /\ eventq_len[e] + burst + Unclaimed(e) \in Nat
    BY <1>1, KernelAssumption, SMT DEF Events, Unclaimed
  <2>2. QED
    BY <1>6, <1>7, <2>1 DEF UartIRQ
<1>8. ASSUME NEW e \in ApuEvents, ApuIRQ(e) PROVE IInv'
  <2>1. e \in Events /\ eventq_len[e] + Unclaimed(e) \in Nat
    BY <1>1, SMT DEF Events, Unclaimed
  <2>2. QED
    BY <1>6, <1>8, <2>1 DEF ApuIRQ
<1>9. QED
  BY <1>2, <1>3, <1>4, <1>5, <1>7, <1>8 DEF EventStep

\* Every trap preserves IInv.
LEMMA NextIInv == IInv /\ [Next]_vars => IInv'
<1> SUFFICES ASSUME IInv, [Next]_vars PROVE IInv'
  OBVIOUS
<1>1. CASE Next
  BY <1>1, TaskStepInv, IpcStepInv, EventStepInv DEF Next
<1>2. CASE UNCHANGED vars
  <2>1. UNCHANGED <<PID, live, priority, heap, BLOCKED_LIST, mailbox, waiting_reply,
                    waiting_send, pid_ls, eventq_len>>
    BY <1>2 DEF vars, taskVars, ipcVars, eventVars
  <2>2. TypeOK'
    BY <2>1 DEF IInv, TypeOK
  <2>3. SlotPartition' /\ TopPriorityRuns' /\ KernelNeverParks' /\ IdleRunnable'
    BY <2>1 DEF IInv, SlotPartition, TopPriorityRuns, KernelNeverParks, IdleRunnable,
                Blocked, InHeap
  <2>4. BlockedForOneReason' /\ NoSleepOnQueuedEvent'
    BY <2>1 DEF IInv, BlockedForOneReason, NoSleepOnQueuedEvent, Blocked, Awaits, Range
  <2>5. QED
    BY <2>2, <2>3, <2>4 DEF IInv
<1>3. QED
  BY <1>1, <1>2

\* IInv is inductive, so it holds of every reachable state.
THEOREM KernelInvariant == Spec => []IInv
<1>1. QED
  BY InitIInv, NextIInv, PTL DEF Spec

\* The kernel's variables keep their types.
THEOREM KernelTypes == Spec => []TypeOK
<1>1. IInv => TypeOK
  BY DEF IInv
<1>2. QED
  BY <1>1, KernelInvariant, PTL

\* Every live task runs, is in the ready heap once, or is blocked.
THEOREM NoTaskIsOrphaned == Spec => []SlotPartition
<1>1. IInv => SlotPartition
  BY DEF IInv
<1>2. QED
  BY <1>1, KernelInvariant, PTL

\* A blocked task has exactly one thing to wait for.
THEOREM OneReasonToBlock == Spec => []BlockedForOneReason
<1>1. IInv => BlockedForOneReason
  BY DEF IInv
<1>2. QED
  BY <1>1, KernelInvariant, PTL

\* No queued event is slept through.
THEOREM NoLostWakeup == Spec => []NoSleepOnQueuedEvent
<1>1. IInv => NoSleepOnQueuedEvent
  BY DEF IInv
<1>2. QED
  BY <1>1, KernelInvariant, PTL

\* Schedule() never spins with interrupts masked.
THEOREM SchedulerNeverSpins == Spec => []KernelNeverParks
<1>1. IInv => KernelNeverParks
  BY DEF IInv
<1>2. QED
  BY <1>1, KernelInvariant, PTL

\* The ready heap of NUMPROCS entries has room at every trap: the entries are
\* of distinct tasks, none of them the running one.
THEOREM HeapNeverDrops == Spec => []HeapHasRoom
<1>1. IInv => HeapHasRoom
  <2> SUFFICES ASSUME IInv PROVE HeapHasRoom
    OBVIOUS
  <2> DEFINE R == Tids \ {PID}
             E == {<<t, 1>> : t \in R}
  <2>1. PID \in Tids /\ NUMPROCS \in Nat
    BY KernelAssumption DEF IInv, TypeOK, KernelNeverParks
  <2>2. IsFiniteSet(Tids) /\ Cardinality(Tids) = NUMPROCS
    BY <2>1, FS_Interval, SMT DEF Tids
  <2>3. IsFiniteSet(R) /\ Cardinality(R) = NUMPROCS - 1
    BY <2>1, <2>2, FS_RemoveElement
  <2>4. Entries(heap) \subseteq E
    BY <2>1, SMT DEF Entries, IInv, SlotPartition
  <2>5. [t \in R |-> <<t, 1>>] \in Surjection(R, E)
    BY DEF Surjection
  <2>6. IsFiniteSet(E) /\ Cardinality(E) <= NUMPROCS - 1
    BY <2>3, <2>5, FS_Surjection
  <2>7. /\ Cardinality(Entries(heap)) <= Cardinality(E)
        /\ Cardinality(Entries(heap)) \in Nat /\ Cardinality(E) \in Nat
    BY <2>4, <2>6, FS_Subset, FS_CardinalityType
  <2>8. QED
    BY <2>1, <2>6, <2>7, SMT DEF HeapHasRoom
<1>2. QED
  BY <1>1, KernelInvariant, PTL

-----------------------------------------------------------------------------
(* Kernel implements Lifecycle. *)

\* The abstract sets of tasks, in the kernel's terms.
LEMMA AbstractSets ==
  ASSUME IInv
  PROVE  /\ Abstract!In("running") = {PID}
         /\ Abstract!In("ready") = {t \in live : t # PID /\ ~Blocked(t)}
         /\ Abstract!In("blocked") = {t \in Tids : Blocked(t)}
         /\ Abstract!In("free") = Tids \ live
         /\ PID \in live /\ ~Blocked(PID) /\ live \subseteq Tids
<1>1. /\ PID \in live /\ ~Blocked(PID) /\ PID \in Tids /\ live \subseteq Tids
      /\ \A t \in Tids : Blocked(t) => t \in live
  BY DEF IInv, TypeOK, SlotPartition, KernelNeverParks
<1>2. QED
  BY <1>1 DEF Abstract!In, SlotState

\* The task that runs after a trap is one of the best of those then runnable.
LEMMA DispatchStep ==
  ASSUME IInv', NEW ready, NEW blocked,
         ready = {t \in live' : ~Blocked(t)'},
         blocked = {t \in Tids : Blocked(t)'}
  PROVE  Abstract!Dispatch(ready, blocked)
<1>1. /\ PID' \in live' /\ ~Blocked(PID)' /\ live' \subseteq Tids
      /\ priority' \in [Tids -> 0..255]
      /\ \A t \in Tids : Blocked(t)' => t \in live'
  BY DEF IInv, TypeOK, SlotPartition, KernelNeverParks
<1>2. \A u \in ready : priority'[PID'] <= priority'[u]
  <2>1. \A u \in ready : u # PID' => u \in InHeap(heap)'
    BY <1>1, SMT DEF IInv, SlotPartition, InHeap
  <2>2. \A u \in InHeap(heap)' : priority'[PID'] <= priority'[u]
    BY DEF IInv, TopPriorityRuns, KernelNeverParks
  <2>3. priority'[PID'] <= priority'[PID']
    BY <1>1, SMT
  <2>4. QED
    BY <2>1, <2>2, <2>3
<1>3. PID' \in Abstract!Best(ready, priority')
  BY <1>1, <1>2 DEF Abstract!Best
<1>4. SlotState' = [u \in Tids |-> IF u = PID' THEN "running"
                                   ELSE IF u \in ready THEN "ready"
                                   ELSE IF u \in blocked THEN "blocked"
                                   ELSE "free"]
  BY <1>1 DEF SlotState
<1>5. QED
  BY <1>3, <1>4 DEF Abstract!Dispatch

\* A trap after which the caller is ready and the tasks of S are awake.
LEMMA ContinueStep ==
  ASSUME IInv, IInv', UNCHANGED taskVars,
         NEW S \in SUBSET Tids, \A u \in S : Blocked(u),
         \A u \in Tids : Blocked(u)' <=> (u \notin S /\ Blocked(u))
  PROVE  Abstract!LNext
<1>1. live' = live /\ priority' = priority
  BY DEF taskVars
<1>2. \A u \in S : u \in live /\ u # PID
  BY DEF IInv, SlotPartition
<1>3. /\ Abstract!In("ready") \cup S \cup {PID} = {t \in live' : ~Blocked(t)'}
      /\ Abstract!In("blocked") \ S = {t \in Tids : Blocked(t)'}
  BY <1>1, <1>2, AbstractSets
<1>4. Abstract!Continue(PID, S)
  BY <1>1, <1>3, DispatchStep DEF Abstract!Continue
<1>5. S \in SUBSET Abstract!In("blocked") /\ PID \in Abstract!In("running")
  BY AbstractSets
<1>6. QED
  BY <1>4, <1>5 DEF Abstract!LNext

\* A trap after which the caller is blocked and the tasks of S are awake.
LEMMA SuspendStep ==
  ASSUME IInv, IInv', Traps, UNCHANGED taskVars,
         NEW S \in SUBSET Tids, \A u \in S : Blocked(u), \A a, b \in S : a = b,
         \A u \in Tids : Blocked(u)' <=> (u = PID \/ (u \notin S /\ Blocked(u)))
  PROVE  Abstract!LNext
<1>1. live' = live /\ priority' = priority
  BY DEF taskVars
<1>2. \A u \in S : u \in live /\ u # PID
  BY DEF IInv, SlotPartition
<1>3. /\ Abstract!In("ready") \cup S = {t \in live' : ~Blocked(t)'}
      /\ (Abstract!In("blocked") \ S) \cup {PID} = {t \in Tids : Blocked(t)'}
  BY <1>1, <1>2, AbstractSets
<1>4. Abstract!Suspend(PID, S)
  <2>1. Abstract!Dispatch(Abstract!In("ready") \cup S, (Abstract!In("blocked") \ S) \cup {PID})
    BY <1>3, DispatchStep
  <2>2. PID # Idle
    BY TrapFacts
  <2>3. QED
    BY <1>1, <2>1, <2>2 DEF Abstract!Suspend
<1>5. S \in SUBSET Abstract!In("blocked") /\ PID \in Abstract!In("running")
  BY AbstractSets
<1>6. QED
  BY <1>4, <1>5 DEF Abstract!LNext

\* A trap that only puts the caller back.
LEMMA RequeuesOnly ==
  ASSUME IInv, IInv', UNCHANGED <<taskVars, BLOCKED_LIST>>
  PROVE  Abstract!LNext
BY ContinueStep, {} \in SUBSET Tids DEF Blocked

\* A trap that only blocks the caller.
LEMMA BlocksOnly ==
  ASSUME IInv, IInv', Traps, UNCHANGED taskVars,
         BLOCKED_LIST' = block(BLOCKED_LIST, PID)
  PROVE  Abstract!LNext
<1>1. {} \in SUBSET Tids
  OBVIOUS
<1>2. \A u \in Tids : Blocked(u)' <=> (u = PID \/ Blocked(u))
  BY BlockDone
<1>3. QED
  BY <1>1, <1>2, SuspendStep

\* Exit() and Create() are the abstract Exit and Spawn.
LEMMA TaskStepImplements ==
  ASSUME IInv, IInv', TaskStep
  PROVE  Abstract!LNext
<1>1. CASE Yield \/ KernelCreateFails
  BY <1>1, RequeuesOnly DEF Yield, KernelCreateFails
<1>2. CASE Kill
  <2>1. Traps /\ live' = live \ {PID} /\ UNCHANGED <<priority, BLOCKED_LIST>>
    BY <1>2 DEF Kill
  <2>2. /\ Abstract!In("ready") = {t \in live' : ~Blocked(t)'}
        /\ Abstract!In("blocked") = {t \in Tids : Blocked(t)'}
    BY <2>1, AbstractSets DEF Blocked
  <2>3. Abstract!Exit(PID)
    BY <2>1, <2>2, DispatchStep, TrapFacts DEF Abstract!Exit
  <2>4. QED
    BY <2>3, AbstractSets DEF Abstract!LNext
<1>3. ASSUME NEW t \in FreeSlots, NEW p \in Priorities, KernelCreate(t, p)
      PROVE  Abstract!LNext
  <2>1. /\ Traps /\ live' = live \cup {t} /\ UNCHANGED BLOCKED_LIST
        /\ priority' = [priority EXCEPT ![t] = p]
    BY <1>3 DEF KernelCreate
  <2>2. ~Blocked(t) /\ t \notin live /\ t \in Tids
    BY SlotFacts DEF FreeSlots
  <2>3. /\ Abstract!In("ready") \cup {PID, t} = {u \in live' : ~Blocked(u)'}
        /\ Abstract!In("blocked") = {u \in Tids : Blocked(u)'}
    BY <2>1, <2>2, AbstractSets DEF Blocked
  <2>4. Abstract!Spawn(PID, t, p)
    BY <2>1, <2>3, DispatchStep, TrapFacts DEF Abstract!Spawn
  <2>5. p \in 0..255 /\ t \in Abstract!In("free")
    BY <2>2, AbstractSets, KernelAssumption
  <2>6. QED
    BY <2>4, <2>5, AbstractSets DEF Abstract!LNext
<1>4. QED
  BY <1>1, <1>2, <1>3 DEF TaskStep

\* Send, Receive and Reply block the caller, wake a task, or both.
LEMMA IpcStepImplements ==
  ASSUME IInv, IInv', SendStep \/ ReceiveStep \/ ReplyStep
  PROVE  Abstract!LNext
<1>1. ASSUME NEW dest \in Tids, SendRefused(dest) \/ ReplyRefused(dest)
      PROVE  Abstract!LNext
  BY <1>1, RequeuesOnly DEF SendRefused, ReplyRefused
<1>2. ASSUME NEW dest \in Tids, SendQueues(dest)
      PROVE  Abstract!LNext
  BY <1>2, BlocksOnly DEF SendQueues, SendAccepted
<1>3. ASSUME NEW dest \in Tids, SendDelivers(dest)
      PROVE  Abstract!LNext
  <2>1. /\ Traps /\ waiting_send[dest] = 1 /\ UNCHANGED taskVars
        /\ BLOCKED_LIST' = WakeList(block(BLOCKED_LIST, PID), {dest})
    BY <1>3 DEF SendDelivers, SendAccepted
  <2>2. dest # PID /\ Blocked(dest)
    BY <2>1, TrapFacts, OneReasonNow DEF OneReason
  <2>3. \A u \in Tids : Blocked(u)' <=> (u # dest /\ (u = PID \/ Blocked(u)))
    BY <2>1, <2>2, BlockWakeDone
  <2>4. {dest} \in SUBSET Tids
    OBVIOUS
  <2>5. \A u \in Tids : Blocked(u)' <=> (u = PID \/ (u \notin {dest} /\ Blocked(u)))
    BY <2>2, <2>3
  <2>6. QED
    BY <2>1, <2>2, <2>4, <2>5, SuspendStep
<1>4. CASE ReceiveParks
  BY <1>4, BlocksOnly DEF ReceiveParks
<1>5. CASE ReceivePops
  <2>1. /\ Traps /\ UNCHANGED taskVars
        /\ BLOCKED_LIST' = WakeList(block(BLOCKED_LIST, PID), {PID})
    BY <1>5 DEF ReceivePops
  <2>2. \A u \in Tids : Blocked(u)' <=> (u # PID /\ (u = PID \/ Blocked(u)))
    BY <2>1, TrapFacts, BlockWakeDone
  <2>3. \A u \in Tids : Blocked(u)' <=> (u \notin {} /\ Blocked(u))
    BY <2>1, <2>2, TrapFacts
  <2>4. QED
    BY <2>1, <2>3, ContinueStep, {} \in SUBSET Tids
<1>6. ASSUME NEW dest \in Tids, ReplyWakes(dest)
      PROVE  Abstract!LNext
  <2>1. /\ waiting_reply[dest] = 1 /\ UNCHANGED taskVars
        /\ BLOCKED_LIST' = WakeList(BLOCKED_LIST, {dest})
    BY <1>6 DEF ReplyWakes
  <2>2. {dest} \in SUBSET Tids /\ \A u \in {dest} : Blocked(u)
    BY <2>1, OneReasonNow DEF OneReason
  <2>3. \A u \in Tids : Blocked(u)' <=> (u \notin {dest} /\ Blocked(u))
    BY <2>1, <2>2, RequeueWakeDone
  <2>4. QED
    BY <2>1, <2>2, <2>3, ContinueStep
<1>7. QED
  BY <1>1, <1>2, <1>3, <1>4, <1>5, <1>6 DEF SendStep, ReceiveStep, ReplyStep

\* AwaitEvent() may block the caller; an interrupt wakes its whole wait list.
LEMMA EventStepImplements ==
  ASSUME IInv, IInv', EventStep
  PROVE  Abstract!LNext
<1>1. ASSUME NEW e, AwaitOff(e) \/ AwaitPending(e)
      PROVE  Abstract!LNext
  BY <1>1, RequeuesOnly DEF AwaitOff, AwaitPending
<1>2. ASSUME NEW e, AwaitBlocks(e)
      PROVE  Abstract!LNext
  BY <1>2, BlocksOnly DEF AwaitBlocks
<1>3. ASSUME NEW e \in Events, unblock_return(e), UNCHANGED taskVars
      PROVE  Abstract!LNext
  <2> DEFINE S == Range(pid_ls[e])
  <2>1. pid_ls[e] \in Seq(Tids)
    BY DEF IInv, TypeOK
  <2>2. S \in SUBSET Tids
    BY <2>1, ElementOfSeq, LenProperties DEF Range
  <2>3. \A u \in S : Blocked(u)
    BY <2>2, OneReasonNow DEF OneReason, Awaits
  <2>4. BLOCKED_LIST' = WakeList(BLOCKED_LIST, S)
    BY <1>3 DEF unblock_return
  <2>5. \A u \in Tids : Blocked(u)' <=> (u \notin S /\ Blocked(u))
    BY <1>3, <2>2, <2>3, <2>4, RequeueWakeDone
  <2>6. QED
    BY <1>3, <2>2, <2>3, <2>5, ContinueStep
<1>4. QED
  BY <1>1, <1>2, <1>3 DEF EventStep, ClockIRQ, UartIRQ, ApuIRQ, QueuedIRQ, Events

\* kmain's tasks: one of the best runs, the others are ready.
LEMMA InitImplements ==
  ASSUME Init
  PROVE  Abstract!LInit
<1>1. IInv
  BY InitIInv
<1>2. \A t \in Tids : ~Blocked(t)
  BY DEF Init, Blocked
<1>3. SlotState \in [Tids -> {"free", "ready", "running"}]
  BY <1>2 DEF SlotState
<1>4. Idle \in Tids /\ SlotState[Idle] # "free"
  BY <1>1, IdleIsTid DEF IInv, IdleRunnable, SlotState
<1>5. priority \in [Tids -> 0..255]
  BY <1>1 DEF IInv, TypeOK
<1>6. Abstract!In("ready") \cup Abstract!In("running") = live
  BY <1>1, <1>2, AbstractSets
<1>7. PID \in Abstract!Best(live, priority)
  BY DEF Init, Abstract!Best
<1>8. QED
  BY <1>1, <1>3, <1>4, <1>5, <1>6, <1>7, AbstractSets DEF Abstract!LInit

\* A step that changes no variable of the kernel changes no abstract one.
LEMMA StutterImplements ==
  ASSUME UNCHANGED vars
  PROVE  UNCHANGED Abstract!lcVars
BY DEF vars, taskVars, SlotState, Blocked, Abstract!lcVars

\* Whatever the tasks call and whenever interrupts come, what the scheduler
\* does is what Lifecycle allows.
THEOREM KernelImplementsLifecycle == Spec => ImplementsLifecycle
<1>1. Init => Abstract!LInit
  BY InitImplements
<1>2. IInv /\ IInv' /\ [Next]_vars => [Abstract!LNext]_(Abstract!lcVars)
  BY TaskStepImplements, IpcStepImplements, EventStepImplements, StutterImplements DEF Next
<1>3. QED
  BY <1>1, <1>2, KernelInvariant, PTL DEF Spec, ImplementsLifecycle, Abstract!LSpec

-----------------------------------------------------------------------------
(* Rendezvous. *)

\* Task s has the message of task t: in its mailbox, or received and not answered.
Has(s, t) == t \in Range(mailbox[s]) \/ t \in owed[s]

MailInv ==
  /\ sent_to \in [Tids -> Tids \cup {0}]
  /\ owed \in [Tids -> SUBSET Tids]
  /\ \A s \in Tids : Distinct(mailbox[s]) /\ s \notin Range(mailbox[s])
  /\ \A s \in Tids : s \notin live => mailbox[s] = <<>> /\ owed[s] = {}
  /\ \A s, t \in Tids :
       /\ Has(s, t) => waiting_reply[t] = 1 /\ sent_to[t] = s
       /\ ~(t \in Range(mailbox[s]) /\ t \in owed[s])
  /\ \A t \in Tids : waiting_reply[t] = 1 => sent_to[t] \in Tids /\ Has(sent_to[t], t)

RInv == IInv /\ MailInv

-----------------------------------------------------------------------------
\* A running task has no message under way, and its mailbox is a ring of tids.
LEMMA CallerFacts ==
  ASSUME RInv, Traps
  PROVE  /\ PID \in Tids /\ PID \in live /\ waiting_reply[PID] = 0
         /\ \A s \in Tids : ~Has(s, PID)
         /\ \A s \in Tids : mailbox[s] \in Seq(Tids) /\ Range(mailbox[s]) \subseteq Tids
<1>1. PID \in Tids /\ PID \in live /\ waiting_reply[PID] = 0
  BY TrapFacts DEF RInv
<1>2. \A s \in Tids : ~Has(s, PID)
  BY <1>1 DEF RInv, MailInv
<1>3. ASSUME NEW s \in Tids
      PROVE  mailbox[s] \in Seq(Tids) /\ Range(mailbox[s]) \subseteq Tids
  <2>1. mailbox[s] \in Seq(Tids)
    BY DEF RInv, IInv, TypeOK
  <2>2. DOMAIN mailbox[s] = 1..Len(mailbox[s]) /\ \A i \in 1..Len(mailbox[s]) : mailbox[s][i] \in Tids
    BY <2>1, LenProperties, ElementOfSeq
  <2>3. QED
    BY <2>1, <2>2 DEF Range
<1>4. QED
  BY <1>1, <1>2, <1>3

\* A task that waits for a reply is alive.
LEMMA WaitersLive ==
  ASSUME IInv, NEW t \in Tids, waiting_reply[t] = 1
  PROVE  t \in live
BY OneReasonNow, SlotFacts DEF OneReason

\* A step that moves no message.
LEMMA NoMailMoves ==
  ASSUME RInv, UNCHANGED <<mailbox, waiting_reply, sent_to, owed>>,
         \A s \in Tids : s \notin live' => s \notin live \/ (mailbox[s] = <<>> /\ owed[s] = {})
  PROVE  MailInv'
BY DEF RInv, MailInv, Has, Range, Distinct

\* Exit() by a task nobody waits for.
LEMMA ExitMail ==
  ASSUME RInv, RExit
  PROVE  MailInv'
BY NoMailMoves DEF RExit, Kill, ipcVars

\* A new task finds its slot as it was left: nobody's message is in it.
LEMMA CreateMail ==
  ASSUME RInv, NEW t \in FreeSlots, NEW prio \in Priorities, KernelCreate(t, prio),
         UNCHANGED <<sent_to, owed>>
  PROVE  MailInv'
<1>1. t \in Tids /\ t \notin live /\ mailbox[t] = <<>> /\ waiting_reply[t] # 1
  BY WaitersLive DEF FreeSlots, RInv, MailInv
<1>2. waiting_reply[t] = 0
  BY <1>1, SMT DEF RInv, IInv, TypeOK
<1>3. mailbox' = mailbox /\ waiting_reply' = waiting_reply
  BY <1>1, <1>2 DEF KernelCreate, RInv, IInv, TypeOK
<1>4. \A s \in Tids : s \notin live' => s \notin live
  BY DEF KernelCreate
<1>5. QED
  BY <1>3, <1>4, NoMailMoves

\* Interrupts and AwaitEvent() move no message.
LEMMA EventMail ==
  ASSUME RInv, EventStep, UNCHANGED <<sent_to, owed>>
  PROVE  MailInv'
<1>1. UNCHANGED <<taskVars, ipcVars>>
  <2>1. ASSUME NEW e, AwaitOff(e) \/ AwaitPending(e) \/ AwaitBlocks(e) \/ ClockIRQ(e)
        PROVE  UNCHANGED <<taskVars, ipcVars>>
    BY <2>1, Zenon DEF AwaitOff, AwaitPending, AwaitBlocks, ClockIRQ
  <2>2. ASSUME NEW e, NEW n, QueuedIRQ(e, n)
        PROVE  UNCHANGED <<taskVars, ipcVars>>
    BY <2>2 DEF QueuedIRQ
  <2>3. QED
    BY <2>1, <2>2, Zenon DEF EventStep, UartIRQ, ApuIRQ
<1>2. UNCHANGED <<live, mailbox, waiting_reply>>
  BY <1>1 DEF taskVars, ipcVars
<1>3. QED
  BY <1>2, NoMailMoves

\* Send(): the message of the caller is now with dest, in its mailbox or in its
\* hands, beside those dest had before.
LEMMA SenderWaits ==
  ASSUME RInv, Traps, NEW dest \in Tids, dest # PID, dest \in live, live' = live,
         waiting_reply' = [waiting_reply EXCEPT ![PID] = 1],
         sent_to' = [sent_to EXCEPT ![PID] = dest],
         owed' \in [Tids -> SUBSET Tids],
         \A s \in Tids : s # dest => mailbox'[s] = mailbox[s] /\ owed'[s] = owed[s],
         Distinct(mailbox'[dest]),
         Range(mailbox'[dest]) \subseteq Range(mailbox[dest]) \cup {PID},
         \A t \in Tids : Has(dest, t)' <=> Has(dest, t) \/ t = PID,
         \A t \in Tids : ~(t \in Range(mailbox'[dest]) /\ t \in owed'[dest])
  PROVE  MailInv'
<1>1. /\ \A t \in Tids : waiting_reply'[t] = IF t = PID THEN 1 ELSE waiting_reply[t]
      /\ \A t \in Tids : sent_to'[t] = IF t = PID THEN dest ELSE sent_to[t]
      /\ sent_to' \in [Tids -> Tids \cup {0}]
  BY CallerFacts DEF RInv, IInv, TypeOK, MailInv
<1>2. \A s, t \in Tids : Has(s, t)' <=> Has(s, t) \/ (s = dest /\ t = PID)
  BY DEF Has
<1>3. \A s \in Tids : Distinct(mailbox'[s]) /\ s \notin Range(mailbox'[s])
  BY DEF RInv, MailInv
<1>4. \A s \in Tids : s \notin live' => mailbox'[s] = <<>> /\ owed'[s] = {}
  BY DEF RInv, MailInv
<1>5. ASSUME NEW s \in Tids, NEW t \in Tids
      PROVE  /\ Has(s, t)' => waiting_reply'[t] = 1 /\ sent_to'[t] = s
             /\ ~(t \in Range(mailbox'[s]) /\ t \in owed'[s])
  <2>1. Has(s, t)' => waiting_reply'[t] = 1 /\ sent_to'[t] = s
    BY <1>1, <1>2, CallerFacts DEF RInv, MailInv
  <2>2. ~(t \in Range(mailbox'[s]) /\ t \in owed'[s])
    BY DEF RInv, MailInv
  <2>3. QED
    BY <2>1, <2>2
<1>6. ASSUME NEW t \in Tids, waiting_reply'[t] = 1
      PROVE  sent_to'[t] \in Tids /\ Has(sent_to[t], t)'
  <2>1. CASE t = PID
    BY <2>1, <1>1 DEF Has
  <2>2. CASE t # PID
    <3>1. sent_to'[t] = sent_to[t] /\ sent_to[t] \in Tids /\ Has(sent_to[t], t)
      BY <2>2, <1>1, <1>6 DEF RInv, MailInv
    <3>2. QED
      BY <3>1, <1>2 DEF Has
  <2>3. QED
    BY <2>1, <2>2
<1>7. QED
  BY <1>1, <1>3, <1>4, <1>5, <1>6 DEF RInv, MailInv

\* Send() to a task that is busy: the message joins its mailbox.
LEMMA SendQueuesMail ==
  ASSUME RInv, NEW dest \in Tids, dest # PID, SendQueues(dest),
         sent_to' = [sent_to EXCEPT ![PID] = dest], UNCHANGED owed
  PROVE  MailInv'
<1>1. /\ Traps /\ dest \in live /\ live' = live
      /\ waiting_reply' = [waiting_reply EXCEPT ![PID] = 1]
      /\ mailbox' = [mailbox EXCEPT ![dest] = Append(mailbox[dest], PID)]
  BY DEF SendQueues, SendAccepted, taskVars
<1>2. \A s \in Tids : mailbox'[s] = IF s = dest THEN Append(mailbox[dest], PID) ELSE mailbox[s]
  BY <1>1 DEF RInv, IInv, TypeOK
<1>3. Range(mailbox'[dest]) = Range(mailbox[dest]) \cup {PID} /\ Distinct(mailbox'[dest])
  BY <1>1, <1>2, CallerFacts, JoinsQueue DEF RInv, MailInv, Has
<1>4. \A t \in Tids : Has(dest, t)' <=> Has(dest, t) \/ t = PID
  BY <1>3 DEF Has
<1>5. \A t \in Tids : ~(t \in Range(mailbox'[dest]) /\ t \in owed'[dest])
  BY <1>1, <1>3, CallerFacts DEF RInv, MailInv, Has
<1>6. owed' \in [Tids -> SUBSET Tids] /\ \A s \in Tids : s # dest => mailbox'[s] = mailbox[s] /\ owed'[s] = owed[s]
  BY <1>2 DEF RInv, MailInv
<1>7. QED
  BY <1>1, <1>3, <1>4, <1>5, <1>6, SenderWaits

\* Send() to a task in Receive(): it gets the first message of its mailbox, the
\* caller's when it had no other.
LEMMA SendDeliversMail ==
  ASSUME RInv, NEW dest \in Tids, dest # PID, SendDelivers(dest),
         sent_to' = [sent_to EXCEPT ![PID] = dest],
         Hands(dest, Head(Append(mailbox[dest], PID)))
  PROVE  MailInv'
<1> DEFINE q == Append(mailbox[dest], PID)
<1>1. /\ Traps /\ dest \in live /\ live' = live
      /\ waiting_reply' = [waiting_reply EXCEPT ![PID] = 1]
      /\ mailbox' = [mailbox EXCEPT ![dest] = Tail(q)]
      /\ owed' = [owed EXCEPT ![dest] = @ \cup {Head(q)}]
  BY DEF SendDelivers, SendAccepted, taskVars, Hands
<1>2. /\ Range(q) = Range(mailbox[dest]) \cup {PID}
      /\ Head(q) \in Range(q)
      /\ Range(Tail(q)) = Range(q) \ {Head(q)}
      /\ Distinct(Tail(q))
  BY <1>1, CallerFacts, JoinsQueue DEF RInv, MailInv, Has
<1> HIDE DEF q
<1>3. Head(q) \in Tids
  BY <1>1, <1>2, CallerFacts
<1>4. /\ \A s \in Tids : mailbox'[s] = IF s = dest THEN Tail(q) ELSE mailbox[s]
      /\ \A s \in Tids : owed'[s] = IF s = dest THEN owed[dest] \cup {Head(q)} ELSE owed[s]
      /\ owed' \in [Tids -> SUBSET Tids]
  BY <1>1, <1>3 DEF RInv, IInv, TypeOK, MailInv
<1>5. \A t \in Tids : Has(dest, t)' <=> Has(dest, t) \/ t = PID
  BY <1>2, <1>4 DEF Has
<1>6. \A t \in Tids : ~(t \in Range(mailbox'[dest]) /\ t \in owed'[dest])
  BY <1>1, <1>2, <1>4, CallerFacts DEF RInv, MailInv, Has
<1>7. /\ \A s \in Tids : s # dest => mailbox'[s] = mailbox[s] /\ owed'[s] = owed[s]
      /\ Distinct(mailbox'[dest])
      /\ Range(mailbox'[dest]) \subseteq Range(mailbox[dest]) \cup {PID}
  BY <1>2, <1>4
<1>8. QED
  BY <1>1, <1>4, <1>5, <1>6, <1>7, SenderWaits

\* Receive() with mail: the first message passes from the mailbox to the caller.
LEMMA ReceivePopsMail ==
  ASSUME RInv, ReceivePops, Hands(PID, Head(mailbox[PID])), UNCHANGED sent_to
  PROVE  MailInv'
<1> DEFINE q == mailbox[PID]
<1>1. /\ Traps /\ live' = live /\ waiting_reply' = waiting_reply /\ q # <<>>
      /\ mailbox' = [mailbox EXCEPT ![PID] = Tail(q)]
      /\ owed' = [owed EXCEPT ![PID] = @ \cup {Head(q)}]
  BY NotEmpty DEF ReceivePops, taskVars, Hands
<1>2. q \in Seq(Tids) /\ Distinct(q) /\ Range(q) \subseteq Tids /\ PID \in Tids /\ PID \in live
  BY <1>1, CallerFacts DEF RInv, MailInv
<1>3. /\ Head(q) \in Range(q)
      /\ Range(Tail(q)) = Range(q) \ {Head(q)}
      /\ Distinct(Tail(q))
  BY <1>1, <1>2, LeavesQueue
<1>4. /\ \A s \in Tids : mailbox'[s] = IF s = PID THEN Tail(q) ELSE mailbox[s]
      /\ \A s \in Tids : owed'[s] = IF s = PID THEN owed[PID] \cup {Head(q)} ELSE owed[s]
      /\ owed' \in [Tids -> SUBSET Tids]
  BY <1>1, <1>2, <1>3 DEF RInv, IInv, TypeOK, MailInv
<1>5. \A s, t \in Tids : Has(s, t)' <=> Has(s, t)
  BY <1>2, <1>3, <1>4 DEF Has
<1>6. \A s \in Tids : Distinct(mailbox'[s]) /\ s \notin Range(mailbox'[s])
  BY <1>3, <1>4 DEF RInv, MailInv
<1>7. \A s \in Tids : s \notin live' => mailbox'[s] = <<>> /\ owed'[s] = {}
  BY <1>1, <1>2, <1>4 DEF RInv, MailInv
<1>8. \A s, t \in Tids :
        /\ Has(s, t)' => waiting_reply'[t] = 1 /\ sent_to'[t] = s
        /\ ~(t \in Range(mailbox'[s]) /\ t \in owed'[s])
  BY <1>1, <1>3, <1>4, <1>5 DEF RInv, MailInv
<1>9. \A t \in Tids : waiting_reply'[t] = 1 => sent_to'[t] \in Tids /\ Has(sent_to[t], t)'
  BY <1>1, <1>5 DEF RInv, MailInv, Has
<1>10. QED
  BY <1>4, <1>6, <1>7, <1>8, <1>9 DEF RInv, MailInv

\* Reply() to a task whose message the caller holds: it waits, so it is woken,
\* and its message is gone.
LEMMA ReplyMail ==
  ASSUME RInv, NEW dest \in Tids, RReply(dest)
  PROVE  MailInv'
<1>1. /\ PID \in Tids /\ dest \in owed[PID]
      /\ owed' = [owed EXCEPT ![PID] = @ \ {dest}] /\ sent_to' = sent_to
  BY DEF RReply, RInv, IInv, TypeOK
<1>2. Has(PID, dest) /\ waiting_reply[dest] = 1 /\ dest \in live
  BY <1>1, WaitersLive DEF RInv, MailInv, Has
<1>3. ReplyWakes(dest)
  BY <1>2 DEF RReply, ReplyRefused
<1>4. /\ live' = live /\ mailbox' = mailbox
      /\ \A t \in Tids : waiting_reply'[t] = IF t = dest THEN 0 ELSE waiting_reply[t]
  BY <1>3 DEF ReplyWakes, taskVars, RInv, IInv, TypeOK
<1>5. /\ \A s \in Tids : owed'[s] = IF s = PID THEN owed[PID] \ {dest} ELSE owed[s]
      /\ owed' \in [Tids -> SUBSET Tids]
  BY <1>1 DEF RInv, MailInv
<1>6. \A s, t \in Tids : Has(s, t)' <=> Has(s, t) /\ t # dest
  BY <1>1, <1>2, <1>4, <1>5 DEF RInv, MailInv, Has
<1>7. \A s \in Tids : Distinct(mailbox'[s]) /\ s \notin Range(mailbox'[s])
  BY <1>4 DEF RInv, MailInv
<1>8. \A s \in Tids : s \notin live' => mailbox'[s] = <<>> /\ owed'[s] = {}
  BY <1>4, <1>5 DEF RInv, MailInv
<1>9. \A s, t \in Tids :
        /\ Has(s, t)' => waiting_reply'[t] = 1 /\ sent_to'[t] = s
        /\ ~(t \in Range(mailbox'[s]) /\ t \in owed'[s])
  BY <1>1, <1>4, <1>5, <1>6 DEF RInv, MailInv
<1>10. \A t \in Tids : waiting_reply'[t] = 1 => sent_to'[t] \in Tids /\ Has(sent_to[t], t)'
  BY <1>1, <1>4, <1>6 DEF RInv, MailInv, Has
<1>11. QED
  BY <1>1, <1>5, <1>7, <1>8, <1>9, <1>10 DEF RInv, MailInv

-----------------------------------------------------------------------------
\* The services' steps are steps of the kernel.
LEMMA StepsOfKernel == [RNext]_rvVars => [Next]_vars
<1>1. RExit => Next
  BY DEF RExit, Next, TaskStep
<1>2. RSchedule => Next
  BY DEF RSchedule, Next, TaskStep
<1>3. (\E dest \in Tids : RSend(dest)) => Next
  BY DEF RSend, Next, SendStep
<1>4. RReceive => Next
  BY DEF RReceive, Next, ReceiveStep
<1>5. (\E dest \in Tids : RReply(dest)) => Next
  BY DEF RReply, Next, ReplyStep
<1>6. QED
  BY <1>1, <1>2, <1>3, <1>4, <1>5 DEF RNext, rvVars

\* At boot no message is under way.
LEMMA InitMail == RInit => MailInv
<1> SUFFICES ASSUME RInit PROVE MailInv
  OBVIOUS
<1>1. /\ mailbox = [t \in Tids |-> <<>>] /\ waiting_reply = [t \in Tids |-> 0]
      /\ sent_to = [t \in Tids |-> 0] /\ owed = [t \in Tids |-> {}]
  BY DEF RInit, Init
<1>2. \A t \in Tids : Range(mailbox[t]) = {} /\ Distinct(mailbox[t])
  BY <1>1 DEF Range, Distinct
<1>3. \A s, t \in Tids : ~Has(s, t)
  BY <1>1, <1>2 DEF Has
<1>4. QED
  BY <1>1, <1>2, <1>3 DEF MailInv

\* Every step of a task that follows the discipline keeps MailInv.
LEMMA StepMail ==
  ASSUME RInv, RNext
  PROVE  MailInv'
<1>1. CASE RExit
  BY <1>1, ExitMail
<1>2. CASE RSchedule
  <2>1. UNCHANGED <<sent_to, owed>>
    BY <1>2 DEF RSchedule
  <2>2. CASE Yield \/ KernelCreateFails
    BY <2>1, <2>2, NoMailMoves DEF Yield, KernelCreateFails, taskVars, ipcVars
  <2>3. CASE EventStep
    BY <2>1, <2>3, EventMail
  <2>4. ASSUME NEW t \in FreeSlots, NEW prio \in Priorities, KernelCreate(t, prio)
        PROVE  MailInv'
    BY <2>1, <2>4, CreateMail
  <2>5. QED
    BY <1>2, <2>2, <2>3, <2>4 DEF RSchedule
<1>3. ASSUME NEW dest \in Tids, RSend(dest)
      PROVE  MailInv'
  <2>1. CASE SendRefused(dest) /\ UNCHANGED <<sent_to, owed>>
    BY <2>1, NoMailMoves DEF SendRefused, taskVars, ipcVars
  <2>2. QED
    BY <1>3, <2>1, SendQueuesMail, SendDeliversMail DEF RSend
<1>4. CASE RReceive
  <2>1. CASE ReceiveParks /\ UNCHANGED <<sent_to, owed>>
    BY <2>1, NoMailMoves DEF ReceiveParks, taskVars
  <2>2. QED
    BY <1>4, <2>1, ReceivePopsMail DEF RReceive
<1>5. ASSUME NEW dest \in Tids, RReply(dest)
      PROVE  MailInv'
  BY <1>5, ReplyMail
<1>6. QED
  BY <1>1, <1>2, <1>3, <1>4, <1>5 DEF RNext

LEMMA NextRInv == RInv /\ [RNext]_rvVars => RInv'
<1> SUFFICES ASSUME RInv, [RNext]_rvVars PROVE RInv'
  OBVIOUS
<1>1. IInv'
  BY StepsOfKernel, NextIInv DEF RInv
<1>2. CASE RNext
  BY <1>1, <1>2, StepMail DEF RInv
<1>3. CASE UNCHANGED rvVars
  <2>1. UNCHANGED <<live, mailbox, waiting_reply, sent_to, owed>>
    BY <1>3 DEF rvVars, vars, taskVars, ipcVars
  <2>2. QED
    BY <1>1, <2>1, NoMailMoves DEF RInv
<1>4. QED
  BY <1>2, <1>3

\* RInv is inductive, so it holds of every reachable state.
THEOREM RendezvousInvariant == RSpec => []RInv
<1>1. RInit => RInv
  BY InitIInv, InitMail DEF RInit, RInv
<1>2. QED
  BY <1>1, NextRInv, PTL DEF RSpec

-----------------------------------------------------------------------------
\* The tasks in a mailbox are different ones, and its owner is not among them.
LEMMA FewerThanTasks ==
  ASSUME RInv, NEW s \in Tids
  PROVE  Len(mailbox[s]) < NUMPROCS
<1> DEFINE q == mailbox[s]
<1>1. q \in Seq(Tids) /\ Len(q) \in Nat /\ q \in [1..Len(q) -> Tids] /\ DOMAIN q = 1..Len(q)
  BY LenProperties DEF RInv, IInv, TypeOK
<1>2. NUMPROCS \in Nat
  BY KernelAssumption
<1>3. IsFiniteSet(Tids) /\ Cardinality(Tids) = NUMPROCS
  BY <1>2, FS_Interval DEF Tids
<1>4. IsFiniteSet(Tids \ {s}) /\ Cardinality(Tids \ {s}) = NUMPROCS - 1
  BY <1>3, FS_RemoveElement
<1>5. q \in Injection(1..Len(q), Tids \ {s})
  <2>1. Distinct(q) /\ s \notin Range(q)
    BY DEF RInv, MailInv
  <2>2. \A i \in 1..Len(q) : q[i] \in Tids \ {s}
    BY <1>1, <2>1 DEF Range
  <2>3. QED
    BY <1>1, <2>1, <2>2 DEF Injection, IsInjective, Distinct
<1> HIDE DEF q
<1>6. Cardinality(1..Len(q)) <= NUMPROCS - 1
  BY <1>4, <1>5, FS_Injection
<1>7. Cardinality(1..Len(q)) = Len(q)
  BY <1>1, FS_Interval
<1>8. QED
  BY <1>1, <1>2, <1>6, <1>7 DEF q

\* The places of a message that is queued are one position, and no hands.
LEMMA QueuedOnce ==
  ASSUME RInv, NEW t \in Tids, NEW s \in Tids, t \in Range(mailbox[s])
  PROVE  \E i \in 1..QUEUESIZE : Posts(t) = {<<s, i>>} /\ Holders(t) = {} /\ sent_to[t] = s
<1>1. PICK i \in DOMAIN mailbox[s] : mailbox[s][i] = t
  BY DEF Range
<1>2. i \in 1..QUEUESIZE
  <2>1. Len(mailbox[s]) \in Nat /\ DOMAIN mailbox[s] = 1..Len(mailbox[s])
    BY LenProperties DEF RInv, IInv, TypeOK
  <2>2. QED
    BY <1>1, <2>1, FewerThanTasks, RendezvousAssumption, KernelAssumption
<1>3. \A r \in Tids : Has(r, t) => r = s
  BY DEF RInv, MailInv, Has
<1>4. ASSUME NEW p \in Posts(t) PROVE p = <<s, i>>
  <2>1. p[1] \in Tids /\ p[2] \in DOMAIN mailbox[p[1]] /\ mailbox[p[1]][p[2]] = t /\ p = <<p[1], p[2]>>
    BY DEF Posts
  <2>2. p[1] = s
    BY <1>3, <2>1 DEF Has, Range
  <2>3. p[2] = i
    BY <1>1, <2>1, <2>2 DEF RInv, MailInv, Distinct
  <2>4. QED
    BY <2>1, <2>2, <2>3
<1>5. <<s, i>> \in Posts(t)
  BY <1>1, <1>2 DEF Posts
<1>6. Holders(t) = {} /\ sent_to[t] = s
  BY <1>3 DEF RInv, MailInv, Has, Holders
<1>7. QED
  BY <1>2, <1>4, <1>5, <1>6

\* MailInv, counted.
LEMMA RInvConserves == RInv => MessagesConserved
<1> SUFFICES ASSUME RInv, NEW t \in Tids
             PROVE  /\ Cardinality(Posts(t)) + Cardinality(Holders(t)) = waiting_reply[t]
                    /\ \A p \in Posts(t) : p[1] = sent_to[t]
                    /\ \A s \in Holders(t) : s = sent_to[t]
  BY FewerThanTasks DEF MessagesConserved
<1>1. waiting_reply[t] \in 0..1
  BY DEF RInv, IInv, TypeOK
<1>2. CASE \E s \in Tids : t \in Range(mailbox[s])
  <2>1. PICK s \in Tids : t \in Range(mailbox[s])
    BY <1>2
  <2>2. PICK i \in 1..QUEUESIZE : Posts(t) = {<<s, i>>} /\ Holders(t) = {} /\ sent_to[t] = s
    BY <2>1, QueuedOnce
  <2>3. waiting_reply[t] = 1
    BY <2>1 DEF RInv, MailInv, Has
  <2>4. Cardinality({}) = 0 /\ Cardinality({<<s, i>>}) = 1
    BY FS_EmptySet, FS_Singleton
  <2>5. /\ Cardinality(Posts(t)) = 1 /\ Cardinality(Holders(t)) = 0
        /\ \A p \in Posts(t) : p[1] = sent_to[t]
        /\ \A r \in Holders(t) : r = sent_to[t]
    BY <2>2, <2>4
  <2>6. QED
    BY <2>3, <2>5
<1>3. CASE \A s \in Tids : t \notin Range(mailbox[s])
  <2>1. Posts(t) = {}
    BY <1>3 DEF Posts, Range
  <2>2. CASE waiting_reply[t] = 1
    <3>1. Holders(t) = {sent_to[t]}
      BY <1>3, <2>2 DEF RInv, MailInv, Has, Holders
    <3>2. Cardinality({}) = 0 /\ Cardinality({sent_to[t]}) = 1
      BY FS_EmptySet, FS_Singleton
    <3>3. Cardinality(Posts(t)) = 0 /\ Cardinality(Holders(t)) = 1
      BY <2>1, <3>1, <3>2
    <3>4. QED
      BY <2>1, <2>2, <3>1, <3>3
  <2>3. CASE waiting_reply[t] = 0
    <3>1. Holders(t) = {}
      BY <2>3 DEF RInv, MailInv, Has, Holders
    <3>2. QED
      BY <2>1, <2>3, <3>1, FS_EmptySet
  <2>4. QED
    BY <1>1, <2>2, <2>3
<1>4. QED
  BY <1>2, <1>3

\* No message is lost, doubled or answered by another task, no reply is
\* refused, and no ring fills.
THEOREM NoMessageIsLost == RSpec => []MessagesConserved
<1>1. QED
  BY RendezvousInvariant, RInvConserves, PTL

-----------------------------------------------------------------------------
\* What a step makes of a mailbox: nothing, empty, one message more at its end,
\* or one less at its front, or both.
MovesOn(q, r) ==
  \/ r = q \/ r = <<>>
  \/ q # <<>> /\ r = Tail(q)
  \/ \E x \in Tids \ Range(q) : r = Append(q, x) \/ r = Tail(Append(q, x))

LEMMA MailboxMovesOn ==
  ASSUME RInv, [RNext]_rvVars, NEW s \in Tids
  PROVE  MovesOn(mailbox[s], mailbox'[s])
<1>1. CASE UNCHANGED mailbox
  BY <1>1 DEF MovesOn
<1>2. CASE RExit \/ UNCHANGED rvVars
  BY <1>1, <1>2 DEF RExit, Kill, rvVars, vars, ipcVars
<1>3. CASE RSchedule
  <2>1. CASE Yield \/ KernelCreateFails
    BY <1>1, <2>1 DEF Yield, KernelCreateFails, ipcVars
  <2>2. CASE EventStep
    <3>1. ASSUME NEW e, AwaitOff(e) \/ AwaitPending(e) \/ AwaitBlocks(e) \/ ClockIRQ(e)
          PROVE  UNCHANGED ipcVars
      BY <3>1, Zenon DEF AwaitOff, AwaitPending, AwaitBlocks, ClockIRQ
    <3>2. ASSUME NEW e, NEW n, QueuedIRQ(e, n) PROVE UNCHANGED ipcVars
      BY <3>2 DEF QueuedIRQ
    <3>3. UNCHANGED ipcVars
      BY <2>2, <3>1, <3>2, Zenon DEF EventStep, UartIRQ, ApuIRQ
    <3>4. QED
      BY <1>1, <3>3 DEF ipcVars
  <2>3. ASSUME NEW t \in FreeSlots, NEW prio \in Priorities, KernelCreate(t, prio)
        PROVE  MovesOn(mailbox[s], mailbox'[s])
    BY <2>3 DEF KernelCreate, MovesOn, RInv, IInv, TypeOK
  <2>4. QED
    BY <1>3, <2>1, <2>2, <2>3 DEF RSchedule
<1>4. ASSUME NEW dest \in Tids, RSend(dest)
      PROVE  MovesOn(mailbox[s], mailbox'[s])
  <2>1. Traps => PID \in Tids \ Range(mailbox[s])
    BY CallerFacts DEF Has
  <2>2. CASE SendRefused(dest)
    BY <1>1, <2>2 DEF SendRefused, ipcVars
  <2>3. CASE SendQueues(dest)
    BY <2>1, <2>3 DEF SendQueues, SendAccepted, MovesOn, RInv, IInv, TypeOK
  <2>4. CASE SendDelivers(dest)
    BY <2>1, <2>4 DEF SendDelivers, SendAccepted, MovesOn, RInv, IInv, TypeOK
  <2>5. QED
    BY <1>4, <2>2, <2>3, <2>4 DEF RSend
<1>5. CASE RReceive
  <2>1. CASE ReceiveParks
    BY <1>1, <2>1 DEF ReceiveParks
  <2>2. CASE ReceivePops
    BY <2>2, NotEmpty DEF ReceivePops, MovesOn, RInv, IInv, TypeOK
  <2>3. QED
    BY <1>5, <2>1, <2>2 DEF RReceive
<1>6. ASSUME NEW dest \in Tids, RReply(dest)
      PROVE  MovesOn(mailbox[s], mailbox'[s])
  BY <1>1, <1>6 DEF RReply, ReplyRefused, ReplyWakes, ipcVars
<1>7. QED
  BY <1>2, <1>3, <1>4, <1>5, <1>6 DEF RNext

\* The elements of q before the first t.
Before(q, t) == {q[i] : i \in {j \in DOMAIN q : \A k \in 1..j : q[k] # t}}

\* A task that joins the end of a mailbox comes before nobody.
LEMMA BeforeAppend ==
  ASSUME NEW q \in Seq(Tids), NEW x \in Tids, NEW t \in Range(q)
  PROVE  Before(Append(q, x), t) \subseteq Before(q, t)
<1> DEFINE r == Append(q, x)
<1>1. /\ Len(q) \in Nat /\ DOMAIN q = 1..Len(q) /\ DOMAIN r = 1..(Len(q) + 1)
      /\ \A i \in 1..Len(q) : r[i] = q[i]
  BY AppendProperties, LenProperties
<1>2. PICK m \in DOMAIN q : q[m] = t
  BY DEF Range
<1> HIDE DEF r
<1>3. ASSUME NEW j \in DOMAIN r, \A k \in 1..j : r[k] # t
      PROVE  r[j] \in Before(q, t)
  <2>1. j < m
    BY <1>1, <1>2, <1>3
  <2>2. j \in DOMAIN q /\ r[j] = q[j] /\ \A k \in 1..j : q[k] # t
    BY <1>1, <1>2, <1>3, <2>1
  <2>3. QED
    BY <2>2 DEF Before
<1>4. Before(r, t) \subseteq Before(q, t)
  BY <1>3 DEF Before
<1>5. QED
  BY <1>4 DEF r

\* Nor does anybody who stays behind when the first one leaves.
LEMMA BeforeTail ==
  ASSUME NEW q \in Seq(Tids), q # <<>>, Distinct(q), NEW t \in Range(Tail(q))
  PROVE  Before(Tail(q), t) \subseteq Before(q, t)
<1> DEFINE r == Tail(q)
<1>1. /\ Len(q) \in Nat /\ Len(q) > 0 /\ DOMAIN q = 1..Len(q)
      /\ DOMAIN r = 1..(Len(q) - 1)
      /\ \A i \in 1..(Len(q) - 1) : r[i] = q[i + 1]
      /\ Head(q) = q[1]
  BY EmptySeq, HeadTailProperties, LenProperties
<1>2. q[1] # t
  BY <1>1, LeavesQueue
<1> HIDE DEF r
<1>3. ASSUME NEW j \in DOMAIN r, \A k \in 1..j : r[k] # t
      PROVE  r[j] \in Before(q, t)
  <2>1. j + 1 \in DOMAIN q /\ r[j] = q[j + 1]
    BY <1>1
  <2>2. ASSUME NEW k \in 1..(j + 1) PROVE q[k] # t
    <3>1. CASE k = 1
      BY <1>2, <3>1
    <3>2. CASE k # 1
      <4>1. k - 1 \in 1..j /\ r[k - 1] = q[k]
        BY <1>1, <3>2
      <4>2. QED
        BY <1>3, <4>1
    <3>3. QED
      BY <3>1, <3>2
  <2>3. QED
    BY <2>1, <2>2 DEF Before
<1>4. Before(r, t) \subseteq Before(q, t)
  BY <1>3 DEF Before
<1>5. QED
  BY <1>4 DEF r

\* So nobody gets ahead of a task that stays in the mailbox.
LEMMA MovesOnInOrder ==
  ASSUME NEW q \in Seq(Tids), Distinct(q), NEW r, MovesOn(q, r),
         NEW t \in Range(q), t \in Range(r)
  PROVE  Before(r, t) \subseteq Before(q, t)
<1>1. CASE r = q
  BY <1>1
<1>2. CASE r = <<>>
  BY <1>2 DEF Before
<1>3. CASE q # <<>> /\ r = Tail(q)
  BY <1>3, BeforeTail
<1>4. ASSUME NEW x \in Tids \ Range(q), r = Append(q, x) \/ r = Tail(Append(q, x))
      PROVE  Before(r, t) \subseteq Before(q, t)
  <2> DEFINE a == Append(q, x)
  <2>1. a \in Seq(Tids) /\ a # <<>> /\ Distinct(a)
    BY <1>4, AppendProperties, JoinsQueue
  <2>2. Before(a, t) \subseteq Before(q, t)
    BY BeforeAppend
  <2> HIDE DEF a
  <2>3. r = Tail(a) => Before(r, t) \subseteq Before(a, t)
    BY <2>1, BeforeTail
  <2>4. QED
    BY <1>4, <2>2, <2>3 DEF a
<1>5. QED
  BY <1>1, <1>2, <1>3, <1>4 DEF MovesOn

\* Messages are received in the order in which they were sent: no step lets a
\* task get ahead of one whose message is queued already.
THEOREM NobodyOvertakes == RSpec => NoOvertaking
<1>1. ASSUME RInv, [RNext]_rvVars
      PROVE  \A s, t \in Tids :
               (t \in Range(mailbox[s]) /\ t \in Range(mailbox'[s])) =>
                  Ahead(s, t)' \subseteq Ahead(s, t)
  <2> SUFFICES ASSUME NEW s \in Tids, NEW t \in Tids,
                      t \in Range(mailbox[s]), t \in Range(mailbox'[s])
               PROVE  Ahead(s, t)' \subseteq Ahead(s, t)
    OBVIOUS
  <2>1. mailbox[s] \in Seq(Tids) /\ Distinct(mailbox[s])
    BY <1>1 DEF RInv, MailInv, IInv, TypeOK
  <2>2. Before(mailbox'[s], t) \subseteq Before(mailbox[s], t)
    BY <1>1, <2>1, MailboxMovesOn, MovesOnInOrder
  <2>3. QED
    BY <2>2 DEF Ahead, Before
<1>2. QED
  BY <1>1, RendezvousInvariant, PTL DEF RSpec, NoOvertaking
=============================================================================
