------------------------------- MODULE Kernel -------------------------------
(***************************************************************************)
(* The SmpOS kernel on core 0: task table, ready heap, blocked list,       *)
(* Send/Receive/Reply mailboxes and the interrupt wait queues              *)
(* (layer1-processes/syscall.c, common/kernel/*.c).                        *)
(*                                                                         *)
(* User tasks are unconstrained: whichever task runs may issue any system  *)
(* call with any task as its argument.  Every action is one trap into the  *)
(* kernel, from the exception entry to the Begin() that resumes a task, so *)
(* every action ends in Schedule().                                        *)
(*                                                                         *)
(* Abstracted: register values and message bytes (a message is the tid of  *)
(* its sender), run-time accounting, the process container of a task.  The *)
(* order of equal-priority tasks in the heap is left open here (two        *)
(* entries may carry the same microsecond); module ReadyHeap has it.       *)
(***************************************************************************)
EXTENDS Integers, Sequences, FiniteSets, Functions

CONSTANTS
  NUMPROCS,      \* size of the task table (64)
  QUEUESIZE,     \* slots of a mailbox ring (255)
  Priorities,    \* priorities tasks are created with
  Boot,          \* priorities of the tasks kmain creates, in tid order
  Idle,          \* tid of the idle task, one of those
  ClockEvents,   \* events a tick of which is dropped when nobody waits
  UartEvents,    \* events that are queued when nobody waits: UARTINTER,
  ApuEvents,     \* and the completion interrupts of the accelerator cores
  OffEvents,     \* interrupt ids the GIC has not enabled
  MaxBurst,      \* bound: extra characters one UART interrupt drains
  MaxPending     \* bound: events of one kind queued in the model

Tids == 1..NUMPROCS
NoTask == -1
Events == ClockEvents \cup UartEvents \cup ApuEvents

ASSUME KernelAssumption ==
  /\ NUMPROCS \in Nat \ {0}
  /\ QUEUESIZE \in Nat /\ QUEUESIZE > 1
  /\ Priorities \subseteq 0..255 /\ 0 \in Priorities
  /\ Boot \in Seq(Priorities) /\ Len(Boot) <= NUMPROCS
  /\ Idle \in 1..Len(Boot)
  /\ MaxBurst \in Nat /\ MaxPending \in Nat

VARIABLES
  PID,           \* the running task; NoTask once Schedule() spins in wfi
  live,          \* task slots whose pcpointer is not NULL
  priority,      \* PROCS[t].priority
  heap,          \* number of entries READY_HEAP holds for each task
  BLOCKED_LIST,  \* per task slot, the pid and priority written by block()
  mailbox,       \* message_recieved[] from head to tail, as sender tids
  waiting_reply, \* PROCS[t].waiting_reply
  waiting_send,  \* PROCS[t].waiting_send
  pid_ls,        \* AWAIT_INTERRUPT[e].pid_ls[0..len-1]
  eventq_len     \* AWAIT_INTERRUPT[e].eventq_len

taskVars == <<live, priority>>
ipcVars == <<mailbox, waiting_reply, waiting_send>>
eventVars == <<pid_ls, eventq_len>>
vars == <<PID, taskVars, heap, BLOCKED_LIST, ipcVars, eventVars>>

(***************************************************************************)
(* The ready heap and the blocked list                                     *)
(***************************************************************************)
InHeap(h) == {t \in Tids : h[t] > 0}

\* The heap's entries, one pair per entry.
Entries(h) == {p \in Tids \X (1..NUMPROCS) : p[2] <= h[p[1]]}

scrSchedule(h, t) == [h EXCEPT ![t] = @ + 1]

block(bl, t) == [bl EXCEPT ![t] = [pid |-> t, priority |-> priority[t]]]

\* unblock_ind() returns early for these: it tests the priority too.
NotBlocked(bl, t) == bl[t].pid = 0 /\ bl[t].priority = priority[t]

\* unblock_ind() for every task of S: the heap, and the blocked list, after.
WakeHeap(h, bl, S) ==
  [t \in Tids |-> IF t \in S /\ ~NotBlocked(bl, t) THEN h[t] + 1 ELSE h[t]]
WakeList(bl, S) ==
  [t \in Tids |-> IF t \in S /\ ~NotBlocked(bl, t)
                  THEN [bl[t] EXCEPT !.pid = 0] ELSE bl[t]]

\* rescue_orphaned_tasks(): runnable tasks the heap has lost.
Orphans(lv, bl, h) == {t \in lv : bl[t].pid = 0 /\ h[t] = 0}
Rescue(h, bl, lv) ==
  [t \in Tids |-> IF t \in Orphans(lv, bl, h) THEN h[t] + 1 ELSE h[t]]

Top(h, prio) ==
  {t \in InHeap(h) : \A u \in InHeap(h) : prio[t] <= prio[u]}

\* Schedule() with heap h: run a task of the best priority, after a rescue
\* when the heap is empty; with nothing to run, spin in wfi for ever
\* (interrupts are masked in the kernel).
Schedule(h) ==
  LET h1 == IF InHeap(h) = {} THEN Rescue(h, BLOCKED_LIST', live') ELSE h
  IN \/ /\ InHeap(h1) = {}
        /\ PID' = NoTask
        /\ heap' = h1
     \/ \E t \in Top(h1, priority') :
          /\ PID' = t
          /\ heap' = [h1 EXCEPT ![t] = @ - 1]

(***************************************************************************)
(* kmain: the boot tasks are created in tid order, then Schedule()         *)
(***************************************************************************)
Init ==
  /\ live = 1..Len(Boot)
  /\ priority = [t \in Tids |-> IF t \in 1..Len(Boot) THEN Boot[t] ELSE 0]
  /\ BLOCKED_LIST = [t \in Tids |-> [pid |-> 0, priority |-> 0]]
  /\ mailbox = [t \in Tids |-> <<>>]
  /\ waiting_reply = [t \in Tids |-> 0]
  /\ waiting_send = [t \in Tids |-> 0]
  /\ pid_ls = [e \in Events |-> <<>>]
  /\ eventq_len = [e \in Events |-> 0]
  /\ PID \in {t \in live : \A u \in live : priority[t] <= priority[u]}
  /\ heap = [t \in Tids |-> IF t \in live \ {PID} THEN 1 ELSE 0]

\* A task other than idle traps: idle_entry only executes wfi.
Traps == PID \in Tids \ {Idle}

(***************************************************************************)
(* Scheduling calls                                                        *)
(***************************************************************************)

\* svc 1, the getters 3, 4, 8 and 11-14, an unknown svc or exception class,
\* and an interrupt no case of ExceptionASYNC handles.
Yield ==
  /\ PID # NoTask
  /\ UNCHANGED <<taskVars, BLOCKED_LIST, ipcVars, eventVars>>
  /\ Schedule(scrSchedule(heap, PID))

\* svc 0: the task is not enqueued again; its mailbox stays as it is.
Kill ==
  /\ Traps
  /\ live' = live \ {PID}
  /\ UNCHANGED <<priority, BLOCKED_LIST, ipcVars, eventVars>>
  /\ Schedule(heap)

FreeSlots == Tids \ live

\* svc 2, 9 and 20: the caller is enqueued, then the lowest free slot is
\* filled, its IPC state reset, and the child enqueued.
KernelCreate(t, prio) ==
  /\ Traps
  /\ \A u \in FreeSlots : t <= u
  /\ live' = live \cup {t}
  /\ priority' = [priority EXCEPT ![t] = prio]
  /\ mailbox' = [mailbox EXCEPT ![t] = <<>>]
  /\ waiting_reply' = [waiting_reply EXCEPT ![t] = 0]
  /\ waiting_send' = [waiting_send EXCEPT ![t] = 0]
  /\ UNCHANGED <<BLOCKED_LIST, eventVars>>
  /\ Schedule(scrSchedule(scrSchedule(heap, PID), t))

\* svc 2, 9 and 20 with a full table.  (An invalid process id is a Yield; what
\* svc 9 then writes beside the table is outside the model.)
KernelCreateFails ==
  /\ Traps
  /\ FreeSlots = {}
  /\ UNCHANGED <<taskVars, BLOCKED_LIST, ipcVars, eventVars>>
  /\ Schedule(scrSchedule(heap, PID))

(***************************************************************************)
(* Send, Receive, Reply                                                    *)
(***************************************************************************)

\* recieve_helper() tests head == tail, which a full ring satisfies too.
LooksEmpty(q) == Len(q) % QUEUESIZE = 0

\* The destination is dead, or its ring is full: the caller stays ready.
SendRefused(dest) ==
  /\ Traps
  /\ dest \notin live \/ Len(mailbox[dest]) >= QUEUESIZE
  /\ UNCHANGED <<taskVars, BLOCKED_LIST, ipcVars, eventVars>>
  /\ Schedule(scrSchedule(heap, PID))

SendAccepted(dest) ==
  /\ Traps
  /\ dest \in live
  /\ Len(mailbox[dest]) < QUEUESIZE
  /\ waiting_reply' = [waiting_reply EXCEPT ![PID] = 1]

\* Seeded fault: the message is put at the head of the ring.
SendJumpsQueue(dest) ==
  LET q == <<PID>> \o mailbox[dest]
  IN /\ SendAccepted(dest)
     /\ waiting_send[dest] # 1 \/ LooksEmpty(q)
     /\ mailbox' = [mailbox EXCEPT ![dest] = q]
     /\ BLOCKED_LIST' = block(BLOCKED_LIST, PID)
     /\ UNCHANGED <<taskVars, waiting_send, eventVars>>
     /\ Schedule(heap)

\* The message is queued; the sender blocks.
SendQueues(dest) ==
  LET q == Append(mailbox[dest], PID)
  IN /\ SendAccepted(dest)
     /\ waiting_send[dest] # 1 \/ LooksEmpty(q)
     /\ mailbox' = [mailbox EXCEPT ![dest] = q]
     /\ BLOCKED_LIST' = block(BLOCKED_LIST, PID)
     /\ UNCHANGED <<taskVars, waiting_send, eventVars>>
     /\ Schedule(heap)

\* Seeded faults in SendDelivers: waiting_send stays set; the message stays in
\* the ring; the receiver is not unblocked.
SendStillWaiting(dest) ==
  LET q == Append(mailbox[dest], PID)
      bl == block(BLOCKED_LIST, PID)
  IN /\ SendAccepted(dest)
     /\ waiting_send[dest] = 1
     /\ ~LooksEmpty(q)
     /\ mailbox' = [mailbox EXCEPT ![dest] = Tail(q)]
     /\ BLOCKED_LIST' = WakeList(bl, {dest})
     /\ UNCHANGED <<taskVars, waiting_send, eventVars>>
     /\ Schedule(WakeHeap(heap, bl, {dest}))

SendKeepsMessage(dest) ==
  LET q == Append(mailbox[dest], PID)
      bl == block(BLOCKED_LIST, PID)
  IN /\ SendAccepted(dest)
     /\ waiting_send[dest] = 1
     /\ ~LooksEmpty(q)
     /\ mailbox' = [mailbox EXCEPT ![dest] = q]
     /\ waiting_send' = [waiting_send EXCEPT ![dest] = 0]
     /\ BLOCKED_LIST' = WakeList(bl, {dest})
     /\ UNCHANGED <<taskVars, eventVars>>
     /\ Schedule(WakeHeap(heap, bl, {dest}))

SendForgetsReceiver(dest) ==
  LET q == Append(mailbox[dest], PID)
  IN /\ SendAccepted(dest)
     /\ waiting_send[dest] = 1
     /\ ~LooksEmpty(q)
     /\ mailbox' = [mailbox EXCEPT ![dest] = Tail(q)]
     /\ waiting_send' = [waiting_send EXCEPT ![dest] = 0]
     /\ BLOCKED_LIST' = block(BLOCKED_LIST, PID)
     /\ UNCHANGED <<taskVars, eventVars>>
     /\ Schedule(heap)

\* The destination is parked in Receive: it gets the head of its ring.
SendDelivers(dest) ==
  LET q == Append(mailbox[dest], PID)
      bl == block(BLOCKED_LIST, PID)
  IN /\ SendAccepted(dest)
     /\ waiting_send[dest] = 1
     /\ ~LooksEmpty(q)
     /\ mailbox' = [mailbox EXCEPT ![dest] = Tail(q)]
     /\ waiting_send' = [waiting_send EXCEPT ![dest] = 0]
     /\ BLOCKED_LIST' = WakeList(bl, {dest})
     /\ UNCHANGED <<taskVars, eventVars>>
     /\ Schedule(WakeHeap(heap, bl, {dest}))

ReceiveParks ==
  /\ Traps
  /\ LooksEmpty(mailbox[PID])
  /\ waiting_send' = [waiting_send EXCEPT ![PID] = 1]
  /\ BLOCKED_LIST' = block(BLOCKED_LIST, PID)
  /\ UNCHANGED <<taskVars, mailbox, waiting_reply, eventVars>>
  /\ Schedule(heap)

\* block(), pop the head, unblock_ind().
ReceivePops ==
  LET bl == block(BLOCKED_LIST, PID)
  IN /\ Traps
     /\ ~LooksEmpty(mailbox[PID])
     /\ mailbox' = [mailbox EXCEPT ![PID] = Tail(@)]
     /\ waiting_send' = [waiting_send EXCEPT ![PID] = 0]
     /\ BLOCKED_LIST' = WakeList(bl, {PID})
     /\ UNCHANGED <<taskVars, waiting_reply, eventVars>>
     /\ Schedule(WakeHeap(heap, bl, {PID}))

\* The target is dead or waits for no reply.
ReplyRefused(dest) ==
  /\ Traps
  /\ dest \notin live \/ waiting_reply[dest] # 1
  /\ UNCHANGED <<taskVars, BLOCKED_LIST, ipcVars, eventVars>>
  /\ Schedule(scrSchedule(heap, PID))

\* Seeded fault: the task that replies is not enqueued again.
ReplyDropsCaller(dest) ==
  /\ Traps
  /\ dest \in live
  /\ waiting_reply[dest] = 1
  /\ waiting_reply' = [waiting_reply EXCEPT ![dest] = 0]
  /\ BLOCKED_LIST' = WakeList(BLOCKED_LIST, {dest})
  /\ UNCHANGED <<taskVars, mailbox, waiting_send, eventVars>>
  /\ Schedule(WakeHeap(heap, BLOCKED_LIST, {dest}))

\* Only waiting_reply is tested: any task may reply, even before the message
\* was received.
ReplyWakes(dest) ==
  /\ Traps
  /\ dest \in live
  /\ waiting_reply[dest] = 1
  /\ waiting_reply' = [waiting_reply EXCEPT ![dest] = 0]
  /\ BLOCKED_LIST' = WakeList(BLOCKED_LIST, {dest})
  /\ UNCHANGED <<taskVars, mailbox, waiting_send, eventVars>>
  /\ Schedule(WakeHeap(scrSchedule(heap, PID), BLOCKED_LIST, {dest}))

(***************************************************************************)
(* AwaitEvent and the interrupts                                           *)
(***************************************************************************)
AwaitOff(e) ==
  /\ Traps
  /\ e \in OffEvents
  /\ UNCHANGED <<taskVars, BLOCKED_LIST, ipcVars, eventVars>>
  /\ Schedule(scrSchedule(heap, PID))

\* Seeded faults: the queue length is decremented, or the task blocks, without
\* a look at the queue.
AwaitUnderflows(e) ==
  /\ Traps
  /\ eventq_len' = [eventq_len EXCEPT ![e] = @ - 1]
  /\ UNCHANGED <<taskVars, BLOCKED_LIST, ipcVars, pid_ls>>
  /\ Schedule(scrSchedule(heap, PID))

AwaitBlocksAlways(e) ==
  /\ Traps
  /\ pid_ls' = [pid_ls EXCEPT ![e] = Append(@, PID)]
  /\ BLOCKED_LIST' = block(BLOCKED_LIST, PID)
  /\ UNCHANGED <<taskVars, ipcVars, eventq_len>>
  /\ Schedule(heap)

AwaitPending(e) ==
  /\ Traps
  /\ eventq_len[e] # 0
  /\ eventq_len' = [eventq_len EXCEPT ![e] = @ - 1]
  /\ UNCHANGED <<taskVars, BLOCKED_LIST, ipcVars, pid_ls>>
  /\ Schedule(scrSchedule(heap, PID))

AwaitBlocks(e) ==
  /\ Traps
  /\ eventq_len[e] = 0
  /\ pid_ls' = [pid_ls EXCEPT ![e] = Append(@, PID)]
  /\ BLOCKED_LIST' = block(BLOCKED_LIST, PID)
  /\ UNCHANGED <<taskVars, ipcVars, eventq_len>>
  /\ Schedule(heap)

\* Seeded fault: the list is not emptied.
unblock_keeps_list(e) ==
  /\ BLOCKED_LIST' = WakeList(BLOCKED_LIST, Range(pid_ls[e]))
  /\ UNCHANGED pid_ls
  /\ Schedule(WakeHeap(scrSchedule(heap, PID), BLOCKED_LIST, Range(pid_ls[e])))

\* unblock_return(): everybody on the list is made ready, the list emptied.
unblock_return(e) ==
  /\ pid_ls' = [pid_ls EXCEPT ![e] = <<>>]
  /\ BLOCKED_LIST' = WakeList(BLOCKED_LIST, Range(pid_ls[e]))
  /\ Schedule(WakeHeap(scrSchedule(heap, PID), BLOCKED_LIST, Range(pid_ls[e])))

\* The timer interrupt: with nobody waiting the tick is lost.
ClockIRQ(e) ==
  /\ PID # NoTask
  /\ UNCHANGED <<taskVars, ipcVars, eventq_len>>
  /\ unblock_return(e)

\* `n' events are left in the queue; those that wait are woken.
QueuedIRQ(e, n) ==
  /\ PID # NoTask
  /\ n <= MaxPending
  /\ eventq_len' = [eventq_len EXCEPT ![e] = n]
  /\ UNCHANGED <<taskVars, ipcVars>>
  /\ unblock_return(e)

\* The event that wakes nobody is queued.
Unclaimed(e) == IF pid_ls[e] = <<>> THEN 1 ELSE 0

\* The UART interrupt first queues the `burst' extra characters it drains.
UartIRQ(e, burst) == QueuedIRQ(e, eventq_len[e] + burst + Unclaimed(e))

ApuIRQ(e) == QueuedIRQ(e, eventq_len[e] + Unclaimed(e))

-----------------------------------------------------------------------------
TaskStep ==
  \/ Yield
  \/ Kill
  \/ \E t \in FreeSlots, prio \in Priorities : KernelCreate(t, prio)
  \/ KernelCreateFails

SendStep ==
  \E dest \in Tids :
    \/ SendRefused(dest)
    \/ SendQueues(dest)
    \/ SendDelivers(dest)

ReceiveStep ==
  \/ ReceiveParks
  \/ ReceivePops

ReplyStep ==
  \E dest \in Tids :
    \/ ReplyRefused(dest)
    \/ ReplyWakes(dest)

EventStep ==
  \/ \E e \in OffEvents : AwaitOff(e)
  \/ \E e \in Events : AwaitPending(e)
  \/ \E e \in Events : AwaitBlocks(e)
  \/ \E e \in ClockEvents : ClockIRQ(e)
  \/ \E e \in UartEvents, burst \in 0..MaxBurst : UartIRQ(e, burst)
  \/ \E e \in ApuEvents : ApuIRQ(e)

Next == TaskStep \/ SendStep \/ ReceiveStep \/ ReplyStep \/ EventStep

Spec == Init /\ [][Next]_vars
-----------------------------------------------------------------------------
(***************************************************************************)
(* What the kernel must keep true whatever the tasks do                    *)
(***************************************************************************)

\* The values the kernel's variables range over.
TypeOK ==
  /\ PID \in Tids \cup {NoTask}
  /\ live \subseteq Tids
  /\ priority \in [Tids -> 0..255]
  /\ heap \in [Tids -> Nat]
  /\ BLOCKED_LIST \in [Tids -> [pid : 0..NUMPROCS, priority : 0..255]]
  /\ mailbox \in [Tids -> Seq(Tids)]
  /\ waiting_reply \in [Tids -> 0..1]
  /\ waiting_send \in [Tids -> 0..1]
  /\ pid_ls \in [Events -> Seq(Tids)]
  /\ eventq_len \in [Events -> Nat]

Blocked(t) == BLOCKED_LIST[t].pid # 0

\* Every live task is running, in the ready heap exactly once, or blocked,
\* and only one of the three; a free slot is none of them.  So the heap never
\* holds a task twice and rescue_orphaned_tasks() never finds one to rescue.
SlotPartition ==
  \A t \in Tids :
    /\ Blocked(t) => BLOCKED_LIST[t].pid = t
    /\ heap[t] = IF t \in live /\ t # PID /\ ~Blocked(t) THEN 1 ELSE 0
    /\ (t = PID \/ Blocked(t)) => t \in live
    /\ ~(t = PID /\ Blocked(t))

Awaits(t) == \E e \in Events : t \in Range(pid_ls[e])

\* A blocked task waits for a reply, for a message or for an interrupt, for
\* exactly one of them, and stands on one wait list at most once; a task that
\* is not blocked waits for nothing.  A task that waited for two things would
\* be put into the ready heap twice; one that waited for none, never again.
BlockedForOneReason ==
  /\ \A t \in Tids :
       /\ Blocked(t) <=> (waiting_reply[t] = 1 \/ waiting_send[t] = 1 \/ Awaits(t))
       /\ ~(waiting_reply[t] = 1 /\ waiting_send[t] = 1)
       /\ ~(waiting_reply[t] = 1 /\ Awaits(t))
       /\ ~(waiting_send[t] = 1 /\ Awaits(t))
  /\ \A e \in Events : \A i, j \in DOMAIN pid_ls[e] :
       pid_ls[e][i] = pid_ls[e][j] => i = j
  /\ \A e, f \in Events : e # f => Range(pid_ls[e]) \cap Range(pid_ls[f]) = {}

\* No task sleeps in AwaitEvent while an event of its kind is queued: an
\* interrupt between two calls of AwaitEvent is not slept through.
NoSleepOnQueuedEvent ==
  \A e \in Events : pid_ls[e] # <<>> => eventq_len[e] = 0

\* insertKey_state_heap() silently drops an entry when the heap is full.  The
\* heap always has room, so no runnable task is ever dropped.
HeapHasRoom == Cardinality(Entries(heap)) < NUMPROCS

\* Schedule() never enters the wfi loop, where interrupts are masked and
\* nothing could make a task ready again: the idle task is always runnable.
KernelNeverParks == PID # NoTask
=============================================================================
