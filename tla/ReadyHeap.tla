----------------------------- MODULE ReadyHeap ------------------------------
(***************************************************************************)
(* The array heap behind the scheduler (common/kernel/sched_stubs.c):      *)
(* entries ordered by priority, then by the microsecond at which they were *)
(* enqueued, read from the two halves of the system timer.                 *)
(* Module Kernel abstracts it to the set of best entries; this module      *)
(* checks the array algorithm and adds the order among equal priorities.   *)
(***************************************************************************)
EXTENDS Integers, FiniteSets

CONSTANTS
  Pids,        \* tasks; each is in the heap at most once (Kernel!SlotPartition)
  Priorities,
  LoRange,     \* values of the low half of the timer (2^32)
  MaxNow       \* bound: microseconds the model lets pass

Capacity == Cardinality(Pids)
NoTime == -1   \* (uint64_t)-1, the stamp of an unused READY_QUEUE slot

ASSUME HeapAssumption ==
  /\ IsFiniteSet(Pids) /\ Capacity > 0 /\ Priorities \subseteq Int
  /\ LoRange \in Nat \ {0} /\ MaxNow \in Nat

VARIABLES
  harr,     \* READY_QUEUE: slots 0..Capacity-1
  size,
  now,      \* the system timer, both halves
  arrived   \* history: when each task of the heap was really enqueued

heapVars == <<harr, size, now, arrived>>

Slots == 0..(Capacity - 1)
Entry == [pid : Pids \cup {0}, priority : Priorities \cup {255}, time : Int]
Arrays == [Slots -> Entry]
Unused == [pid |-> 0, priority |-> 255, time |-> NoTime]

\* 1: a goes first; 2: b goes first; 0: neither.
compare_state(a, b) ==
  IF a.priority # b.priority THEN IF a.priority < b.priority THEN 1 ELSE 2
  ELSE IF a.time = NoTime THEN 2
  ELSE IF b.time = NoTime \/ a.time < b.time THEN 1
  ELSE IF a.time > b.time THEN 2 ELSE 0

swap_state(h, i, j) == [h EXCEPT ![i] = h[j], ![j] = h[i]]

\* C's (i - 1) / 2 truncates towards zero.
Parent(i) == IF i = 0 THEN 0 ELSE (i - 1) \div 2

bubbleUp(harray, slot) ==
  LET up[i \in Slots] ==
        [h \in Arrays |->
           IF compare_state(h[i], h[Parent(i)]) = 1
           THEN up[Parent(i)][swap_state(h, i, Parent(i))]
           ELSE h]
  IN  up[slot][harray]

\* Seeded fault: the right child replaces i whenever it goes before i.
SmallestRight(h, n, i) ==
  LET l == 2 * i + 1
      r == 2 * i + 2
      m == IF l < n /\ compare_state(h[l], h[i]) = 1 THEN l ELSE i
  IN IF r < n /\ compare_state(h[r], h[i]) = 1 THEN r ELSE m

\* The one of slot i and its children that goes first; the right child only
\* if it goes before the left one.
Smallest(h, n, i) ==
  LET l == 2 * i + 1
      r == 2 * i + 2
      m == IF l < n /\ compare_state(h[l], h[i]) = 1 THEN l ELSE i
  IN IF r < n /\ compare_state(h[r], h[m]) = 1 THEN r ELSE m

bubbleDown(harray, n, slot) ==
  LET down[i \in Slots] ==
        [h \in Arrays |->
           LET m == Smallest(h, n, i)
           IN  IF m = i THEN h ELSE down[m][swap_state(h, i, m)]]
  IN  down[slot][harray]

InHeap == {harr[i].pid : i \in 0..(size - 1)}

HInit ==
  /\ harr = [i \in Slots |-> Unused]
  /\ size = 0
  /\ now = 0
  /\ arrived = [p \in {} |-> 0]

Tick ==
  /\ now < MaxNow
  /\ now' = now + 1
  /\ UNCHANGED <<harr, size, arrived>>

\* get_timerHI(), then get_timerLO(): the timer may advance between the two.
Stamp(hiRead, loRead) == LoRange * (hiRead \div LoRange) + (loRead % LoRange)

insertKey(p, prio) ==
  /\ p \notin InHeap
  /\ \E later \in now..MaxNow :
       LET e == [pid |-> p, priority |-> prio, time |-> Stamp(now, later)]
       IN /\ later <= now + 1
          /\ harr' = bubbleUp([harr EXCEPT ![size] = e], size)
          /\ now' = later
          /\ arrived' = [q \in InHeap \cup {p} |-> IF q = p THEN later ELSE arrived[q]]
  /\ size' = size + 1

\* With one entry left the array is not touched.
extractMin ==
  /\ size > 0
  /\ size' = size - 1
  /\ harr' = IF size = 1 THEN harr
             ELSE bubbleDown([harr EXCEPT ![0] = harr[size - 1]], size - 1, 0)
  /\ arrived' = [q \in InHeap \ {harr[0].pid} |-> arrived[q]]
  /\ UNCHANGED now

HNext ==
  \/ Tick
  \/ \E p \in Pids, prio \in Priorities : insertKey(p, prio)
  \/ extractMin

HSpec == HInit /\ [][HNext]_heapVars

-----------------------------------------------------------------------------
\* The array holds each enqueued task once: sifting loses and duplicates none.
HoldsAllOnce == InHeap = DOMAIN arrived /\ Cardinality(InHeap) = size

Queued == {harr[i] : i \in 0..(size - 1)}
Leaves(e) == e \in Queued /\ e.pid \notin InHeap'

\* The low half of the timer does not wrap while an insert reads the halves;
\* between two inserts it may.
NoWrapWhileRead == [][size' > size => now' \div LoRange = now \div LoRange]_heapVars

\* The entry that is extracted is one of the best priority and among those the
\* one that was enqueued first, as in "a simple FIFO list"
\* (servers/q_learning/qlearning_sched.h), and no other leaves the heap.  It
\* holds while the low half of the timer does not wrap between its reads.
BestThenOldestFirst ==
  [][/\ HoldsAllOnce'
     /\ \A e, f \in Queued :
          Leaves(e) => \/ e.priority < f.priority
                       \/ e.priority = f.priority /\ arrived[e.pid] <= arrived[f.pid]
    ]_heapVars
=============================================================================
