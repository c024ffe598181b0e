----------------------------- MODULE Lifecycle ------------------------------
(***************************************************************************)
(* What the kernel promises a task, with no heap, list or mailbox: each    *)
(* slot is free or holds a task that runs, is ready or is blocked; exactly *)
(* one task runs; each trap moves the running task and those it wakes or   *)
(* creates, then runs a ready task of the best priority.                   *)
(* Module Kernel implements it.                                            *)
(***************************************************************************)
EXTENDS Integers

CONSTANTS Slots, Prio, IdleTask

VARIABLES
  state,  \* what each slot is: "free", "ready", "running" or "blocked"
  prio    \* the priority of the task in a slot

lcVars == <<state, prio>>

In(s) == {t \in Slots : state[t] = s}

Best(S, p) == {t \in S : \A u \in S : p[t] <= p[u]}

LInit ==
  /\ state \in [Slots -> {"free", "ready", "running"}]
  /\ prio \in [Slots -> Prio]
  /\ state[IdleTask] # "free"
  /\ \E r \in Best(In("ready") \cup In("running"), prio) : In("running") = {r}

\* The tasks of `ready' are ready; the one that runs next is one of the best.
Dispatch(ready, blocked) ==
  \E t \in Best(ready, prio') :
    state' = [u \in Slots |-> IF u = t THEN "running"
                              ELSE IF u \in ready THEN "ready"
                              ELSE IF u \in blocked THEN "blocked"
                              ELSE "free"]

\* The running task stays ready; the blocked tasks of `woken' become ready.
Continue(r, woken) ==
  /\ prio' = prio
  /\ Dispatch(In("ready") \cup woken \cup {r}, In("blocked") \ woken)

\* The running task blocks; it wakes at most the task it sends to.
Suspend(r, woken) ==
  /\ r # IdleTask
  /\ \A a, b \in woken : a = b
  /\ prio' = prio
  /\ Dispatch(In("ready") \cup woken, (In("blocked") \ woken) \cup {r})

Exit(r) ==
  /\ r # IdleTask
  /\ prio' = prio
  /\ Dispatch(In("ready"), In("blocked"))

Spawn(r, child, p) ==
  /\ r # IdleTask
  /\ prio' = [prio EXCEPT ![child] = p]
  /\ Dispatch(In("ready") \cup {r, child}, In("blocked"))

LNext ==
  \E r \in In("running") :
    \/ \E woken \in SUBSET In("blocked") : Continue(r, woken) \/ Suspend(r, woken)
    \/ Exit(r)
    \/ \E child \in In("free"), p \in Prio : Spawn(r, child, p)

LSpec == LInit /\ [][LNext]_lcVars
=============================================================================
