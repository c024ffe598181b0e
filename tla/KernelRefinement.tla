-------------------------- MODULE KernelRefinement --------------------------
(***************************************************************************)
(* Kernel implements Lifecycle: the state of a slot is read off pcpointer, *)
(* PID and BLOCKED_LIST, the heap and every wait list are hidden.          *)
(***************************************************************************)
EXTENDS Kernel

\* What a slot is, in the abstract specification.
SlotState ==
  [t \in Tids |-> IF t \notin live THEN "free"
                  ELSE IF t = PID THEN "running"
                  ELSE IF Blocked(t) THEN "blocked" ELSE "ready"]

Abstract == INSTANCE Lifecycle WITH
  Slots <- Tids, Prio <- 0..255, IdleTask <- Idle,
  state <- SlotState, prio <- priority

\* Every trap of the kernel is a step of Lifecycle (or leaves it as it is):
\* a task that blocks is never run before something wakes it, one that is
\* woken is never forgotten, and the best ready task runs.
ImplementsLifecycle == Abstract!LSpec
=============================================================================
