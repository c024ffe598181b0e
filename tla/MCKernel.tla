------------------------------ MODULE MCKernel ------------------------------
(***************************************************************************)
(* Small instances of Kernel.  Three slots: the idle task, one task kmain  *)
(* creates, and one slot that tasks come and go in.                        *)
(***************************************************************************)
EXTENDS KernelRefinement

mcPriorities == {0, 255}
mcBoot == <<0, 255>>
mcClock == {"clock"}
mcUart == {"uart"}
mcOff == {"off"}
mcNone == {}
=============================================================================
