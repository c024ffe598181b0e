----------------------------- MODULE MCEventBus ------------------------------
(* One topic with two slots, and an entry in each pool: a callback and a task. *)
EXTENDS EventBus

mcTopics == {"sensor"}
mcObservers == {7}
=============================================================================
