---------------------------- MODULE MCRendezvous ----------------------------
(* Instances of Rendezvous: one server, clients, the idle task. *)
EXTENDS Rendezvous

mcPriorities == {0, 255}
mcPriority == {0}
mcBoot == <<0, 0, 255>>
mcServers == {1}
mcClock == {"clock"}
mcApu == {"apu"}
mcNone == {}
=============================================================================
