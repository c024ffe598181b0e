--------------------------- MODULE MCClockServer ----------------------------
(* Instances of ClockServer: four clients and room for three of them. *)
EXTENDS ClockServer

mcClients == {"c1", "c2", "c3", "c4"}
=============================================================================
