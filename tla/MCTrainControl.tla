--------------------------- MODULE MCTrainControl ---------------------------
(***************************************************************************)
(* A loop A1, branch 1, merge, A2, branch 2, back to A1.  Curved, branch 1 *)
(* leads to B1 at a dead end and branch 2 back to the merge.  A1 is near   *)
(* enough to B1 to stop there, but not to A2.                              *)
(***************************************************************************)
EXTENDS TrainControl

Node(type, num, edge) == [type |-> type, num |-> num, edge |-> edge]
To(dest, dist) == [dest |-> dest, dist |-> dist]

mcTrack ==
  0 :> Node("sensor", 0, <<To(3, 350)>>) @@
  1 :> Node("sensor", 1, <<To(4, 100)>>) @@
  2 :> Node("sensor", 2, <<>>) @@
  3 :> Node("branch", 1, <<To(5, 200), To(2, 200)>>) @@
  4 :> Node("branch", 2, <<To(0, 100), To(5, 300)>>) @@
  5 :> Node("merge", 1, <<To(1, 100)>>)

mcSpeeds == {0, 8}
=============================================================================
