------------------------------ MODULE TrackData -----------------------------
(***************************************************************************)
(* The two layouts of the train track (track_data.c), as tables of         *)
(* <<node an edge leads to, millimetres>>.  A node is its index in         *)
(* track[]: 0..79 the sensors A1..E16, then the turnouts, each a branch    *)
(* and the merge it is in the other direction, then the enter and exit     *)
(* nodes.  A turnout is <<its number, straight arm, curved arm, the edge   *)
(* of the merge>>.  Layout B, which nothing initialises, is given by its   *)
(* differences from layout A.                                              *)
(*                                                                         *)
(* The pointers to reverse nodes and edges follow a rule in all of the     *)
(* table, so `reverse' and `ReverseOf' stand for them; names are left out. *)
(***************************************************************************)
EXTENDS Integers, Sequences

TrackA_SensorsA == <<
    <<103, 231>>, <<133, 504>>, <<106, 43>>, <<31, 437>>, <<85, 231>>,
    <<25, 642>>, <<27, 470>>, <<83, 229>>, <<23, 289>>, <<81, 229>>,
    <<81, 518>>, <<139, 43>>, <<87, 236>>, <<131, 325>>, <<135, 144>>,
    <<87, 417>> >>

TrackA_SensorsB == <<
    <<61, 404>>, <<111, 231>>, <<33, 201>>, <<111, 239>>, <<50, 404>>,
    <<105, 231>>, <<9, 289>>, <<137, 43>>, <<4, 642>>, <<141, 50>>,
    <<7, 470>>, <<143, 50>>, <<119, 239>>, <<63, 201>>, <<2, 437>>,
    <<108, 50>> >>

TrackA_SensorsC == <<
    <<19, 201>>, <<117, 246>>, <<129, 514>>, <<89, 239>>, <<90, 61>>,
    <<109, 433>>, <<115, 231>>, <<84, 128>>, <<109, 326>>, <<110, 128>>,
    <<104, 120>>, <<107, 333>>, <<70, 875>>, <<100, 43>>, <<59, 404>>,
    <<91, 239>> >>

TrackA_SensorsD == <<
    <<121, 246>>, <<67, 201>>, <<99, 239>>, <<21, 404>>, <<69, 376>>,
    <<97, 239>>, <<97, 309>>, <<71, 384>>, <<75, 369>>, <<95, 316>>,
    <<47, 404>>, <<93, 231>>, <<17, 404>>, <<113, 239>>, <<28, 201>>,
    <<113, 246>> >>

TrackA_SensorsE == <<
    <<123, 239>>, <<78, 201>>, <<48, 201>>, <<99, 239>>, <<53, 376>>,
    <<98, 50>>, <<54, 384>>, <<45, 875>>, <<95, 239>>, <<76, 376>>,
    <<57, 369>>, <<92, 50>>, <<112, 43>>, <<72, 376>>, <<105, 246>>,
    <<64, 201>> >>

TrackA_Turnouts1 == <<
    <<1, <<11, 518>>, <<8, 229>>, <<83, 188>>>>,
    <<2, <<80, 188>>, <<6, 229>>, <<85, 185>>>>,
    <<3, <<5, 231>>, <<82, 185>>, <<38, 128>>>>,
    <<4, <<14, 417>>, <<13, 236>>, <<103, 185>>>>,
    <<5, <<34, 239>>, <<93, 371>>, <<114, 155>>>>,
    <<6, <<46, 239>>, <<115, 371>>, <<37, 61>>>>,
    <<7, <<58, 231>>, <<89, 371>>, <<74, 50>>>> >>

TrackA_Turnouts2 == <<
    <<8, <<56, 316>>, <<73, 239>>, <<96, 155>>>>,
    <<9, <<55, 309>>, <<52, 239>>, <<94, 155>>>>,
    <<10, <<51, 239>>, <<66, 239>>, <<68, 50>>>>,
    <<11, <<102, 188>>, <<107, 495>>, <<44, 43>>>>,
    <<12, <<1, 231>>, <<86, 185>>, <<101, 188>>>>,
    <<13, <<20, 231>>, <<79, 246>>, <<43, 120>>>>,
    <<14, <<101, 495>>, <<42, 333>>, <<3, 43>>>> >>

TrackA_Turnouts3 == <<
    <<15, <<36, 433>>, <<41, 326>>, <<30, 50>>>>,
    <<16, <<16, 231>>, <<18, 239>>, <<40, 128>>>>,
    <<17, <<60, 239>>, <<62, 246>>, <<77, 43>>>>,
    <<18, <<39, 231>>, <<91, 371>>, <<88, 155>>>>,
    <<153, <<125, 253>>, <<32, 246>>, <<119, 0>>>>,
    <<154, <<116, 0>>, <<29, 239>>, <<122, 0>>>>,
    <<155, <<127, 282>>, <<49, 246>>, <<123, 0>>>>,
    <<156, <<120, 0>>, <<65, 239>>, <<118, 0>>>> >>

TrackA_Ends == <<
    <<117, 253>>, <<121, 282>>, <<35, 514>>, <<12, 325>>, <<0, 504>>,
    <<15, 144>>, <<22, 43>>, <<10, 43>>, <<24, 50>>, <<26, 50>> >>

TrackB_SensorsA == [TrackA_SensorsA EXCEPT
    ![11] = <<81, 282>>, ![12] = <<15, 814>>, ![15] = <<10, 814>>,
    ![16] = <<87, 275>>]

TrackB_SensorsB == [TrackA_SensorsB EXCEPT
    ![8] = <<135, 43>>, ![10] = <<137, 50>>, ![12] = <<139, 50>>]

TrackB_SensorsC == [TrackA_SensorsC EXCEPT
    ![13] = <<70, 780>>, ![14] = <<100, 50>>]

TrackB_SensorsD == [TrackA_SensorsD EXCEPT
    ![5] = <<69, 282>>, ![6] = <<97, 229>>, ![8] = <<71, 376>>,
    ![9] = <<75, 282>>]

TrackB_SensorsE == [TrackA_SensorsE EXCEPT
    ![5] = <<53, 282>>, ![7] = <<54, 376>>, ![8] = <<45, 780>>,
    ![10] = <<76, 282>>, ![11] = <<57, 282>>, ![12] = <<92, 43>>,
    ![14] = <<72, 282>>]

TrackB_Turnouts1 == [TrackA_Turnouts1 EXCEPT
    ![1] = <<1, <<11, 282>>, <<8, 229>>, <<83, 188>>>>,
    ![4] = <<4, <<14, 275>>, <<13, 236>>, <<103, 185>>>>,
    ![7] = <<7, <<58, 231>>, <<89, 371>>, <<74, 43>>>>]

TrackB_Turnouts2 == [TrackA_Turnouts2 EXCEPT
    ![2] = <<9, <<55, 309>>, <<52, 229>>, <<94, 155>>>>,
    ![4] = <<11, <<102, 188>>, <<107, 495>>, <<44, 50>>>>]

TrackB_Turnouts3 == TrackA_Turnouts3

TrackB_Ends == <<
    <<117, 253>>, <<121, 282>>, <<35, 514>>, <<12, 325>>, <<0, 504>>,
    <<22, 43>>, <<24, 50>>, <<26, 50>> >>

-----------------------------------------------------------------------------

Edge(e) == [dest |-> e[1], dist |-> e[2]]

\* init_tracka and init_trackb: the nodes a layout's tables describe.
Layout(sensors, turnouts, ends) ==
  LET first == Len(sensors) + 2 * Len(turnouts)
      node(n) ==
        IF n < Len(sensors)
        THEN [type |-> "sensor", num |-> n, edge |-> <<Edge(sensors[n + 1])>>]
        ELSE IF n < first
        THEN LET t == turnouts[(n - Len(sensors)) \div 2 + 1]
             IN  IF n % 2 = 0
                 THEN [type |-> "branch", num |-> t[1], edge |-> <<Edge(t[2]), Edge(t[3])>>]
                 ELSE [type |-> "merge", num |-> t[1], edge |-> <<Edge(t[4])>>]
        ELSE IF n % 2 = 0
        THEN [type |-> "enter", num |-> 0, edge |-> <<Edge(ends[(n - first) \div 2 + 1])>>]
        ELSE [type |-> "exit", num |-> 0, edge |-> <<>>]
  IN  [n \in 0..first + 2 * Len(ends) - 1 |-> node(n)]

TrackA ==
  Layout(TrackA_SensorsA \o TrackA_SensorsB \o TrackA_SensorsC \o TrackA_SensorsD \o TrackA_SensorsE,
         TrackA_Turnouts1 \o TrackA_Turnouts2 \o TrackA_Turnouts3, TrackA_Ends)

TrackB ==
  Layout(TrackB_SensorsA \o TrackB_SensorsB \o TrackB_SensorsC \o TrackB_SensorsD \o TrackB_SensorsE,
         TrackB_Turnouts1 \o TrackB_Turnouts2 \o TrackB_Turnouts3, TrackB_Ends)

\* The same place, seen in the other direction.
reverse(n) == IF n % 2 = 0 THEN n + 1 ELSE n - 1
=============================================================================
