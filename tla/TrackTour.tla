------------------------------ MODULE TrackTour -----------------------------
(***************************************************************************)
(* A train sent from sensor to sensor of the real track: what route.c      *)
(* finds there, and what tc1.c measures and predicts when the train hits   *)
(* the sensors of its route (process_sensor).  The messages of this are    *)
(* in TrainControl; the times a prediction is turned into are left out.    *)
(***************************************************************************)
EXTENDS TrackData

VARIABLES
  layout,   \* the track
  s,        \* TC1State: last_node, route, pred_next, pred_dist
  dist_mm,  \* what the last update of the velocity took for the distance
  turnout   \* external: the arm each turnout is set to

tourVars == <<layout, s, dist_mm, turnout>>

Tracks == [A |-> TrackA, B |-> TrackB]
track == Tracks[layout]

INSTANCE Route

\* track_edge.reverse of edge d of node n: from the reverse of its end to the
\* reverse of its start.
ReverseOf(t, n, d) ==
  LET m == reverse(t[n].edge[d].dest)
  IN  {t[m].edge[c] : c \in {k \in DOMAIN t[m].edge : t[m].edge[k].dest = reverse(n)}}

On(l) == INSTANCE Route WITH track <- Tracks[l]
ASSUME TracksFit == \A l \in DOMAIN Tracks : On(l)!TrackFits

\* Every edge of both tables can be run back: there is one reverse edge, and it
\* is as long.
ASSUME TracksReverse ==
  \A l \in DOMAIN Tracks : \A n \in DOMAIN Tracks[l] : \A d \in DOMAIN Tracks[l][n].edge :
    {e.dist : e \in ReverseOf(Tracks[l], n, d)} = {Tracks[l][n].edge[d].dist}

\* dist_to_next_sensor, for a node of the route.
dist_to_next_sensor(nodes, at) ==
  LET i == CHOOSE k \in DOMAIN nodes : nodes[k] = at
      j == CHOOSE k \in i + 1..Len(nodes) :
             nodes[k] \in Sensors /\ \A l \in i + 1..k - 1 : nodes[l] \notin Sensors
  IN  route_dist_remaining(SubSeq(nodes, 1, j), at)

\* Seeded fault: an edge is always taken for the straight one.
CrossedStraight(nodes, from, hit) ==
  LET i == CHOOSE k \in DOMAIN nodes : nodes[k] = from
      j == CHOOSE k \in i..Len(nodes) : nodes[k] = hit
  IN  MapThenSumSet(LAMBDA k : track[nodes[k]].edge[1].dist, i..j - 1)

\* The distance from the last sensor to this one, along the route if both are
\* on it (to the end of the route if only the first is), else 0 or one edge.
Crossed(nodes, from, hit) ==
  LET upto == IF hit \in Range(nodes)
              THEN SubSeq(nodes, 1, CHOOSE k \in DOMAIN nodes : nodes[k] = hit)
              ELSE nodes
      along == IF from \in Range(upto) THEN route_dist_remaining(upto, from) ELSE 0
  IN  IF along = 0 /\ track[from].edge[1].dest = hit THEN track[from].edge[1].dist ELSE along

\* The sensor the straight edges lead to.
RunningPrediction(n) ==
  LET run[k \in Nodes] ==
        IF k \in Sensors \/ track[k].edge = <<>> THEN k ELSE run[track[k].edge[1].dest]
      nx == run[track[n].edge[1].dest]
  IN  IF nx \in Sensors THEN [next |-> nx, dist |-> track[n].edge[1].dist]
      ELSE [next |-> NoNode, dist |-> 0]

RoutingPrediction(nodes, hit) ==
  LET nx == route_next_sensor(nodes, hit)
  IN  IF nx = NoNode THEN [next |-> NoNode, dist |-> 0]
      ELSE [next |-> nx, dist |-> dist_to_next_sensor(nodes, hit)]

TourInit ==
  /\ layout \in DOMAIN Tracks
  /\ \E n \in 0..79 : s = [last_node |-> n, route |-> NoRoute, pred |-> RunningPrediction(n)]
  /\ dist_mm = 0
  /\ turnout = [k \in Turnouts |-> 2]

\* route_apply_switches
route_apply_switches(sw) ==
  [k \in Turnouts |->
     LET I == {i \in DOMAIN sw : sw[i][1] = k}
     IN  IF I = {} THEN turnout[k] ELSE sw[Max(I)][2]]

\* handle_goto, from where the train is.  The prediction waits for the next hit.
Goes(dest) ==
  LET r == route_find(s.last_node, dest)
  IN  /\ s.route = NoRoute /\ r # NoRoute
      /\ s' = [s EXCEPT !.route = r]
      /\ turnout' = route_apply_switches(r.sw)
      /\ UNCHANGED <<layout, dist_mm>>

\* External: the next sensor as the turnouts are, and how far it is.
Ahead(from) ==
  LET arm(n) == track[n].edge[IF track[n].type = "branch" THEN turnout[track[n].num] ELSE 1]
      run[n \in Nodes, mm \in Nat] ==
        IF n \in Sensors \/ track[n].edge = <<>> THEN <<n, mm>>
        ELSE run[arm(n).dest, mm + arm(n).dist]
  IN  run[arm(from).dest, arm(from).dist]

\* process_sensor of the next sensor of a routed train.
Hits ==
  LET hit == Ahead(s.last_node)[1]
  IN  /\ s.route # NoRoute /\ s.last_node # Last(s.route.nodes)
      /\ hit \in Sensors
      /\ dist_mm' = Crossed(s.route.nodes, s.last_node, hit)
      /\ s' = [s EXCEPT !.last_node = hit, !.pred = RoutingPrediction(s.route.nodes, hit)]
      /\ UNCHANGED <<layout, turnout>>

TourNext == (\E dest \in 0..79 : Goes(dest)) \/ Hits

TourSpec == TourInit /\ [][TourNext]_tourVars

-----------------------------------------------------------------------------
(* Properties. *)

\* Every route leads along edges, and sets each branch it passes to the arm it
\* takes.
RoutesLeadAlong == s.route = NoRoute => LeadsAlong(s'.route)

\* The train hits the sensors the route has, to its destination, after the
\* distances predicted and measured, and the distance left shrinks by them.
HitsAsPredicted ==
  LET mm == Ahead(s.last_node)[2]
      left(n) == route_dist_remaining(s.route.nodes, n)
  IN  /\ s'.last_node = route_next_sensor(s.route.nodes, s.last_node)
      /\ dist_mm' = mm
      /\ left(s.last_node) = mm + left(s'.last_node)
      /\ s.last_node # s.route.nodes[1] =>
           s.pred = [next |-> s'.last_node, dist |-> mm]

\* A route that is found is one of the track, and a train on it goes where the
\* controller measures and predicts it.
TourIsPredicted == [][RoutesLeadAlong /\ (Hits => HitsAsPredicted)]_tourVars
=============================================================================
