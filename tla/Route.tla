-------------------------------- MODULE Route -------------------------------
(***************************************************************************)
(* The track graph and the searches on it that the train controller uses   *)
(* (track.h, route.c).  A node is its index in track[]; the sensors come   *)
(* first.  Names, enter nodes and the reverse pointers, which route.c      *)
(* never reads, are left out.                                              *)
(***************************************************************************)
EXTENDS Integers, Sequences, SequencesExt, FiniteSetsExt

CONSTANT track  \* [0..n-1 -> [type, num, edge: sequence of [dest, dist]]]

Nodes == DOMAIN track
Sensors == {n \in Nodes : track[n].type = "sensor"}
Branches == {n \in Nodes : track[n].type = "branch"}
Turnouts == {track[b].num : b \in Branches}

\* What holds of both layouts.  Only a branch has two edges; route.c finds the
\* table from a sensor's number; no two turnouts have the same number.
TrackFits ==
  /\ IsFiniteSet(Nodes)
  /\ \A n \in Nodes :
       /\ track[n].edge \in Seq([dest : Nodes, dist : Nat]) /\ Len(track[n].edge) <= 2
       /\ track[n].type = "branch" <=> Len(track[n].edge) = 2
  /\ \A n \in Sensors : track[n].num = n
  /\ \A b1, b2 \in Branches : track[b1].num = track[b2].num => b1 = b2

ASSUME TrackAssumption == TrackFits

NoNode == -1
NoRoute == [nodes |-> <<>>, sw |-> <<>>]

\* bfs_q: a node, where in the queue the node it was reached from is, and by
\* which edge (1 is DIR_STRAIGHT and DIR_AHEAD, 2 is DIR_CURVED).
Entry(n, parent, d) == [node |-> n, parent |-> parent, dir |-> d]

Visited(q) == {q[i].node : i \in DOMAIN q}

Found(q, to) == Len(q) > 1 /\ q[Len(q)].node = to

\* Appends the node that edge d of the h-th entry leads to, if it has not been
\* visited, unless `to' has been found.
Visit(q, h, d, to) ==
  LET edge == track[q[h].node].edge
  IN  IF d > Len(edge) \/ Found(q, to) \/ edge[d].dest \in Visited(q) THEN q
      ELSE Append(q, Entry(edge[d].dest, h, d))

\* At most TRACK_MAX entries: no node is visited twice.
Entries == [node : Nodes, parent : Nat, dir : {1, 2}]
Queue == {q \in Seq(Entries) : Len(q) <= Cardinality(Nodes)}

\* Seeded fault: the curved arm of a branch is not followed.
ExpandStraight(h, to) == [q \in Queue |-> IF h > Len(q) THEN q ELSE Visit(q, h, 1, to)]

\* Seeded fault: the arm taken at a branch is not recorded.
ExpandForgetsArm(h, to) ==
  [q \in Queue |->
     LET r == IF h > Len(q) THEN q ELSE Visit(Visit(q, h, 1, to), h, 2, to)
     IN  [i \in DOMAIN r |-> [r[i] EXCEPT !.dir = 1]]]

\* Turn h of the search.  After the end of the queue, and once `to' has been
\* found, the turns left change nothing.
Expand(h, to) ==
  [q \in Queue |-> IF h > Len(q) THEN q ELSE Visit(Visit(q, h, 1, to), h, 2, to)]

\* bfs_q when the search has ended.
Search(from, to) ==
  LET after[h \in 0..Cardinality(Nodes)] ==
        IF h = 0 THEN <<Entry(from, 0, 1)>> ELSE Expand(h, to)[after[h - 1]]
  IN  after[Cardinality(Nodes)]

\* The nodes up to the last entry, parent by parent, and the arm of each branch
\* among them.
Reconstruct(to) ==
  [q \in Queue |->
     LET nodes[i \in 0..Len(q)] ==
           IF i = 0 THEN <<>> ELSE Append(nodes[q[i].parent], q[i].node)
         sw[i \in 0..Len(q)] ==
           IF i = 0 \/ q[i].parent = 0 THEN <<>>
           ELSE LET b == q[q[i].parent].node
                IN  IF b \in Branches
                    THEN Append(sw[q[i].parent], <<track[b].num, q[i].dir>>)
                    ELSE sw[q[i].parent]
     IN  IF Found(q, to) THEN [nodes |-> nodes[Len(q)], sw |-> sw[Len(q)]] ELSE NoRoute]

route_find(from, to) == Reconstruct(to)[Search(from, to)]

EdgeDist(n, nx) ==
  LET D == {d \in DOMAIN track[n].edge : track[n].edge[d].dest = nx}
  IN  IF D = {} THEN 0 ELSE track[n].edge[Min(D)].dist

\* -1 if the route does not pass `at'.
route_dist_remaining(nodes, at) ==
  IF at \notin Range(nodes) THEN -1
  ELSE LET i == CHOOSE j \in DOMAIN nodes : nodes[j] = at
       IN  MapThenSumSet(LAMBDA j : EdgeDist(nodes[j], nodes[j + 1]), i..Len(nodes) - 1)

\* NoNode after the last sensor of the route, and off it.
route_next_sensor(nodes, at) ==
  LET I == {i \in DOMAIN nodes : nodes[i] \in Sensors /\ at \in Range(SubSeq(nodes, 1, i - 1))}
  IN  IF I = {} THEN NoNode ELSE nodes[Min(I)]

-----------------------------------------------------------------------------
(* What a route is, whatever finds it. *)

Follows(n, nx) == \E d \in DOMAIN track[n].edge : track[n].edge[d].dest = nx

\* W and the nodes one edge further.
Beyond(W) == W \cup {n \in Nodes : \E m \in W : Follows(m, n)}

\* The nodes at most k edges away.
Within(from, k) ==
  LET within[i \in 0..k] == IF i = 0 THEN {from} ELSE Beyond(within[i - 1])
  IN  within[k]

Reachable(from, to) == to \in Within(from, Cardinality(Nodes))

\* With the turnouts set as sw says, the track leads from n to nx.
Leads(n, nx, sw) ==
  LET edge == track[n].edge
  IN  /\ edge # <<>>
      /\ IF n \in Branches
         THEN \E j \in DOMAIN sw : sw[j][1] = track[n].num /\ edge[sw[j][2]].dest = nx
         ELSE edge[1].dest = nx

\* A train on the route stays on it, with the turnouts set as the route says;
\* the route sets no turnout both ways.
LeadsAlong(r) ==
  /\ r.sw \in Seq(Turnouts \X {1, 2})
  /\ \A i, j \in DOMAIN r.sw : r.sw[i][1] = r.sw[j][1] => r.sw[i][2] = r.sw[j][2]
  /\ \A i \in 1..Len(r.nodes) - 1 : Leads(r.nodes[i], r.nodes[i + 1], r.sw)

IsShortestPath(nodes, from, to) ==
  /\ nodes # <<>> /\ nodes[1] = from /\ nodes[Len(nodes)] = to
  /\ \A i \in 1..Len(nodes) - 1 : Follows(nodes[i], nodes[i + 1])
  /\ to \notin Within(from, Len(nodes) - 2)
=============================================================================
