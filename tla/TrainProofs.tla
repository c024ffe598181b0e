----------------------------- MODULE TrainProofs -----------------------------
(***************************************************************************)
(* Proofs about the train controller (TrainControl): the speed it believes *)
(* in is the train's, and the turnouts lead along the route, for every     *)
(* track and every interleaving of polls and commands on the line; and the *)
(* route a goto takes is a shortest one.  What the search (Route) finds    *)
(* comes first, as nothing in it changes.                                  *)
(*                                                                         *)
(* The commands on the line have different lengths.  A set B of positions  *)
(* names where commands begin; with it the last command about a thing is   *)
(* defined, and what the thing will be once the box has read the line.     *)
(***************************************************************************)
EXTENDS TrainControl, QueueLemmas

-----------------------------------------------------------------------------
(* What the search for a route finds, on any track.  First recursions, in    *)
(* which the value at i is made from the value at p[i] < i.                   *)

Solves(f, n, base, p, step) == f = [i \in 0..n |-> IF i = 0 THEN base ELSE step[i][f[p[i]]]]

\* There is a solution: one on the first m numbers extends to one more.
LEMMA Recursion ==
  ASSUME NEW n \in Nat, NEW p \in [1..n -> 0..n], \A i \in 1..n : p[i] < i, NEW base, NEW step
  PROVE  \E f : Solves(f, n, base, p, step)
<1> DEFINE Bad == {m \in 0..n : ~\E f : Solves(f, m, base, p, step)}
<1>1. SUFFICES ASSUME Bad # {} PROVE FALSE
  <2>1. n \in 0..n
    OBVIOUS
  <2>2. QED
    BY <2>1
<1>2. Bad \in SUBSET Nat
  OBVIOUS
<1>3. PICK m \in Bad : \A k \in Bad : m <= k
  BY <1>1, <1>2, LeastNatural
<1>4. m \in 0..n /\ ~\E f : Solves(f, m, base, p, step)
  BY <1>3
<1>5. CASE m = 0
  <2>1. \A i \in 0..0 : i = 0
    OBVIOUS
  <2>2. Solves([i \in 0..0 |-> base], 0, base, p, step)
    BY <2>1 DEF Solves
  <2>3. QED
    BY <1>4, <1>5, <2>2
<1>6. CASE m # 0
  <2>1. m \in Int /\ m - 1 \in 0..n /\ m - 1 < m /\ m \in 1..n
    BY <1>4, <1>6
  <2>2. m - 1 \notin Bad
    <3>1. SUFFICES ASSUME m - 1 \in Bad PROVE FALSE
      OBVIOUS
    <3>2. m <= m - 1
      BY <1>3, <3>1
    <3>3. QED
      BY <2>1, <3>2
  <2>3. PICK f : Solves(f, m - 1, base, p, step)
    BY <2>1, <2>2
  <2> DEFINE g == [i \in 0..m |-> IF i = 0 THEN base ELSE step[i][f[p[i]]]]
  <2>4. \A i \in 0..m : i # 0 => p[i] \in 0..m - 1 /\ p[i] \in 0..m
    BY <1>4
  <2>5. \A i \in 0..m - 1 : i \in 0..m /\ g[i] = f[i]
    <3>1. \A i \in 0..m - 1 : f[i] = IF i = 0 THEN base ELSE step[i][f[p[i]]]
      BY <2>3 DEF Solves
    <3>2. QED
      BY <2>1, <3>1
  <2>6. g = [i \in 0..m |-> IF i = 0 THEN base ELSE step[i][g[p[i]]]]
    <3>1. \A i \in 0..m : i # 0 => f[p[i]] = g[p[i]]
      BY <2>4, <2>5
    <3> DEFINE G == g
    <3>2. \A i \in 0..m : i # 0 => f[p[i]] = G[p[i]]
      BY <3>1
    <3> HIDE DEF G
    <3>3. g = [i \in 0..m |-> IF i = 0 THEN base ELSE step[i][G[p[i]]]]
      BY <3>2
    <3>4. QED
      BY <3>3 DEF G
  <2>7. Solves(g, m, base, p, step)
    BY <2>6 DEF Solves
  <2>8. QED
    BY <1>4, <2>7
<1>7. QED
  BY <1>5, <1>6

\* Its values are in S when every step stays there.
LEMMA RecursionStays ==
  ASSUME NEW n \in Nat, NEW p \in [1..n -> 0..n], \A i \in 1..n : p[i] < i,
         NEW S, NEW base \in S, NEW step \in [1..n -> [S -> S]],
         NEW f, Solves(f, n, base, p, step)
  PROVE  f \in [0..n -> S]
<1> DEFINE Bad == {i \in 0..n : f[i] \notin S}
<1>1. f = [i \in 0..n |-> IF i = 0 THEN base ELSE step[i][f[p[i]]]]
  BY DEF Solves
<1>2. SUFFICES ASSUME Bad # {} PROVE FALSE
  BY <1>1
<1>3. Bad \in SUBSET Nat
  OBVIOUS
<1>4. PICK i \in Bad : \A j \in Bad : i <= j
  BY <1>2, <1>3, LeastNatural
<1>5. i \in 0..n /\ f[i] \notin S /\ f[i] = IF i = 0 THEN base ELSE step[i][f[p[i]]]
  BY <1>1, <1>4
<1>6. i # 0 => i \in 1..n /\ p[i] \in 0..n /\ p[i] < i
  BY <1>5
<1>7. i # 0 => p[i] \notin Bad
  BY <1>4, <1>6
<1>8. i # 0 => f[p[i]] \in S
  BY <1>6, <1>7
<1>9. QED
  BY <1>5, <1>6, <1>8

-----------------------------------------------------------------------------
(* The nodes at most k edges away. *)

WithinStep(W, from, k) ==
  [i \in 0..k |-> IF i = 0 THEN {from} ELSE Beyond(W[i - 1])]

LEMMA WithinIsDefined ==
  ASSUME NEW from \in Nodes, NEW k \in Nat
  PROVE  \E W : W = WithinStep(W, from, k) /\ Within(from, k) = W[k]
<1> DEFINE p == [i \in 1..k |-> i - 1]
           step == [i \in 1..k |-> [V \in SUBSET Nodes |-> Beyond(V)]]
<1>1. p \in [1..k -> 0..k] /\ \A i \in 1..k : p[i] < i
  OBVIOUS
<1>0. \A V \in SUBSET Nodes : Beyond(V) \in SUBSET Nodes
  BY DEF Beyond
<1>2. step \in [1..k -> [SUBSET Nodes -> SUBSET Nodes]]
  BY <1>0
<1>3. {from} \in SUBSET Nodes
  OBVIOUS
<1>4. \E W \in [0..k -> SUBSET Nodes] : \A i \in 0..k : W[i] = IF i = 0 THEN {from} ELSE step[i][W[p[i]]]
  <2> HIDE DEF p, step
  <2> DEFINE S == SUBSET Nodes
             base == {from}
  <2>1. base \in S /\ step \in [1..k -> [S -> S]]
    BY <1>2, <1>3
  <2> HIDE DEF S, base
  <2>2. PICK W : Solves(W, k, base, p, step)
    BY <1>1, Recursion
  <2>3. W \in [0..k -> S]
    BY <1>1, <2>1, <2>2, RecursionStays
  <2>4. \A i \in 0..k : W[i] = IF i = 0 THEN base ELSE step[i][W[p[i]]]
    BY <2>2 DEF Solves
  <2>5. QED
    BY <2>3, <2>4 DEF S, base
<1>5. PICK W \in [0..k -> SUBSET Nodes] : \A i \in 0..k : W[i] = IF i = 0 THEN {from} ELSE step[i][W[p[i]]]
  BY <1>4
<1>6. \A i \in 0..k : i # 0 => i \in 1..k /\ i - 1 \in 0..k
  OBVIOUS
<1>7. \A i \in 0..k : W[i] = IF i = 0 THEN {from} ELSE Beyond(W[i - 1])
  BY <1>5, <1>6
<1>8. W = [i \in 0..k |-> IF i = 0 THEN {from} ELSE Beyond(W[i - 1])]
  BY <1>5, <1>7
<1>9. \E V : V = WithinStep(V, from, k)
  BY <1>8 DEF WithinStep
<1>10. PICK V : V = CHOOSE U : U = WithinStep(U, from, k)
  OBVIOUS
<1>11. V = WithinStep(V, from, k) /\ Within(from, k) = V[k]
  BY <1>9, <1>10 DEF Within, WithinStep
<1>12. QED
  BY <1>11

LEMMA WithinFacts ==
  ASSUME NEW from \in Nodes
  PROVE  /\ Within(from, 0) = {from}
         /\ \A k \in Nat : Within(from, k + 1) = Beyond(Within(from, k))
<1>1. Within(from, 0) = {from}
  <2>1. PICK W : W = WithinStep(W, from, 0) /\ Within(from, 0) = W[0]
    BY WithinIsDefined
  <2>2. QED
    BY <2>1 DEF WithinStep
<1>2. ASSUME NEW k \in Nat
      PROVE  Within(from, k + 1) = Beyond(Within(from, k))
  <2>1. PICK W : W = WithinStep(W, from, k) /\ Within(from, k) = W[k]
    BY WithinIsDefined
  <2>0. k + 1 \in Nat
    OBVIOUS
  <2>2. PICK V : V = WithinStep(V, from, k + 1) /\ Within(from, k + 1) = V[k + 1]
    BY <2>0, WithinIsDefined
  <2> DEFINE Bad == {i \in 0..k : V[i] # W[i]}
  <2>3. Bad = {}
    <3>1. SUFFICES ASSUME Bad # {} PROVE FALSE
      OBVIOUS
    <3>2. Bad \in SUBSET Nat
      OBVIOUS
    <3>3. PICK i \in Bad : \A j \in Bad : i <= j
      BY <3>1, <3>2, LeastNatural
    <3>4. i \in 0..k /\ i \in 0..k + 1 /\ V[i] # W[i]
      BY <3>3
    <3>5. i # 0 => i - 1 \notin Bad
      BY <3>3, <3>4
    <3>6. i # 0 => V[i - 1] = W[i - 1]
      BY <3>4, <3>5
    <3>7. /\ V[i] = IF i = 0 THEN {from} ELSE Beyond(V[i - 1])
          /\ W[i] = IF i = 0 THEN {from} ELSE Beyond(W[i - 1])
      BY <2>1, <2>2, <3>4 DEF WithinStep
    <3>8. QED
      BY <3>4, <3>6, <3>7
  <2>4. V[k] = W[k]
    BY <2>3
  <2>5. k + 1 \in 0..k + 1 /\ k + 1 # 0 /\ k + 1 - 1 = k
    OBVIOUS
  <2>6. V[k + 1] = Beyond(V[k])
    <3>1. V[k + 1] = IF k + 1 = 0 THEN {from}
                     ELSE Beyond(V[k + 1 - 1])
      <4>1. \A i \in 0..k + 1 : V[i] = IF i = 0 THEN {from} ELSE Beyond(V[i - 1])
        BY <2>2 DEF WithinStep
      <4>2. QED
        BY <2>5, <4>1
    <3>2. QED
      BY <2>5, <3>1
  <2>7. QED
    BY <2>1, <2>2, <2>4, <2>6
<1>3. QED
  BY <1>1, <1>2

\* What holds of `from' and is kept by the steps up to m holds of all nodes at
\* most m edges away.
LEMMA WithinStays ==
  ASSUME NEW from \in Nodes, NEW V, from \in V, NEW m \in Nat,
         \A k \in 0..m - 1 : Within(from, k) \subseteq V => Beyond(Within(from, k)) \subseteq V
  PROVE  \A k \in 0..m : Within(from, k) \subseteq V
<1> DEFINE Bad == {k \in 0..m : ~(Within(from, k) \subseteq V)}
<1>1. SUFFICES ASSUME Bad # {} PROVE FALSE
  OBVIOUS
<1>2. Bad \in SUBSET Nat
  OBVIOUS
<1>3. PICK k \in Bad : \A j \in Bad : k <= j
  BY <1>1, <1>2, LeastNatural
<1>4. k \in 0..m /\ ~(Within(from, k) \subseteq V)
  BY <1>3
<1>5. k # 0
  BY <1>4, WithinFacts
<1>6. k - 1 \in 0..m - 1 /\ k - 1 \in 0..m /\ k - 1 \in Nat /\ k - 1 + 1 = k /\ ~(k <= k - 1)
  BY <1>4, <1>5
<1>7. k - 1 \notin Bad
  BY <1>3, <1>6
<1>8. Within(from, k - 1) \subseteq V
  BY <1>6, <1>7
<1>9. Within(from, k - 1 + 1) = Beyond(Within(from, k - 1))
  BY <1>6, WithinFacts
<1>10. QED
  BY <1>4, <1>6, <1>8, <1>9

LEMMA WithinGrows ==
  ASSUME NEW from \in Nodes, NEW k \in Nat, NEW m \in Nat, k <= m
  PROVE  Within(from, k) \subseteq Within(from, m)
<1> DEFINE Bad == {i \in Nat : k <= i /\ ~(Within(from, k) \subseteq Within(from, i))}
<1>1. SUFFICES ASSUME Bad # {} PROVE FALSE
  OBVIOUS
<1>2. Bad \in SUBSET Nat
  OBVIOUS
<1>3. PICK i \in Bad : \A j \in Bad : i <= j
  BY <1>1, <1>2, LeastNatural
<1>4. i \in Nat /\ k <= i /\ ~(Within(from, k) \subseteq Within(from, i))
  BY <1>3
<1>5. i # k
  BY <1>4
<1>6. i - 1 \in Nat /\ k <= i - 1 /\ i - 1 + 1 = i /\ ~(i <= i - 1)
  BY <1>4, <1>5
<1>7. i - 1 \notin Bad
  BY <1>3, <1>6
<1>8. Within(from, k) \subseteq Within(from, i - 1)
  BY <1>6, <1>7
<1>9. Within(from, i - 1 + 1) = Beyond(Within(from, i - 1))
  BY <1>6, WithinFacts
<1>10. QED
  BY <1>4, <1>6, <1>8, <1>9 DEF Beyond

-----------------------------------------------------------------------------
(* The queue of the search: a tree, breadth first. *)

Arms(n) == DOMAIN track[n].edge
ArmTo(n, a) == track[n].edge[a].dest

LEMMA TrackFacts ==
  /\ IsFiniteSet(Nodes) /\ Cardinality(Nodes) \in Nat
  /\ \A n \in Nodes : /\ Arms(n) = 1..Len(track[n].edge) /\ Len(track[n].edge) \in 0..2
                      /\ Arms(n) \subseteq {1, 2}
                      /\ \A a \in Arms(n) : ArmTo(n, a) \in Nodes
                      /\ n \in Branches <=> Len(track[n].edge) = 2
  /\ \A n, nx : Follows(n, nx) <=> \E a \in Arms(n) : ArmTo(n, a) = nx
<1>1. TrackFits
  BY TrackAssumption
<1>2. IsFiniteSet(Nodes) /\ Cardinality(Nodes) \in Nat
  BY <1>1, FS_CardinalityType DEF TrackFits
<1>3. ASSUME NEW n \in Nodes
      PROVE  /\ Arms(n) = 1..Len(track[n].edge) /\ Len(track[n].edge) \in 0..2
             /\ Arms(n) \subseteq {1, 2}
             /\ \A a \in Arms(n) : ArmTo(n, a) \in Nodes
             /\ n \in Branches <=> Len(track[n].edge) = 2
  <2>1. PICK e : e = track[n].edge
    OBVIOUS
  <2>2. /\ e \in Seq([dest : Nodes, dist : Nat]) /\ Len(e) <= 2
        /\ track[n].type = "branch" <=> Len(e) = 2
    BY <1>1, <2>1 DEF TrackFits
  <2>3. Len(e) \in Nat /\ DOMAIN e = 1..Len(e) /\ \A a \in 1..Len(e) : e[a] \in [dest : Nodes, dist : Nat]
    BY <2>2, LenProperties, ElementOfSeq
  <2>4. n \in Branches <=> Len(e) = 2
    BY <2>2 DEF Branches
  <2>5. Arms(n) = 1..Len(e) /\ \A a : ArmTo(n, a) = e[a].dest
    BY <2>1, <2>3 DEF Arms, ArmTo
  <2>6. \A a \in 1..Len(e) : a \in {1, 2} /\ e[a].dest \in Nodes
    BY <2>2, <2>3
  <2>7. Len(e) \in 0..2
    BY <2>2, <2>3
  <2>8. Arms(n) \subseteq {1, 2} /\ \A a \in Arms(n) : ArmTo(n, a) \in Nodes
    BY <2>5, <2>6
  <2>9. QED
    BY <2>1, <2>4, <2>5, <2>7, <2>8
<1>4. \A n, nx : Follows(n, nx) <=> \E a \in Arms(n) : ArmTo(n, a) = nx
  BY DEF Follows, Arms, ArmTo
<1>5. QED
  BY <1>2, <1>3, <1>4

\* Every entry but the first is reached by an arm from an earlier one.
Linked(q, from) ==
  /\ q \in Queue /\ Len(q) > 0 /\ q[1] = Entry(from, 0, 1)
  /\ \A i, j \in 1..Len(q) : q[i].node = q[j].node => i = j
  /\ \A i \in 2..Len(q) : /\ q[i].parent \in 1..i - 1
                          /\ q[i].dir \in Arms(q[q[i].parent].node)
                          /\ ArmTo(q[q[i].parent].node, q[i].dir) = q[i].node

\* d[i] is how many edges the entry i is away from the first, and no fewer lead
\* there.
Depths(q, d, from) ==
  /\ d \in [1..Len(q) -> Nat] /\ d[1] = 0
  /\ \A i \in 2..Len(q) : d[i] = d[q[i].parent] + 1
  /\ \A i, j \in 1..Len(q) : i <= j => d[i] <= d[j]
  /\ \A i \in 1..Len(q) : /\ d[i] < i /\ q[i].node \in Within(from, d[i])
                          /\ \A k \in Nat : k < d[i] => q[i].node \notin Within(from, k)

\* The arms of the entries before h have been followed.
Followed(q, h) ==
  \A j \in 1..Len(q) : j < h => \A a \in Arms(q[j].node) : ArmTo(q[j].node, a) \in Visited(q)

\* Before turn h of the search.
Bfs(q, d, h, from, to) ==
  /\ Linked(q, from) /\ Depths(q, d, from)
  /\ h <= Len(q) => d[Len(q)] <= d[h] + 1
  /\ Found(q, to) \/ Followed(q, h)
  /\ \A i \in 1..Len(q) : 1 < i /\ i < Len(q) => q[i].node # to

LEMMA LinkedFacts ==
  ASSUME NEW from, NEW q, Linked(q, from)
  PROVE  /\ q \in Seq(Entries) /\ Len(q) \in Nat \ {0} /\ Len(q) <= Cardinality(Nodes)
         /\ DOMAIN q = 1..Len(q)
         /\ \A i \in 1..Len(q) : q[i].node \in Nodes /\ q[i].parent \in Nat /\ q[i].dir \in {1, 2}
         /\ Visited(q) = {q[i].node : i \in 1..Len(q)}
<1>1. q \in Seq(Entries) /\ Len(q) <= Cardinality(Nodes) /\ Len(q) > 0
  BY DEF Linked, Queue
<1>2. Len(q) \in Nat /\ DOMAIN q = 1..Len(q) /\ \A i \in 1..Len(q) : q[i] \in Entries
  BY <1>1, LenProperties, ElementOfSeq
<1>3. QED
  BY <1>1, <1>2 DEF Visited, Entries

\* Distinct nodes are at most as many as the track has.
LEMMA RoomForMore ==
  ASSUME NEW from, NEW q, Linked(q, from), NEW n \in Nodes, n \notin Visited(q)
  PROVE  Len(q) + 1 <= Cardinality(Nodes)
<1>1. PICK L \in Nat : L = Len(q)
  BY LinkedFacts
<1> DEFINE f == [i \in 1..L + 1 |-> IF i = L + 1 THEN n ELSE q[i].node]
<1>2. \A i \in 1..L + 1 : i = L + 1 \/ i \in 1..L
  OBVIOUS
<1>3. \A i \in 1..L : q[i].node \in Nodes /\ q[i].node # n
  BY <1>1, LinkedFacts
<1>4. f \in [1..L + 1 -> Nodes]
  BY <1>2, <1>3
<1>5. \A i, j \in 1..L + 1 : f[i] = f[j] => i = j
  <2>1. \A i, j \in 1..L : q[i].node = q[j].node => i = j
    BY <1>1 DEF Linked
  <2>2. QED
    BY <1>2, <1>3, <2>1
<1> HIDE DEF f
<1>6. f \in Injection(1..L + 1, Nodes)
  BY <1>4, <1>5 DEF Injection, IsInjective
<1>7. Cardinality(1..L + 1) <= Cardinality(Nodes)
  BY <1>6, FS_Injection, TrackFacts
<1>8. Cardinality(1..L + 1) = L + 1
  <2>1. 1 \in Int /\ L + 1 \in Int
    OBVIOUS
  <2>2. Cardinality(1..L + 1) = IF 1 > L + 1 THEN 0 ELSE L + 1 - 1 + 1
    BY <2>1, FS_Interval
  <2>3. QED
    BY <2>2
<1>9. QED
  BY <1>1, <1>7, <1>8

\* Nodes at most as far as the entry h have been visited before turn h.
LEMMA NearIsVisited ==
  ASSUME NEW from \in Nodes, NEW to, NEW q, NEW d, NEW h \in 1..Len(q),
         Bfs(q, d, h, from, to), ~Found(q, to)
  PROVE  \A k \in 0..d[h] : Within(from, k) \subseteq Visited(q)
<1>1. /\ Len(q) \in Nat \ {0} /\ Visited(q) = {q[i].node : i \in 1..Len(q)}
      /\ \A i \in 1..Len(q) : q[i].node \in Nodes
  BY LinkedFacts DEF Bfs
<1>2. PICK m \in Nat : m = d[h]
  BY DEF Bfs, Depths
<1>3. from \in Visited(q)
  <2>1. q[1].node = from
    BY DEF Bfs, Linked, Entry
  <2>2. QED
    BY <1>1, <2>1
<1>4. ASSUME NEW k \in 0..m - 1, Within(from, k) \subseteq Visited(q)
      PROVE  Beyond(Within(from, k)) \subseteq Visited(q)
  <2>1. SUFFICES ASSUME NEW n \in Nodes, NEW x \in Within(from, k), Follows(x, n)
                 PROVE  n \in Visited(q)
    BY <1>4 DEF Beyond
  <2>2. PICK j \in 1..Len(q) : x = q[j].node
    BY <1>1, <1>4
  <2>3. d[j] \in Nat /\ ~(k < d[j])
    BY <1>4, <2>2 DEF Bfs, Depths
  <2>4. j < h
    <3>1. SUFFICES ASSUME h <= j PROVE FALSE
      BY <1>1
    <3>2. m <= d[j]
      BY <1>2, <3>1 DEF Bfs, Depths
    <3>3. QED
      BY <2>3, <3>2
  <2>5. PICK a \in Arms(x) : ArmTo(x, a) = n
    BY <2>1, TrackFacts
  <2>6. QED
    BY <2>2, <2>4, <2>5 DEF Bfs, Followed
<1>5. QED
  BY <1>2, <1>3, <1>4, WithinStays

\* A node that is visited next is one edge further than the entry it is reached
\* from.
LEMMA NextIsFurther ==
  ASSUME NEW from \in Nodes, NEW to, NEW q, NEW d, NEW h \in 1..Len(q), NEW n \in Nodes,
         Bfs(q, d, h, from, to), ~Found(q, to), n \notin Visited(q), Follows(q[h].node, n)
  PROVE  /\ n \in Within(from, d[h] + 1)
         /\ \A k \in Nat : k < d[h] + 1 => n \notin Within(from, k)
<1>1. PICK m \in Nat : m = d[h]
  BY DEF Bfs, Depths
<1>2. q[h].node \in Within(from, m)
  BY <1>1 DEF Bfs, Depths
<1>3. Within(from, m + 1) = Beyond(Within(from, m))
  BY WithinFacts
<1>4. n \in Within(from, m + 1)
  BY <1>2, <1>3 DEF Beyond
<1>5. \A k \in 0..m : n \notin Within(from, k)
  BY <1>1, NearIsVisited
<1>6. \A k \in Nat : k < m + 1 => k \in 0..m
  OBVIOUS
<1>7. QED
  BY <1>1, <1>4, <1>5, <1>6

LEMMA LinkedAppends ==
  ASSUME NEW from, NEW q, Linked(q, from), NEW h \in 1..Len(q), NEW a \in Arms(q[h].node),
         ArmTo(q[h].node, a) \notin Visited(q)
  PROVE  LET r == Append(q, Entry(ArmTo(q[h].node, a), h, a))
         IN  /\ Linked(r, from) /\ Len(r) = Len(q) + 1
             /\ \A i \in 1..Len(q) : r[i] = q[i]
             /\ r[Len(q) + 1] = Entry(ArmTo(q[h].node, a), h, a)
             /\ Visited(r) = Visited(q) \cup {ArmTo(q[h].node, a)}
<1> DEFINE n == ArmTo(q[h].node, a)
           x == Entry(n, h, a)
           r == Append(q, x)
<1>1. PICK L \in Nat \ {0} : L = Len(q)
  BY LinkedFacts
<1>2. /\ q \in Seq(Entries) /\ Visited(q) = {q[i].node : i \in 1..L}
      /\ \A i \in 1..L : q[i].node \in Nodes
  BY <1>1, LinkedFacts
<1>3. n \in Nodes /\ a \in {1, 2} /\ h \in 1..L
  BY <1>1, <1>2, TrackFacts
<1> HIDE DEF n
<1>4. x \in Entries /\ x.node = n /\ x.parent = h /\ x.dir = a
  BY <1>3 DEF Entry, Entries
<1> HIDE DEF x
<1>5. /\ r \in Seq(Entries) /\ Len(r) = L + 1 /\ DOMAIN r = 1..L + 1
      /\ \A i \in 1..L : r[i] = q[i]
      /\ r[L + 1] = x
  BY <1>1, <1>2, <1>4, AppendFacts, LenProperties
<1> HIDE DEF r
<1>6. \A i \in 1..L + 1 : i \in 1..L \/ i = L + 1
  OBVIOUS
<1>7. \A i \in 1..L : i \in 1..L + 1 /\ i # L + 1
  OBVIOUS
<1>8. L + 1 \in 1..L + 1 /\ L + 1 # 1 /\ 1 \in 1..L /\ h \in 1..L + 1 - 1
  BY <1>3
<1>9. n \notin Visited(q)
  BY DEF n
<1>10. Visited(r) = Visited(q) \cup {n}
  <2>1. Visited(r) = {r[i].node : i \in 1..L + 1}
    BY <1>5 DEF Visited
  <2>2. QED
    BY <1>2, <1>4, <1>5, <1>6, <1>7, <1>8, <2>1
<1>11. Linked(r, from)
  <2>1. r \in Queue
    <3>1. L + 1 <= Cardinality(Nodes)
      BY <1>1, <1>3, <1>9, RoomForMore
    <3>2. QED
      BY <1>5, <3>1 DEF Queue
  <2>2. Len(r) > 0 /\ r[1] = Entry(from, 0, 1)
    BY <1>1, <1>5, <1>8 DEF Linked
  <2>3. ASSUME NEW i \in 1..Len(r), NEW j \in 1..Len(r), r[i].node = r[j].node PROVE i = j
    <3>1. \A k, l \in 1..L : q[k].node = q[l].node => k = l
      BY <1>1 DEF Linked
    <3>2. \A k \in 1..L : r[k].node # r[L + 1].node
      BY <1>2, <1>4, <1>5, <1>9
    <3>3. i \in 1..L + 1 /\ j \in 1..L + 1
      BY <1>5
    <3>4. QED
      BY <1>5, <1>6, <2>3, <3>1, <3>2, <3>3
  <2>4. ASSUME NEW i \in 2..Len(r)
        PROVE  /\ r[i].parent \in 1..i - 1
               /\ r[i].dir \in Arms(r[r[i].parent].node)
               /\ ArmTo(r[r[i].parent].node, r[i].dir) = r[i].node
    <3>1. CASE i = L + 1
      <4>1. r[i] = x /\ r[h] = q[h]
        BY <1>3, <1>5, <3>1
      <4>2. QED
        BY <1>4, <1>8, <3>1, <4>1 DEF n
    <3>2. CASE i # L + 1
      <4>1. i \in 2..L /\ i \in 1..L
        BY <1>5, <3>2
      <4>2. /\ q[i].parent \in 1..i - 1
            /\ q[i].dir \in Arms(q[q[i].parent].node)
            /\ ArmTo(q[q[i].parent].node, q[i].dir) = q[i].node
        BY <1>1, <4>1 DEF Linked
      <4>3. q[i].parent \in 1..L
        BY <4>1, <4>2
      <4>4. r[i] = q[i] /\ r[q[i].parent] = q[q[i].parent]
        BY <1>5, <4>1, <4>3
      <4>5. QED
        BY <4>2, <4>4
    <3>3. QED
      BY <3>1, <3>2
  <2>5. QED
    BY <2>1, <2>2, <2>3, <2>4 DEF Linked
<1>12. QED
  BY <1>1, <1>5, <1>10, <1>11 DEF r, x, n

LEMMA VisitAppends ==
  ASSUME NEW from \in Nodes, NEW to, NEW q, NEW d, NEW h \in 1..Len(q), NEW a \in Arms(q[h].node),
         Bfs(q, d, h, from, to), ~Found(q, to), ArmTo(q[h].node, a) \notin Visited(q)
  PROVE  LET r == Append(q, Entry(ArmTo(q[h].node, a), h, a))
         IN  \E e : /\ Bfs(r, e, h, from, to)
                    /\ Len(r) = Len(q) + 1
                    /\ \A i \in 1..Len(q) : r[i] = q[i]
                    /\ Visited(r) = Visited(q) \cup {ArmTo(q[h].node, a)}
<1> DEFINE n == ArmTo(q[h].node, a)
           r == Append(q, Entry(n, h, a))
<1>1. PICK L \in Nat \ {0} : L = Len(q)
  BY LinkedFacts DEF Bfs
<1>2. Linked(q, from) /\ Depths(q, d, from)
  BY DEF Bfs
<1>3. /\ Linked(r, from) /\ Len(r) = L + 1
      /\ \A i \in 1..L : r[i] = q[i]
      /\ r[L + 1] = Entry(n, h, a)
      /\ Visited(r) = Visited(q) \cup {n}
  BY <1>1, <1>2, LinkedAppends
<1>4. n \in Nodes /\ Follows(q[h].node, n)
  BY <1>2, LinkedFacts, TrackFacts
<1>5. PICK m \in Nat : m = d[h]
  BY <1>2 DEF Depths
<1>6. n \in Within(from, m + 1) /\ \A k \in Nat : k < m + 1 => n \notin Within(from, k)
  BY <1>4, <1>5, NextIsFurther
<1> HIDE DEF r, n
<1>7. r[L + 1].node = n /\ r[L + 1].parent = h
  BY <1>3 DEF Entry
<1> DEFINE e == [i \in 1..L + 1 |-> IF i = L + 1 THEN m + 1 ELSE d[i]]
<1>8. /\ \A i \in 1..L + 1 : i \in 1..L \/ i = L + 1
      /\ \A i \in 1..L : i \in 1..L + 1 /\ i # L + 1
      /\ L + 1 \in 1..L + 1 /\ 1 \in 1..L /\ h \in 1..L
  BY <1>1
<1>9. /\ \A i \in 1..L : e[i] = d[i] /\ d[i] \in Nat
      /\ e[L + 1] = m + 1
      /\ DOMAIN e = 1..L + 1
  BY <1>1, <1>2, <1>8 DEF Depths
<1>10. e \in [1..L + 1 -> Nat]
  <2>1. \A i \in 1..L : d[i] \in Nat
    BY <1>9
  <2>2. ASSUME NEW i \in 1..L + 1 PROVE e[i] \in Nat
    <3>1. i \in 1..L \/ i = L + 1
      BY <1>8
    <3>2. m + 1 \in Nat
      OBVIOUS
    <3>3. QED
      BY <2>1, <3>1, <3>2
  <2>3. QED
    BY <2>2
<1> HIDE DEF e
<1>11. d[L] <= m + 1 /\ \A i \in 1..L : d[i] <= m + 1
  <2>1. d[L] <= m + 1
    BY <1>1, <1>5 DEF Bfs
  <2>2. \A i \in 1..L : d[i] <= d[L]
    BY <1>1, <1>2 DEF Depths
  <2>3. L \in 1..L
    OBVIOUS
  <2>4. ASSUME NEW i \in 1..L PROVE d[i] <= m + 1
    <3>1. d[i] \in Nat /\ d[L] \in Nat /\ d[i] <= d[L]
      BY <1>9, <2>2, <2>3
    <3>2. QED
      BY <2>1, <3>1
  <2>5. QED
    BY <2>1, <2>4
<1>12. Depths(r, e, from)
  <2>1. e[1] = 0
    BY <1>2, <1>8, <1>9 DEF Depths
  <2>2. ASSUME NEW i \in 2..L + 1 PROVE e[i] = e[r[i].parent] + 1
    <3>1. CASE i = L + 1
      BY <1>5, <1>7, <1>8, <1>9, <3>1
    <3>2. CASE i # L + 1
      <4>1. i \in 2..L /\ i \in 1..L
        BY <3>2
      <4>2. q[i].parent \in 1..L
        <5>1. q[i].parent \in 1..i - 1
          BY <1>1, <1>2, <4>1 DEF Linked
        <5>2. QED
          BY <4>1, <5>1
      <4>3. d[i] = d[q[i].parent] + 1
        BY <1>1, <1>2, <4>1 DEF Depths
      <4>4. QED
        BY <1>3, <1>9, <4>1, <4>2, <4>3
    <3>3. QED
      BY <3>1, <3>2
  <2>3. ASSUME NEW i \in 1..L + 1, NEW j \in 1..L + 1, i <= j PROVE e[i] <= e[j]
    <3>1. CASE j = L + 1
      BY <1>8, <1>9, <1>11, <3>1
    <3>2. CASE j # L + 1
      <4>1. i \in 1..L /\ j \in 1..L
        BY <2>3, <3>2
      <4>2. d[i] <= d[j]
        BY <1>1, <1>2, <2>3, <4>1 DEF Depths
      <4>3. QED
        BY <1>9, <4>1, <4>2
    <3>3. QED
      BY <3>1, <3>2
  <2>4. ASSUME NEW i \in 1..L + 1
        PROVE  /\ e[i] < i /\ r[i].node \in Within(from, e[i])
               /\ \A k \in Nat : k < e[i] => r[i].node \notin Within(from, k)
    <3>1. CASE i = L + 1
      <4>1. m < h
        BY <1>1, <1>2, <1>5 DEF Depths
      <4>2. m + 1 < L + 1
        BY <1>8, <4>1
      <4>3. QED
        BY <1>6, <1>7, <1>9, <3>1, <4>2
    <3>2. CASE i # L + 1
      <4>1. i \in 1..L
        BY <3>2
      <4>2. /\ d[i] < i /\ q[i].node \in Within(from, d[i])
            /\ \A k \in Nat : k < d[i] => q[i].node \notin Within(from, k)
        BY <1>1, <1>2, <4>1 DEF Depths
      <4>3. e[i] = d[i] /\ r[i] = q[i]
        BY <1>3, <1>9, <4>1
      <4>4. QED
        BY <4>2, <4>3
    <3>3. QED
      BY <3>1, <3>2
  <2>5. QED
    BY <1>3, <1>10, <2>1, <2>2, <2>3, <2>4 DEF Depths
<1>13. Followed(r, h)
  <2>1. Followed(q, h)
    BY DEF Bfs
  <2>2. SUFFICES ASSUME NEW j \in 1..L + 1, j < h, NEW b \in Arms(r[j].node)
                 PROVE  ArmTo(r[j].node, b) \in Visited(r)
    BY <1>3 DEF Followed
  <2>3. j \in 1..L /\ r[j] = q[j]
    BY <1>3, <1>8, <2>2
  <2>4. QED
    BY <1>1, <1>3, <2>1, <2>2, <2>3 DEF Followed
<1>14. e[L + 1] <= e[h] + 1
  BY <1>5, <1>8, <1>9
<1>15. \A i \in 1..L + 1 : 1 < i /\ i < L + 1 => r[i].node # to
  <2>1. SUFFICES ASSUME NEW i \in 1..L, 1 < i PROVE r[i].node # to
    BY <1>8
  <2>2. CASE i < L
    BY <1>1, <1>3, <2>1, <2>2 DEF Bfs
  <2>3. CASE i = L
    BY <1>1, <1>3, <2>1, <2>3 DEF Found
  <2>4. QED
    BY <2>1, <2>2, <2>3
<1>16. Bfs(r, e, h, from, to)
  BY <1>3, <1>12, <1>13, <1>14, <1>15 DEF Bfs
<1>17. QED
  BY <1>1, <1>3, <1>16 DEF r, n

\* One arm of turn h.
LEMMA VisitKeeps ==
  ASSUME NEW from \in Nodes, NEW to, NEW q, NEW d, NEW h \in 1..Len(q), NEW a \in {1, 2},
         Bfs(q, d, h, from, to)
  PROVE  LET r == Visit(q, h, a, to)
         IN  \E e : /\ Bfs(r, e, h, from, to)
                    /\ Len(r) \in Nat /\ h \in 1..Len(r) /\ r[h] = q[h]
                    /\ Visited(q) \subseteq Visited(r)
                    /\ \/ Found(r, to)
                       \/ a \in Arms(q[h].node) => ArmTo(q[h].node, a) \in Visited(r)
<1>1. Linked(q, from) /\ Len(q) \in Nat \ {0} /\ q[h].node \in Nodes
  BY LinkedFacts DEF Bfs
<1>2. a \in Arms(q[h].node) <=> a <= Len(track[q[h].node].edge)
  <2>1. PICK l \in 0..2 : l = Len(track[q[h].node].edge)
    BY <1>1, TrackFacts
  <2>2. a \in 1..l <=> a <= l
    OBVIOUS
  <2>3. QED
    BY <1>1, <2>1, <2>2, TrackFacts
<1>3. Len(track[q[h].node].edge) \in Int /\ a \in Int
  BY <1>1, TrackFacts
<1>4. Visit(q, h, a, to) =
        IF a \notin Arms(q[h].node) \/ Found(q, to) \/ ArmTo(q[h].node, a) \in Visited(q) THEN q
        ELSE Append(q, Entry(ArmTo(q[h].node, a), h, a))
  <2>1. a > Len(track[q[h].node].edge) <=> a \notin Arms(q[h].node)
    BY <1>2, <1>3
  <2>2. QED
    BY <2>1 DEF Visit, ArmTo
<1>5. CASE a \notin Arms(q[h].node) \/ Found(q, to) \/ ArmTo(q[h].node, a) \in Visited(q)
  <2>1. Visit(q, h, a, to) = q
    BY <1>4, <1>5
  <2>2. QED
    BY <1>1, <1>5, <2>1
<1>6. CASE ~(a \notin Arms(q[h].node) \/ Found(q, to) \/ ArmTo(q[h].node, a) \in Visited(q))
  <2> DEFINE r == Append(q, Entry(ArmTo(q[h].node, a), h, a))
  <2>1. Visit(q, h, a, to) = r
    BY <1>4, <1>6
  <2>2. PICK e : /\ Bfs(r, e, h, from, to)
                 /\ Len(r) = Len(q) + 1
                 /\ \A i \in 1..Len(q) : r[i] = q[i]
                 /\ Visited(r) = Visited(q) \cup {ArmTo(q[h].node, a)}
    BY <1>6, VisitAppends
  <2> HIDE DEF r
  <2>3. h \in 1..Len(r) /\ Len(r) \in Nat
    BY <1>1, <2>2
  <2>4. QED
    BY <2>1, <2>2, <2>3
<1>7. QED
  BY <1>5, <1>6

LEMMA TurnKeeps ==
  ASSUME NEW from \in Nodes, NEW to, NEW q, NEW d, NEW h \in Nat \ {0}, Bfs(q, d, h, from, to)
  PROVE  \E e : Bfs(Expand(h, to)[q], e, h + 1, from, to)
<1>1. Linked(q, from) /\ Len(q) \in Nat \ {0} /\ q \in Queue
  BY LinkedFacts DEF Bfs, Linked
<1>2. CASE h > Len(q)
  <2>1. Expand(h, to)[q] = q
    BY <1>1, <1>2 DEF Expand
  <2>2. \A j \in 1..Len(q) : j < h
    BY <1>1, <1>2
  <2>3. Followed(q, h) => Followed(q, h + 1)
    BY <2>2 DEF Followed
  <2>4. ~(h + 1 <= Len(q))
    BY <1>1, <1>2
  <2>5. Bfs(q, d, h + 1, from, to)
    BY <2>3, <2>4 DEF Bfs
  <2>6. QED
    BY <2>1, <2>5
<1>3. CASE ~(h > Len(q))
  <2> DEFINE q1 == Visit(q, h, 1, to)
             q2 == Visit(q1, h, 2, to)
  <2>1. Expand(h, to)[q] = q2
    BY <1>1, <1>3 DEF Expand
  <2>2. h \in 1..Len(q) /\ q[h].node \in Nodes
    BY <1>1, <1>3, LinkedFacts
  <2>3. PICK e1 : /\ Bfs(q1, e1, h, from, to)
                  /\ Len(q1) \in Nat /\ h \in 1..Len(q1) /\ q1[h] = q[h]
                  /\ \/ Found(q1, to)
                     \/ 1 \in Arms(q[h].node) => ArmTo(q[h].node, 1) \in Visited(q1)
    BY <2>2, VisitKeeps
  <2> HIDE DEF q1
  <2>4. PICK e : /\ Bfs(q2, e, h, from, to)
                 /\ Len(q2) \in Nat /\ h \in 1..Len(q2) /\ q2[h] = q1[h]
                 /\ Visited(q1) \subseteq Visited(q2)
                 /\ \/ Found(q2, to)
                    \/ 2 \in Arms(q1[h].node) => ArmTo(q1[h].node, 2) \in Visited(q2)
    BY <2>3, VisitKeeps
  <2>5. Found(q1, to) => q2 = q1
    BY DEF Visit
  <2> HIDE DEF q2
  <2>6. Found(q2, to) \/ Followed(q2, h + 1)
    <3>1. SUFFICES ASSUME ~Found(q2, to), NEW j \in 1..Len(q2), j < h + 1,
                          NEW a \in Arms(q2[j].node)
                   PROVE  ArmTo(q2[j].node, a) \in Visited(q2)
      BY DEF Followed
    <3>2. CASE j < h
      BY <2>4, <3>1, <3>2 DEF Bfs, Followed
    <3>3. CASE ~(j < h)
      <4>1. j = h
        BY <2>4, <3>1, <3>3
      <4>2. a \in {1, 2}
        BY <2>2, <2>3, <2>4, <4>1, TrackFacts
      <4>3. ~Found(q1, to)
        BY <2>5, <3>1
      <4>4. QED
        BY <2>3, <2>4, <3>1, <4>1, <4>2, <4>3
    <3>4. QED
      BY <3>2, <3>3
  <2>7. h + 1 <= Len(q2) => e[Len(q2)] <= e[h + 1] + 1
    <3>1. SUFFICES ASSUME h + 1 <= Len(q2) PROVE e[Len(q2)] <= e[h + 1] + 1
      OBVIOUS
    <3>2. h + 1 \in 1..Len(q2) /\ Len(q2) \in 1..Len(q2) /\ h <= h + 1
      BY <2>4, <3>1
    <3>3. e[h] \in Nat /\ e[h + 1] \in Nat /\ e[Len(q2)] \in Nat /\ e[h] <= e[h + 1]
      BY <2>4, <3>2 DEF Bfs, Depths
    <3>4. e[Len(q2)] <= e[h] + 1
      BY <2>4 DEF Bfs
    <3>5. QED
      BY <3>3, <3>4
  <2>8. Bfs(q2, e, h + 1, from, to)
    BY <2>4, <2>6, <2>7 DEF Bfs
  <2>9. QED
    BY <2>1, <2>8
<1>4. QED
  BY <1>2, <1>3

SearchStep(after, from, to) ==
  [h \in 0..Cardinality(Nodes) |->
     IF h = 0 THEN <<Entry(from, 0, 1)>> ELSE Expand(h, to)[after[h - 1]]]

LEMMA SearchIsDefined ==
  ASSUME NEW from, NEW to
  PROVE  \E after : /\ after = SearchStep(after, from, to)
                    /\ Search(from, to) = after[Cardinality(Nodes)]
<1>1. PICK n \in Nat : n = Cardinality(Nodes)
  BY TrackFacts
<1> DEFINE p == [h \in 1..n |-> h - 1]
           step == [h \in 1..n |-> Expand(h, to)]
           base == <<Entry(from, 0, 1)>>
<1>2. p \in [1..n -> 0..n] /\ \A h \in 1..n : p[h] < h
  OBVIOUS
<1>3. \A h \in 0..n : h # 0 => h \in 1..n /\ p[h] = h - 1 /\ step[h] = Expand(h, to)
  OBVIOUS
<1> HIDE DEF p, step
<1>4. PICK after : Solves(after, n, base, p, step)
  <2> HIDE DEF base
  <2>1. QED
    BY <1>2, Recursion
<1>5. \A h \in 0..n : h # 0 => step[h][after[p[h]]] = Expand(h, to)[after[h - 1]]
  BY <1>3
<1>6. after = SearchStep(after, from, to)
  BY <1>1, <1>4, <1>5 DEF Solves, SearchStep
<1>7. PICK V : V = CHOOSE U : U = SearchStep(U, from, to)
  OBVIOUS
<1>8. V = SearchStep(V, from, to) /\ Search(from, to) = V[Cardinality(Nodes)]
  BY <1>6, <1>7 DEF Search, SearchStep
<1>9. QED
  BY <1>8

LEMMA BfsStarts ==
  ASSUME NEW from \in Nodes, NEW to
  PROVE  \E d : Bfs(<<Entry(from, 0, 1)>>, d, 1, from, to)
<1> DEFINE q == <<Entry(from, 0, 1)>>
           d == [i \in 1..1 |-> 0]
<1>1. Len(q) = 1 /\ q[1] = Entry(from, 0, 1) /\ q \in Seq(Entries)
  BY DEF Entry, Entries
<1>2. 1 <= Cardinality(Nodes)
  BY TrackFacts, FS_EmptySet
<1>3. q[1].node = from
  BY <1>1 DEF Entry
<1>4. \A i \in 1..1 : i = 1
  OBVIOUS
<1>5. 2..1 = {}
  OBVIOUS
<1>6. d \in [1..1 -> Nat] /\ d[1] = 0
  BY <1>4
<1> HIDE DEF q, d
<1>7. Linked(q, from)
  <2>1. q \in Queue /\ Len(q) > 0
    <3>1. Len(q) <= Cardinality(Nodes) /\ Len(q) > 0
      BY <1>1, <1>2
    <3>2. QED
      BY <1>1, <3>1 DEF Queue
  <2>2. \A i, j \in 1..Len(q) : i = j
    BY <1>1, <1>4
  <2>3. 2..Len(q) = {}
    BY <1>1, <1>5
  <2>4. QED
    BY <1>1, <2>1, <2>2, <2>3 DEF Linked
<1>8. Depths(q, d, from)
  BY <1>1, <1>3, <1>4, <1>5, <1>6, WithinFacts DEF Depths
<1>9. Followed(q, 1)
  BY <1>1, <1>4 DEF Followed
<1>10. Bfs(q, d, 1, from, to)
  BY <1>1, <1>4, <1>6, <1>7, <1>8, <1>9 DEF Bfs
<1>11. QED
  BY <1>10 DEF q

\* When the search has ended every turn has been made.
LEMMA SearchEnds ==
  ASSUME NEW from \in Nodes, NEW to
  PROVE  \E d : Bfs(Search(from, to), d, Cardinality(Nodes) + 1, from, to)
<1>1. PICK n \in Nat : n = Cardinality(Nodes)
  BY TrackFacts
<1>2. PICK after : after = SearchStep(after, from, to) /\ Search(from, to) = after[n]
  BY <1>1, SearchIsDefined
<1>3. \A h \in 0..n : after[h] = IF h = 0 THEN <<Entry(from, 0, 1)>> ELSE Expand(h, to)[after[h - 1]]
  BY <1>1, <1>2 DEF SearchStep
<1> DEFINE Good(h) == \E d : Bfs(after[h], d, h + 1, from, to)
           Bad == {h \in 0..n : ~Good(h)}
<1>4. Bad = {}
  <2>1. SUFFICES ASSUME Bad # {} PROVE FALSE
    OBVIOUS
  <2>2. Bad \in SUBSET Nat
    OBVIOUS
  <2>3. PICK h \in Bad : \A j \in Bad : h <= j
    BY <2>1, <2>2, LeastNatural
  <2>4. h \in 0..n /\ ~Good(h)
    BY <2>3
  <2>5. CASE h = 0
    <3>1. after[0] = <<Entry(from, 0, 1)>> /\ 0 + 1 = 1
      BY <1>3, <2>4, <2>5
    <3>2. QED
      BY <2>4, <2>5, <3>1, BfsStarts
  <2>6. CASE h # 0
    <3>1. h - 1 \in 0..n /\ ~(h <= h - 1) /\ h - 1 + 1 = h /\ h \in Nat \ {0}
      BY <2>4, <2>6
    <3>2. h - 1 \notin Bad
      BY <2>3, <3>1
    <3>3. PICK d : Bfs(after[h - 1], d, h, from, to)
      BY <3>1, <3>2
    <3>4. \E e : Bfs(Expand(h, to)[after[h - 1]], e, h + 1, from, to)
      BY <3>1, <3>3, TurnKeeps
    <3>5. after[h] = Expand(h, to)[after[h - 1]]
      BY <1>3, <2>4, <2>6
    <3>6. QED
      BY <2>4, <3>4, <3>5
  <2>7. QED
    BY <2>5, <2>6
<1>5. n \in 0..n
  BY <1>1
<1>6. QED
  BY <1>1, <1>2, <1>4, <1>5

\* The search ends with `to' only if edges lead there; the last entry is then at
\* its distance.
LEMMA SearchFinds ==
  ASSUME NEW from \in Nodes, NEW to \in Nodes \ {from}
  PROVE  LET q == Search(from, to)
         IN  /\ Linked(q, from)
             /\ Found(q, to) <=> Reachable(from, to)
             /\ \E d : Depths(q, d, from)
<1> DEFINE q == Search(from, to)
<1>1. PICK n \in Nat : n = Cardinality(Nodes)
  BY TrackFacts
<1>2. PICK d : Bfs(q, d, n + 1, from, to)
  BY <1>1, SearchEnds
<1> HIDE DEF q
<1>3. /\ Linked(q, from) /\ Depths(q, d, from)
      /\ Len(q) \in Nat \ {0} /\ Len(q) <= n
      /\ Visited(q) = {q[i].node : i \in 1..Len(q)}
  BY <1>1, <1>2, LinkedFacts DEF Bfs
<1>4. q[1].node = from /\ 1 \in 1..Len(q)
  BY <1>3 DEF Linked, Entry
<1>5. ASSUME Found(q, to) PROVE Reachable(from, to)
  <2>1. Len(q) \in 1..Len(q)
    BY <1>3
  <2>2. d[Len(q)] \in Nat /\ d[Len(q)] < Len(q) /\ q[Len(q)].node \in Within(from, d[Len(q)])
    BY <1>3, <2>1 DEF Depths
  <2>3. d[Len(q)] <= n
    BY <1>3, <2>2
  <2>4. Within(from, d[Len(q)]) \subseteq Within(from, n)
    BY <2>2, <2>3, WithinGrows
  <2>5. QED
    BY <1>1, <1>5, <2>2, <2>4 DEF Found, Reachable
<1>6. ASSUME ~Found(q, to) PROVE ~Reachable(from, to)
  <2>1. from \in Visited(q)
    BY <1>3, <1>4
  <2>2. Beyond(Visited(q)) \subseteq Visited(q)
    <3>1. SUFFICES ASSUME NEW x \in Visited(q), NEW nx \in Nodes, Follows(x, nx)
                   PROVE  nx \in Visited(q)
      BY DEF Beyond
    <3>2. PICK j \in 1..Len(q) : x = q[j].node
      BY <1>3
    <3>3. j < n + 1
      BY <1>3
    <3>4. PICK a \in Arms(x) : ArmTo(x, a) = nx
      BY <3>1, TrackFacts
    <3>5. QED
      BY <1>2, <1>6, <3>2, <3>3, <3>4 DEF Bfs, Followed
  <2>3. \A k \in 0..n - 1 : Within(from, k) \subseteq Visited(q) => Beyond(Within(from, k)) \subseteq Visited(q)
    BY <2>2 DEF Beyond
  <2>4. Within(from, n) \subseteq Visited(q)
    <3>1. \A k \in 0..n : Within(from, k) \subseteq Visited(q)
      BY <2>1, <2>3, WithinStays
    <3>2. n \in 0..n
      OBVIOUS
    <3>3. QED
      BY <3>1, <3>2
  <2>5. \A i \in 1..Len(q) : q[i].node # to
    <3>1. SUFFICES ASSUME NEW i \in 1..Len(q) PROVE q[i].node # to
      OBVIOUS
    <3>2. CASE i = 1
      BY <1>4, <3>2
    <3>3. CASE 1 < i /\ i < Len(q)
      BY <1>2, <3>3 DEF Bfs
    <3>4. CASE i = Len(q) /\ 1 < i
      BY <1>3, <1>6, <3>4 DEF Found
    <3>5. QED
      BY <1>3, <3>2, <3>3, <3>4
  <2>6. QED
    BY <1>1, <1>3, <2>4, <2>5 DEF Reachable
<1>7. QED
  BY <1>3, <1>5, <1>6 DEF q

-----------------------------------------------------------------------------
(* The route that is read back from the queue. *)

\* The arms sw are those of branches before entry i, each once.
ArmsBefore(sw, q, i) ==
  /\ sw \in Seq(Turnouts \X {1, 2})
  /\ \A j \in DOMAIN sw : \E p \in 1..i - 1 : q[p].node \in Branches /\ sw[j][1] = track[q[p].node].num
  /\ \A j, k \in DOMAIN sw : sw[j][1] = sw[k][1] => j = k

\* What nodes and sw are at entry i: a path from `from' along the edges, and the
\* arms of the branches on it, each once.
Path(nodes, sw, q, d, from, i) ==
  /\ nodes \in Seq(Nodes) /\ Len(nodes) = d[i] + 1
  /\ nodes[1] = from /\ nodes[Len(nodes)] = q[i].node
  /\ \A m \in 1..Len(nodes) - 1 : Follows(nodes[m], nodes[m + 1]) /\ Leads(nodes[m], nodes[m + 1], sw)
  /\ ArmsBefore(sw, q, i)

\* The arms at entry i, from those at its parent.
ArmsAt(q, i, sw) ==
  LET b == q[q[i].parent].node
  IN  IF b \in Branches THEN Append(sw, <<track[b].num, q[i].dir>>) ELSE sw

LEMMA PathBegins ==
  ASSUME NEW from \in Nodes, NEW q, NEW d, Linked(q, from), Depths(q, d, from)
  PROVE  Path(<<from>>, <<>>, q, d, from, 1)
<1> DEFINE ns == <<from>>
           sw == <<>>
<1>1. ns \in Seq(Nodes) /\ Len(ns) = 1 /\ ns[1] = from
  OBVIOUS
<1>2. sw \in Seq(Turnouts \X {1, 2}) /\ DOMAIN sw = {}
  OBVIOUS
<1>3. d[1] + 1 = 1 /\ q[1].node = from
  BY DEF Depths, Linked, Entry
<1>4. 1..Len(ns) - 1 = {}
  BY <1>1
<1> HIDE DEF ns, sw
<1>5. Path(ns, sw, q, d, from, 1)
  BY <1>1, <1>2, <1>3, <1>4 DEF Path, ArmsBefore
<1>6. QED
  BY <1>5 DEF ns, sw

\* Arms stay when more are added.
LEMMA LeadsStays ==
  ASSUME NEW T, NEW sw \in Seq(T), NEW x \in T, NEW n, NEW nx, Leads(n, nx, sw)
  PROVE  Leads(n, nx, Append(sw, x))
<1> DEFINE r == Append(sw, x)
<1>1. \A j \in DOMAIN sw : j \in DOMAIN r /\ r[j] = sw[j]
  BY AppendFacts
<1> HIDE DEF r
<1>2. CASE n \in Branches
  <2>1. PICK j \in DOMAIN sw : sw[j][1] = track[n].num /\ track[n].edge[sw[j][2]].dest = nx
    BY <1>2 DEF Leads
  <2>2. j \in DOMAIN r /\ r[j] = sw[j]
    BY <1>1
  <2>3. QED
    BY <1>2, <2>1, <2>2 DEF Leads, r
<1>3. CASE n \notin Branches
  BY <1>3 DEF Leads
<1>4. QED
  BY <1>2, <1>3

LEMMA ArmIsNew ==
  ASSUME NEW from \in Nodes, NEW q, Linked(q, from), NEW i \in 2..Len(q), NEW p, p = q[i].parent,
         NEW sw, ArmsBefore(sw, q, p)
  PROVE  /\ ArmsBefore(ArmsAt(q, i, sw), q, i)
         /\ Leads(q[p].node, q[i].node, ArmsAt(q, i, sw))
         /\ \A n, nx : Leads(n, nx, sw) => Leads(n, nx, ArmsAt(q, i, sw))
<1> DEFINE r == ArmsAt(q, i, sw)
           b == q[p].node
           a == q[i].dir
<1>0. /\ sw \in Seq(Turnouts \X {1, 2})
      /\ \A j \in DOMAIN sw : \E k \in 1..p - 1 : q[k].node \in Branches /\ sw[j][1] = track[q[k].node].num
      /\ \A j, k \in DOMAIN sw : sw[j][1] = sw[k][1] => j = k
  BY DEF ArmsBefore
<1>1. p \in 1..i - 1 /\ a \in Arms(b) /\ ArmTo(b, a) = q[i].node /\ i \in 1..Len(q)
  BY LinkedFacts DEF Linked
<1>2. p \in 1..Len(q) /\ p \in Nat
  BY <1>1, LinkedFacts
<1>3. b \in Nodes /\ a \in {1, 2}
  BY <1>1, <1>2, LinkedFacts, TrackFacts
<1>4. \A k \in 1..p - 1 : k \in 1..i - 1 /\ k \in 1..Len(q) /\ k # p
  BY <1>1, <1>2
<1>5. track[b].edge # <<>> /\ track[b].edge[a].dest = q[i].node
  <2>1. track[b].edge[a].dest = q[i].node
    BY <1>1 DEF ArmTo
  <2>2. DOMAIN track[b].edge # {}
    BY <1>1 DEF Arms
  <2>3. DOMAIN <<>> = {}
    OBVIOUS
  <2>4. QED
    BY <2>1, <2>2, <2>3
<1>6. CASE b \in Branches
  <2> DEFINE x == <<track[b].num, a>>
  <2>1. x \in Turnouts \X {1, 2} /\ x[1] = track[b].num /\ x[2] = a
    BY <1>3, <1>6 DEF Turnouts
  <2> HIDE DEF x
  <2>2. r = Append(sw, x)
    BY <1>6 DEF ArmsAt, x
  <2>3. /\ r \in Seq(Turnouts \X {1, 2}) /\ Len(sw) \in Nat
        /\ DOMAIN sw = 1..Len(sw) /\ DOMAIN r = 1..(Len(sw) + 1)
        /\ \A j \in DOMAIN sw : r[j] = sw[j]
        /\ r[Len(sw) + 1] = x
    BY <1>0, <2>1, <2>2, AppendFacts
  <2>4. \A n, nx : Leads(n, nx, sw) => Leads(n, nx, r)
    BY <1>0, <2>1, <2>2, LeadsStays
  <2> HIDE DEF r, a, b
  <2>5. /\ \A j \in DOMAIN r : j \in DOMAIN sw \/ j = Len(sw) + 1
        /\ Len(sw) + 1 \in DOMAIN r
    BY <2>3
  <2>6. \A j \in DOMAIN sw : sw[j][1] # track[b].num
    <3>1. SUFFICES ASSUME NEW j \in DOMAIN sw, sw[j][1] = track[b].num PROVE FALSE
      OBVIOUS
    <3>2. PICK k \in 1..p - 1 : q[k].node \in Branches /\ sw[j][1] = track[q[k].node].num
      BY <1>0
    <3>3. q[k].node = b
      <4>1. \A b1, b2 \in Branches : track[b1].num = track[b2].num => b1 = b2
        BY TrackAssumption DEF TrackFits
      <4>2. QED
        BY <1>6, <3>1, <3>2, <4>1
    <3>4. k = p
      BY <1>2, <1>4, <3>3 DEF b, Linked
    <3>5. QED
      BY <1>4, <3>4
  <2>7. \A j \in DOMAIN r : \E k \in 1..i - 1 : q[k].node \in Branches /\ r[j][1] = track[q[k].node].num
    <3>1. SUFFICES ASSUME NEW j \in DOMAIN r
                   PROVE  \E k \in 1..i - 1 : q[k].node \in Branches /\ r[j][1] = track[q[k].node].num
      OBVIOUS
    <3>2. CASE j \in DOMAIN sw
      <4>1. PICK k \in 1..p - 1 : q[k].node \in Branches /\ sw[j][1] = track[q[k].node].num
        BY <1>0, <3>2
      <4>2. QED
        BY <1>4, <2>3, <3>2, <4>1
    <3>3. CASE j = Len(sw) + 1
      BY <1>1, <1>6, <2>1, <2>3, <3>3 DEF b
    <3>4. QED
      BY <2>5, <3>2, <3>3
  <2>8. \A j, k \in DOMAIN r : r[j][1] = r[k][1] => j = k
    BY <1>0, <2>1, <2>3, <2>5, <2>6
  <2>9. Leads(b, q[i].node, r)
    BY <1>5, <1>6, <2>1, <2>3, <2>5 DEF Leads
  <2>10. ArmsBefore(r, q, i)
    BY <2>3, <2>7, <2>8 DEF ArmsBefore
  <2>11. QED
    BY <2>4, <2>9, <2>10 DEF r, b
<1>7. CASE b \notin Branches
  <2>1. r = sw
    BY <1>7 DEF ArmsAt
  <2>2. a = 1
    <3>1. PICK l \in 0..2 : l = Len(track[b].edge)
      BY <1>3, TrackFacts
    <3>2. l # 2 /\ a \in 1..l
      BY <1>1, <1>3, <1>7, <3>1, TrackFacts
    <3>3. QED
      BY <3>2
  <2>3. Leads(b, q[i].node, r)
    BY <1>5, <1>7, <2>2 DEF Leads
  <2>4. \A j \in DOMAIN sw : \E k \in 1..i - 1 : q[k].node \in Branches /\ sw[j][1] = track[q[k].node].num
    BY <1>0, <1>4
  <2>5. ArmsBefore(sw, q, i)
    BY <1>0, <2>4 DEF ArmsBefore
  <2>6. QED
    BY <2>1, <2>3, <2>5
<1>8. QED
  BY <1>6, <1>7

LEMMA PathGoesOn ==
  ASSUME NEW from \in Nodes, NEW q, NEW d, Linked(q, from), Depths(q, d, from),
         NEW i \in 2..Len(q), NEW nodes, NEW sw, Path(nodes, sw, q, d, from, q[i].parent)
  PROVE  Path(Append(nodes, q[i].node), ArmsAt(q, i, sw), q, d, from, i)
<1> DEFINE r == Append(nodes, q[i].node)
           arms == ArmsAt(q, i, sw)
<1>1. PICK p : p = q[i].parent
  OBVIOUS
<1>2. p \in 1..i - 1 /\ i \in 1..Len(q) /\ q[i].node \in Nodes /\ Len(q) \in Nat
  <2>1. Len(q) \in Nat /\ \A j \in 1..Len(q) : q[j].node \in Nodes
    BY LinkedFacts
  <2>2. i \in 1..Len(q)
    BY <2>1
  <2>3. p \in 1..i - 1
    BY <1>1 DEF Linked
  <2>4. QED
    BY <2>1, <2>2, <2>3
<1>3. p \in 1..Len(q) /\ d[i] = d[p] + 1 /\ d[p] \in Nat
  BY <1>1, <1>2 DEF Depths
<1>4. PICK L \in Nat \ {0} : L = Len(nodes)
  BY <1>1, <1>3 DEF Path
<1>5. nodes \in Seq(Nodes) /\ L = d[p] + 1 /\ nodes[1] = from /\ nodes[L] = q[p].node
  BY <1>1, <1>4 DEF Path
<1>6. /\ r \in Seq(Nodes) /\ Len(r) = L + 1
      /\ \A m \in 1..L : r[m] = nodes[m]
      /\ r[L + 1] = q[i].node
  <2>1. /\ r \in Seq(Nodes) /\ DOMAIN nodes = 1..L /\ DOMAIN r = 1..L + 1
        /\ \A m \in DOMAIN nodes : r[m] = nodes[m]
        /\ r[L + 1] = q[i].node
    <3>1. nodes \in Seq(Nodes) /\ q[i].node \in Nodes
      BY <1>2, <1>5
    <3>2. /\ r \in Seq(Nodes)
          /\ DOMAIN nodes = 1..Len(nodes) /\ DOMAIN r = 1..(Len(nodes) + 1)
          /\ \A m \in DOMAIN nodes : r[m] = nodes[m]
          /\ r[Len(nodes) + 1] = q[i].node
      BY <3>1, AppendFacts
    <3>3. QED
      BY <1>4, <3>2
  <2> HIDE DEF r
  <2>2. Len(r) = L + 1
    <3>1. Len(r) \in Nat /\ DOMAIN r = 1..Len(r)
      BY <2>1, LenProperties
    <3>2. QED
      BY <2>1, <3>1
  <2>3. QED
    BY <2>1, <2>2
<1>7. /\ ArmsBefore(arms, q, i)
      /\ Leads(q[p].node, q[i].node, arms)
      /\ \A n, nx : Leads(n, nx, sw) => Leads(n, nx, arms)
  <2>1. ArmsBefore(sw, q, p)
    BY <1>1 DEF Path
  <2>2. QED
    BY <1>1, <2>1, ArmIsNew
<1> HIDE DEF r, arms
<1>8. Follows(q[p].node, q[i].node)
  <2>1. q[i].dir \in Arms(q[p].node) /\ ArmTo(q[p].node, q[i].dir) = q[i].node
    BY <1>1 DEF Linked
  <2>2. QED
    BY <2>1, TrackFacts
<1>9. ASSUME NEW m \in 1..Len(r) - 1
      PROVE  Follows(r[m], r[m + 1]) /\ Leads(r[m], r[m + 1], arms)
  <2>1. CASE m = L
    BY <1>4, <1>5, <1>6, <1>7, <1>8, <2>1
  <2>2. CASE m # L
    <3>1. m \in 1..L - 1 /\ m \in 1..L /\ m + 1 \in 1..L
      BY <1>6, <2>2
    <3>2. r[m] = nodes[m] /\ r[m + 1] = nodes[m + 1]
      BY <1>6, <3>1
    <3>3. Follows(nodes[m], nodes[m + 1]) /\ Leads(nodes[m], nodes[m + 1], sw)
      BY <1>4, <3>1 DEF Path
    <3>4. QED
      BY <1>7, <3>2, <3>3
  <2>3. QED
    BY <2>1, <2>2
<1>10. Len(r) = d[i] + 1 /\ r[1] = from /\ r[Len(r)] = q[i].node
  <2>1. 1 \in 1..L
    OBVIOUS
  <2>2. r[1] = nodes[1] /\ Len(r) = L + 1 /\ r[L + 1] = q[i].node
    BY <1>6, <2>1
  <2>3. QED
    BY <1>3, <1>5, <2>2
<1>11. Path(r, arms, q, d, from, i)
  BY <1>6, <1>7, <1>9, <1>10 DEF Path
<1>12. QED
  BY <1>11 DEF r, arms

NodesStep(f, q) ==
  [i \in 0..Len(q) |-> IF i = 0 THEN <<>> ELSE Append(f[q[i].parent], q[i].node)]

SwitchStep(f, q) ==
  [i \in 0..Len(q) |-> IF i = 0 \/ q[i].parent = 0 THEN <<>>
                       ELSE LET b == q[q[i].parent].node
                            IN  IF b \in Branches
                                THEN Append(f[q[i].parent], <<track[b].num, q[i].dir>>)
                                ELSE f[q[i].parent]]

LEMMA ParentsAreBefore ==
  ASSUME NEW from, NEW q, Linked(q, from)
  PROVE  /\ Len(q) \in Nat
         /\ [i \in 1..Len(q) |-> q[i].parent] \in [1..Len(q) -> 0..Len(q)]
         /\ \A i \in 1..Len(q) : q[i].parent < i /\ (q[i].parent = 0 <=> i = 1)
<1>1. Len(q) \in Nat
  BY LinkedFacts
<1>2. ASSUME NEW i \in 1..Len(q)
      PROVE  q[i].parent \in 0..Len(q) /\ q[i].parent < i /\ (q[i].parent = 0 <=> i = 1)
  <2>1. CASE i = 1
    BY <1>1, <2>1 DEF Linked, Entry
  <2>2. CASE i # 1
    <3>1. i \in 2..Len(q)
      BY <1>1, <2>2
    <3>2. q[i].parent \in 1..i - 1
      BY <3>1 DEF Linked
    <3>3. QED
      BY <1>1, <2>2, <3>2
  <2>3. QED
    BY <2>1, <2>2
<1>3. QED
  BY <1>1, <1>2

LEMMA NodesDefined ==
  ASSUME NEW from, NEW q, Linked(q, from)
  PROVE  \E f : f = NodesStep(f, q)
<1> DEFINE n == Len(q)
           p == [i \in 1..n |-> q[i].parent]
           S == Seq(Nodes)
           step == [i \in 1..n |-> [V \in S |-> Append(V, q[i].node)]]
           base == <<>>
<1>1. n \in Nat /\ p \in [1..n -> 0..n] /\ \A i \in 1..n : p[i] < i /\ p[i] = q[i].parent
  BY ParentsAreBefore
<1>2. \A i \in 1..n : q[i].node \in Nodes
  BY LinkedFacts
<1>3. base \in S
  OBVIOUS
<1>4. step \in [1..n -> [S -> S]]
  <2>1. \A i \in 1..n, V \in S : Append(V, q[i].node) \in S
    BY <1>2
  <2> HIDE DEF S, n
  <2>2. QED
    BY <2>1
<1>5. \A i \in 1..n, V \in S : step[i][V] = Append(V, q[i].node)
  OBVIOUS
<1> HIDE DEF n, p, S, step
<1>6. PICK f : Solves(f, n, base, p, step)
  BY <1>1, Recursion
<1>7. f \in [0..n -> S]
  BY <1>1, <1>3, <1>4, <1>6, RecursionStays
<1>8. \A i \in 0..n : i # 0 => step[i][f[p[i]]] = Append(f[q[i].parent], q[i].node)
  <2>1. \A i \in 0..n : i # 0 => i \in 1..n
    BY <1>1
  <2>2. \A i \in 1..n : p[i] \in 0..n
    BY <1>1
  <2>3. \A i \in 1..n : f[p[i]] \in S
    BY <1>7, <2>2
  <2>4. QED
    BY <1>1, <1>5, <2>1, <2>3
<1>9. f = NodesStep(f, q)
  BY <1>6, <1>8 DEF Solves, NodesStep, n
<1>10. QED
  BY <1>9

LEMMA SwitchesDefined ==
  ASSUME NEW from, NEW q, Linked(q, from)
  PROVE  \E f : f = SwitchStep(f, q)
<1> DEFINE n == Len(q)
           p == [i \in 1..n |-> q[i].parent]
           S == Seq(Turnouts \X {1, 2})
           at(i, V) == IF q[i].parent = 0 THEN <<>> ELSE ArmsAt(q, i, V)
           step == [i \in 1..n |-> [V \in S |-> at(i, V)]]
           base == <<>>
<1>1. n \in Nat /\ p \in [1..n -> 0..n] /\ \A i \in 1..n : p[i] < i /\ p[i] = q[i].parent
  BY ParentsAreBefore
<1>2. base \in S
  OBVIOUS
<1>3. ASSUME NEW i \in 1..n, NEW V \in S PROVE at(i, V) \in S
  <2>1. CASE q[i].parent = 0
    BY <1>2, <2>1
  <2>2. CASE q[i].parent # 0 /\ q[q[i].parent].node \in Branches
    <3>1. q[i].dir \in {1, 2}
      BY LinkedFacts
    <3>2. <<track[q[q[i].parent].node].num, q[i].dir>> \in Turnouts \X {1, 2}
      BY <2>2, <3>1 DEF Turnouts
    <3>3. QED
      BY <2>2, <3>2, AppendFacts DEF ArmsAt
  <2>3. CASE q[i].parent # 0 /\ q[q[i].parent].node \notin Branches
    BY <2>3 DEF ArmsAt
  <2>4. QED
    BY <2>1, <2>2, <2>3
<1> HIDE DEF n, p, S, at
<1>4. step \in [1..n -> [S -> S]]
  BY <1>3
<1>5. \A i \in 1..n, V \in S : step[i][V] = at(i, V)
  OBVIOUS
<1> HIDE DEF step
<1>6. PICK f : Solves(f, n, base, p, step)
  BY <1>1, Recursion
<1>7. f \in [0..n -> S]
  BY <1>1, <1>2, <1>4, <1>6, RecursionStays
<1>8. \A i \in 0..n : i # 0 => step[i][f[p[i]]] = at(i, f[q[i].parent])
  <2>1. \A i \in 0..n : i # 0 => i \in 1..n
    BY <1>1
  <2>2. \A i \in 1..n : p[i] \in 0..n
    BY <1>1
  <2>3. \A i \in 1..n : f[p[i]] \in S
    BY <1>7, <2>2
  <2>4. QED
    BY <1>1, <1>5, <2>1, <2>3
<1>9. f = [i \in 0..n |-> IF i = 0 THEN <<>> ELSE at(i, f[q[i].parent])]
  BY <1>6, <1>8 DEF Solves
<1>10. f = SwitchStep(f, q)
  BY <1>9 DEF SwitchStep, at, n, ArmsAt
<1>11. QED
  BY <1>10

IsReadBack(r, nodes, sw, q) ==
  /\ nodes = NodesStep(nodes, q) /\ sw = SwitchStep(sw, q)
  /\ r = [nodes |-> nodes[Len(q)], sw |-> sw[Len(q)]]

LEMMA ReadBack ==
  ASSUME NEW from, NEW to, NEW q, Linked(q, from), Found(q, to)
  PROVE  \E nodes, sw : IsReadBack(Reconstruct(to)[q], nodes, sw, q)
<1>1. PICK nodes : nodes = CHOOSE f : f = NodesStep(f, q)
  OBVIOUS
<1>2. PICK sw : sw = CHOOSE f : f = SwitchStep(f, q)
  OBVIOUS
<1>3. nodes = NodesStep(nodes, q)
  BY <1>1, NodesDefined
<1>4. sw = SwitchStep(sw, q)
  BY <1>2, SwitchesDefined
<1>5. Reconstruct(to)[q] = [nodes |-> nodes[Len(q)], sw |-> sw[Len(q)]]
  <2>1. q \in Queue
    BY DEF Linked
  <2>2. QED
    BY <1>1, <1>2, <2>1 DEF Reconstruct, NodesStep, SwitchStep
<1>6. QED
  BY <1>3, <1>4, <1>5 DEF IsReadBack

\* At every entry there is a path.
LEMMA PathAtEntry ==
  ASSUME NEW from \in Nodes, NEW q, NEW d, Linked(q, from), Depths(q, d, from),
         NEW nodes, nodes = NodesStep(nodes, q), NEW sw, sw = SwitchStep(sw, q)
  PROVE  \A i \in 1..Len(q) : Path(nodes[i], sw[i], q, d, from, i)
<1> DEFINE Good(i) == Path(nodes[i], sw[i], q, d, from, i)
           Bad == {i \in 1..Len(q) : ~Good(i)}
<1>1. SUFFICES ASSUME Bad # {} PROVE FALSE
  OBVIOUS
<1>2. Bad \in SUBSET Nat
  OBVIOUS
<1>3. PICK i \in Bad : \A j \in Bad : i <= j
  BY <1>1, <1>2, LeastNatural
<1>4. i \in 1..Len(q) /\ ~Good(i) /\ i \in 0..Len(q) /\ i # 0
  BY <1>3
<1>5. PICK p : p = q[i].parent
  OBVIOUS
<1>6. /\ nodes[i] = Append(nodes[p], q[i].node)
      /\ sw[i] = IF p = 0 THEN <<>> ELSE ArmsAt(q, i, sw[p])
  <2>1. nodes[i] = Append(nodes[p], q[i].node)
    BY <1>4, <1>5 DEF NodesStep
  <2>2. sw[i] = IF p = 0 THEN <<>> ELSE ArmsAt(q, i, sw[p])
    BY <1>4, <1>5 DEF SwitchStep, ArmsAt
  <2>3. QED
    BY <2>1, <2>2
<1>7. CASE i = 1
  <2>1. p = 0 /\ q[i].node = from
    BY <1>5, <1>7 DEF Linked, Entry
  <2>2. nodes[0] = <<>>
    <3>1. 0 \in 0..Len(q)
      BY ParentsAreBefore
    <3>2. QED
      BY <3>1 DEF NodesStep
  <2>3. Append(<<>>, from) = <<from>>
    OBVIOUS
  <2>4. nodes[i] = <<from>> /\ sw[i] = <<>>
    BY <1>6, <2>1, <2>2, <2>3
  <2>5. QED
    BY <1>4, <1>7, <2>4, PathBegins
<1>8. CASE i # 1
  <2>1. i \in 2..Len(q)
    BY <1>4, <1>8
  <2>2. p \in 1..i - 1
    BY <1>5, <2>1 DEF Linked
  <2>3. p \in 1..Len(q) /\ p # 0 /\ ~(i <= p)
    BY <2>1, <2>2
  <2>4. p \notin Bad
    BY <1>3, <2>3
  <2>5. Good(p)
    BY <2>3, <2>4
  <2>6. QED
    BY <1>4, <1>5, <1>6, <2>1, <2>3, <2>5, PathGoesOn
<1>9. QED
  BY <1>7, <1>8

\* A route is found if and only if edges lead to its end; it is then a shortest
\* one, and the turnouts it sets lead along it.
LEMMA RouteIsFound ==
  ASSUME NEW from \in Nodes, NEW to \in Nodes \ {from}
  PROVE  LET r == route_find(from, to)
         IN  IF Reachable(from, to) THEN /\ r # NoRoute /\ LeadsAlong(r)
                                         /\ IsShortestPath(r.nodes, from, to)
             ELSE r = NoRoute
<1> DEFINE q == Search(from, to)
           r == route_find(from, to)
<1>1. Linked(q, from) /\ (Found(q, to) <=> Reachable(from, to)) /\ \E d : Depths(q, d, from)
  BY SearchFinds
<1>2. r = Reconstruct(to)[q]
  BY DEF route_find
<1> HIDE DEF q, r
<1>3. CASE ~Found(q, to)
  <2>1. q \in Queue
    BY <1>1 DEF Linked
  <2>2. r = NoRoute
    BY <1>2, <1>3, <2>1 DEF Reconstruct
  <2>3. QED
    BY <1>1, <1>3, <2>2 DEF r
<1>4. CASE Found(q, to)
  <2>1. PICK d : Depths(q, d, from)
    BY <1>1
  <2>2. PICK nodes, sw : IsReadBack(r, nodes, sw, q)
    BY <1>1, <1>2, <1>4, ReadBack
  <2>3. PICK L \in Nat : L = Len(q) /\ L > 1 /\ q[L].node = to
    BY <1>1, <1>4, LinkedFacts DEF Found
  <2>4. L \in 1..Len(q)
    BY <2>3
  <2>5. Path(nodes[L], sw[L], q, d, from, L)
    BY <1>1, <2>1, <2>2, <2>4, PathAtEntry DEF IsReadBack
  <2>6. r.nodes = nodes[L] /\ r.sw = sw[L]
    BY <2>2, <2>3 DEF IsReadBack
  <2>7. PICK m \in Nat : m = d[L]
    BY <2>1, <2>4 DEF Depths
  <2>8. /\ r.nodes \in Seq(Nodes) /\ Len(r.nodes) = m + 1
        /\ r.nodes[1] = from /\ r.nodes[Len(r.nodes)] = to
    BY <2>3, <2>5, <2>6, <2>7 DEF Path
  <2>9. m # 0
    BY <2>8
  <2>10. to \notin Within(from, Len(r.nodes) - 2)
    <3>1. m - 1 \in Nat /\ m - 1 < m /\ Len(r.nodes) - 2 = m - 1
      BY <2>8, <2>9
    <3>2. q[L].node \notin Within(from, m - 1)
      BY <2>1, <2>4, <2>7, <3>1 DEF Depths
    <3>3. QED
      BY <2>3, <3>1, <3>2
  <2>11. r.nodes # <<>> /\ NoRoute.nodes = <<>>
    <3>1. Len(<<>>) = 0 /\ Len(r.nodes) # 0
      BY <2>8
    <3>2. QED
      BY <3>1 DEF NoRoute
  <2>12. IsShortestPath(r.nodes, from, to)
    BY <2>5, <2>6, <2>8, <2>10, <2>11 DEF IsShortestPath, Path
  <2>13. LeadsAlong(r)
    BY <2>5, <2>6 DEF LeadsAlong, Path, ArmsBefore
  <2>14. QED
    BY <1>1, <1>4, <2>11, <2>12, <2>13 DEF r
<1>5. QED
  BY <1>3, <1>4

LEMMA NoRouteToItself == ASSUME NEW from \in Nodes PROVE route_find(from, from) = NoRoute
<1>1. PICK d : Bfs(Search(from, from), d, Cardinality(Nodes) + 1, from, from)
  BY SearchEnds
<1> DEFINE q == Search(from, from)
<1>2. Linked(q, from)
  BY <1>1 DEF Bfs
<1> HIDE DEF q
<1>3. ~Found(q, from)
  <2>1. SUFFICES ASSUME Len(q) > 1, q[Len(q)].node = from PROVE FALSE
    BY DEF Found
  <2>2. q[1].node = from /\ 1 \in 1..Len(q) /\ Len(q) \in 1..Len(q)
    BY <1>2, LinkedFacts DEF Linked, Entry
  <2>3. 1 = Len(q)
    BY <1>2, <2>1, <2>2 DEF Linked
  <2>4. Len(q) > 1
    BY <2>1
  <2>5. 1 > 1
    BY <2>3, <2>4
  <2>6. QED
    BY <2>5
<1>4. q \in Queue
  BY <1>2 DEF Linked
<1>5. QED
  BY <1>3, <1>4 DEF route_find, Reconstruct, q

\* With the turnouts a route sets, the track leads along it.
LEMMA RoutesFit ==
  \A from, to \in Sensors : route_find(from, to) # NoRoute => LeadsAlong(route_find(from, to))
<1>1. SUFFICES ASSUME NEW from \in Sensors, NEW to \in Sensors, route_find(from, to) # NoRoute
               PROVE  LeadsAlong(route_find(from, to))
  OBVIOUS
<1>2. from \in Nodes /\ to \in Nodes
  BY DEF Sensors
<1>3. from # to
  BY <1>1, <1>2, NoRouteToItself
<1>4. QED
  BY <1>1, <1>2, <1>3, RouteIsFound

-----------------------------------------------------------------------------
(* Commands on the line. *)

\* Bytes of the command that starts at b.
Size(w, b) == IF w[b] < 16 THEN 2 ELSE IF w[b] < SENSOR_BASE THEN 3 ELSE 1

FirstBytes == (0..15) \cup {SW_BASE + 1, SW_BASE + 2} \cup {SENSOR_BASE + MODULES}

\* A command is all there before the next one begins.
Framed(w, B) ==
  /\ B \subseteq 1..(Len(w) + 1) /\ 1 \in B /\ Len(w) + 1 \in B
  /\ \A b \in B : b # Len(w) + 1 =>
       /\ w[b] \in FirstBytes
       /\ w[b] < 16 => w[b + 1] = TRAIN_ADDR
       /\ b + Size(w, b) \in B /\ \A c \in B : c <= b \/ c >= b + Size(w, b)

\* What the command at b is about, and what it makes of it.
About(w, b) ==
  IF w[b] < 16 THEN <<"speed", w[b + 1]>>
  ELSE IF w[b] < SENSOR_BASE THEN <<"switch", w[b + 1]>> ELSE <<"poll", 0>>
Value(w, b) == IF w[b] < 16 THEN w[b] ELSE w[b] - SW_BASE

\* v is what the last command about k makes of it, or what it was.
LastOf(w, B, k, old, v) ==
  \/ \E b \in B : /\ b # Len(w) + 1 /\ About(w, b) = k /\ Value(w, b) = v
                  /\ \A c \in B : c > b /\ c # Len(w) + 1 => About(w, c) # k
  \/ v = old /\ \A c \in B : c # Len(w) + 1 => About(w, c) # k

\* A sequence, of whatever it is.
IsSeq(w) == \E S : w \in Seq(S)

LEMMA FirstBytesAre ==
  \A x \in FirstBytes :
    /\ x \in Nat
    /\ x < 16 \/ x \in {SW_BASE + 1, SW_BASE + 2} \/ x > SENSOR_BASE
    /\ x < 16 => x < SENSOR_BASE
BY TrainAssumption DEF FirstBytes, SW_BASE, SENSOR_BASE

\* A command that joins the line is the last one about its thing.
LEMMA CommandJoins ==
  ASSUME NEW S, NEW w \in Seq(S), NEW t \in Seq(S), NEW B, Framed(w, B),
         t # <<>>, t[1] \in FirstBytes, t[1] < 16 => t[2] = TRAIN_ADDR, Len(t) = Size(t, 1)
  PROVE  LET r == w \o t
             C == B \cup {Len(r) + 1}
         IN  /\ r \in Seq(S) /\ Framed(r, C)
             /\ \A k, old, v : LastOf(w, B, k, old, v) /\ About(t, 1) # k => LastOf(r, C, k, old, v)
             /\ \A old : LastOf(r, C, About(t, 1), old, Value(t, 1))
<1> DEFINE r == w \o t
           C == B \cup {Len(r) + 1}
           n == Len(w)
<1>1. /\ n \in Nat /\ Len(t) \in Nat /\ Len(t) > 0
      /\ r \in Seq(S) /\ Len(r) = n + Len(t)
      /\ \A i \in 1..n : r[i] = w[i]
      /\ \A i \in 1..Len(t) : r[n + i] = t[i]
  <2>1. n \in Nat /\ Len(t) \in Nat /\ Len(t) > 0
    BY LenProperties, EmptySeq
  <2>2. /\ r \in Seq(S) /\ Len(r) = n + Len(t)
        /\ \A i \in 1..(n + Len(t)) : r[i] = IF i <= n THEN w[i] ELSE t[i - n]
    BY ConcatProperties
  <2>3. \A i \in 1..Len(t) : n + i \in 1..(n + Len(t)) /\ ~(n + i <= n) /\ n + i - n = i
    BY <2>1
  <2>4. \A i \in 1..n : i \in 1..(n + Len(t)) /\ i <= n
    BY <2>1
  <2> HIDE DEF r, n
  <2>5. QED
    BY <2>1, <2>2, <2>3, <2>4
<1>2. /\ B \subseteq 1..(n + 1) /\ 1 \in B /\ n + 1 \in B
      /\ \A b \in B : b # n + 1 => b \in 1..n /\ w[b] \in FirstBytes
      /\ \A b \in B : b # n + 1 => b + Size(w, b) \in B
      /\ \A b \in B : b # n + 1 /\ w[b] < 16 => w[b + 1] = TRAIN_ADDR
      /\ \A b, c \in B : b # n + 1 => c <= b \/ c >= b + Size(w, b)
  BY <1>1 DEF Framed
<1> HIDE DEF r, n
<1>3. Len(t) \in {1, 2, 3} /\ t[1] \in Nat
  BY FirstBytesAre DEF Size
<1>4. Size(r, n + 1) = Len(t) /\ r[n + 1] = t[1] /\ (t[1] < 16 => r[n + 1 + 1] = t[2] /\ 2 \in 1..Len(t))
  <2>1. 1 \in 1..Len(t)
    BY <1>1
  <2>2. r[n + 1] = t[1]
    BY <1>1, <2>1
  <2>3. Size(r, n + 1) = Size(t, 1)
    BY <2>2 DEF Size
  <2>4. ASSUME t[1] < 16 PROVE r[n + 1 + 1] = t[2] /\ 2 \in 1..Len(t)
    <3>1. Len(t) = 2
      BY <2>4 DEF Size
    <3>2. 2 \in 1..Len(t) /\ n + 1 + 1 = n + 2
      <4>1. n \in Nat
        BY <1>1
      <4>2. n + 1 + 1 = n + 2
        BY <4>1
      <4>3. 2 \in 1..Len(t)
        <5>1. 2 \in 1..2
          OBVIOUS
        <5>2. QED
          BY <3>1, <5>1, Zenon
      <4>4. QED
        BY <4>2, <4>3
    <3>3. r[n + 2] = t[2]
      BY <1>1, <3>2
    <3>4. r[n + 1 + 1] = t[2]
      BY <3>2, <3>3, Zenon
    <3>5. QED
      BY <3>2, <3>4
  <2>5. QED
    BY <2>2, <2>3, <2>4
<1>5. ASSUME NEW b \in B, b # n + 1
      PROVE  /\ b \in 1..n /\ r[b] = w[b] /\ Size(r, b) = Size(w, b) /\ b + Size(w, b) <= n + 1
             /\ Size(w, b) \in {1, 2, 3}
             /\ About(r, b) = About(w, b) /\ Value(r, b) = Value(w, b)
             /\ (r[b] < 16 => r[b + 1] = w[b + 1])
  <2>1. b \in 1..n /\ r[b] = w[b] /\ Size(r, b) = Size(w, b) /\ Value(r, b) = Value(w, b)
    BY <1>1, <1>2, <1>5 DEF Size, Value
  <2>2. Size(w, b) \in {1, 2, 3} /\ b + Size(w, b) <= n + 1
    <3>1. b + Size(w, b) \in 1..(n + 1)
      BY <1>2, <1>5
    <3>2. QED
      BY <1>1, <3>1 DEF Size
  <2>3. w[b] < SENSOR_BASE => r[b + 1] = w[b + 1]
    <3> SUFFICES ASSUME w[b] < SENSOR_BASE PROVE r[b + 1] = w[b + 1]
      OBVIOUS
    <3>1. Size(w, b) > 1
      BY DEF Size
    <3>2. b + 1 \in 1..n
      BY <1>1, <2>1, <2>2, <3>1
    <3>3. QED
      BY <1>1, <3>2
  <2>4. w[b] \in Nat /\ (w[b] < 16 => w[b] < SENSOR_BASE)
    BY <1>2, <1>5, FirstBytesAre
  <2>5. About(r, b) = About(w, b)
    BY <2>1, <2>3, <2>4 DEF About
  <2>6. QED
    BY <2>1, <2>2, <2>3, <2>4, <2>5
<1>6. About(r, n + 1) = About(t, 1) /\ Value(r, n + 1) = Value(t, 1)
  <2>1. t[1] < SENSOR_BASE => r[n + 1 + 1] = t[1 + 1]
    <3> SUFFICES ASSUME t[1] < SENSOR_BASE PROVE r[n + 1 + 1] = t[1 + 1]
      OBVIOUS
    <3>1. Len(t) \in {2, 3}
      BY DEF Size
    <3>2. 2 \in 1..Len(t) /\ n + 1 + 1 = n + 2 /\ 1 + 1 = 2
      BY <1>1, <3>1
    <3>3. r[n + 2] = t[2]
      BY <1>1, <3>2
    <3>4. QED
      BY <3>2, <3>3
  <2>2. t[1] \in Nat /\ (t[1] < 16 => t[1] < SENSOR_BASE)
    BY FirstBytesAre
  <2>3. QED
    BY <1>4, <2>1, <2>2 DEF About, Value
<1>7. Framed(r, C)
  <2>1. C \subseteq 1..(Len(r) + 1) /\ 1 \in C /\ Len(r) + 1 \in C
    <3>1. \A c \in 1..(n + 1) : c \in 1..(Len(r) + 1)
      BY <1>1
    <3>2. Len(r) + 1 \in 1..(Len(r) + 1)
      BY <1>1
    <3>3. QED
      BY <1>2, <3>1, <3>2
  <2>2. ASSUME NEW b \in C, b # Len(r) + 1
        PROVE  /\ r[b] \in FirstBytes
               /\ r[b] < 16 => r[b + 1] = TRAIN_ADDR
               /\ b + Size(r, b) \in C /\ \A c \in C : c <= b \/ c >= b + Size(r, b)
    <3>1. CASE b # n + 1
      <4>1. b \in B
        BY <2>2
      <4>2. \A c \in B : c <= b \/ c >= b + Size(r, b)
        BY <1>2, <1>5, <3>1, <4>1
      <4>3. Len(r) + 1 >= b + Size(r, b)
        <5>1. b \in Nat /\ Size(r, b) \in Nat /\ b + Size(r, b) <= n + 1
          BY <1>5, <3>1, <4>1
        <5>2. QED
          BY <1>1, <5>1
      <4>4. QED
        BY <1>2, <1>5, <3>1, <4>1, <4>2, <4>3
    <3>2. CASE b = n + 1
      <4>1. b + Size(r, b) = Len(r) + 1
        BY <1>1, <1>4, <3>2
      <4>2. \A c \in C : c <= b \/ c >= b + Size(r, b)
        BY <1>1, <1>2, <3>2, <4>1
      <4>3. QED
        BY <1>4, <3>2, <4>1, <4>2
    <3>3. QED
      BY <3>1, <3>2
  <2> HIDE DEF C
  <2>3. QED
    BY <2>1, <2>2 DEF Framed
<1>8. ASSUME NEW k, NEW old, NEW v, LastOf(w, B, k, old, v), About(t, 1) # k
      PROVE  LastOf(r, C, k, old, v)
  <2>1. \A c \in C : c # Len(r) + 1 => c = n + 1 \/ (c \in B /\ c # n + 1)
    OBVIOUS
  <2>2. CASE \E b \in B : /\ b # n + 1 /\ About(w, b) = k /\ Value(w, b) = v
                          /\ \A c \in B : c > b /\ c # n + 1 => About(w, c) # k
    <3>1. PICK b \in B : /\ b # n + 1 /\ About(w, b) = k /\ Value(w, b) = v
                         /\ \A c \in B : c > b /\ c # n + 1 => About(w, c) # k
      BY <2>2
    <3>2. b \in C /\ b # Len(r) + 1 /\ About(r, b) = k /\ Value(r, b) = v
      BY <1>1, <1>5, <3>1
    <3>3. \A c \in C : c > b /\ c # Len(r) + 1 => About(r, c) # k
      BY <1>5, <1>6, <1>8, <2>1, <3>1
    <3>4. QED
      BY <3>2, <3>3 DEF LastOf
  <2>3. CASE v = old /\ \A c \in B : c # n + 1 => About(w, c) # k
    <3>1. \A c \in C : c # Len(r) + 1 => About(r, c) # k
      BY <1>5, <1>6, <1>8, <2>1, <2>3
    <3>2. QED
      BY <2>3, <3>1 DEF LastOf
  <2>4. QED
    BY <1>8, <2>2, <2>3 DEF LastOf, n
<1>9. \A old : LastOf(r, C, About(t, 1), old, Value(t, 1))
  <2>1. n + 1 \in C /\ n + 1 # Len(r) + 1
    BY <1>1, <1>2
  <2>2. \A c \in C : ~(c > n + 1 /\ c # Len(r) + 1)
    BY <1>1, <1>2
  <2>3. QED
    BY <1>6, <2>1, <2>2 DEF LastOf
<1>10. QED
  BY <1>1, <1>7, <1>8, <1>9 DEF r

\* A command the box has obeyed leaves the line; its value is then the old one.
LEMMA CommandLeaves ==
  ASSUME NEW S, NEW w \in Seq(S), NEW B, Framed(w, B), w # <<>>
  PROVE  LET n == Size(w, 1)
             r == SubSeq(w, n + 1, Len(w))
             C == {b - n : b \in B \ {1}}
         IN  /\ r \in Seq(S) /\ Framed(r, C) /\ n <= Len(w)
             /\ w[1] \in FirstBytes /\ (w[1] < 16 => w[2] = TRAIN_ADDR)
             /\ \A k, old, v : LastOf(w, B, k, old, v) =>
                  LastOf(r, C, k, IF About(w, 1) = k THEN Value(w, 1) ELSE old, v)
<1> DEFINE n == Size(w, 1)
           r == SubSeq(w, n + 1, Len(w))
           C == {b - n : b \in B \ {1}}
           l == Len(w)
<1>1. l \in Nat /\ l > 0
  BY LenProperties, EmptySeq
<1>2. /\ B \subseteq 1..(l + 1) /\ 1 \in B /\ l + 1 \in B /\ l + 1 # 1
      /\ \A b \in B : b # l + 1 => b \in 1..l /\ w[b] \in FirstBytes
      /\ \A b \in B : b # l + 1 => b + Size(w, b) \in B
      /\ \A b \in B : b # l + 1 /\ w[b] < 16 => w[b + 1] = TRAIN_ADDR
      /\ \A b, c \in B : b # l + 1 => c <= b \/ c >= b + Size(w, b)
      /\ w[1] \in FirstBytes /\ (w[1] < 16 => w[2] = TRAIN_ADDR)
  <2>1. l + 1 # 1 /\ 1 + 1 = 2
    BY <1>1
  <2>2. \A b \in 1..(l + 1) : b # l + 1 => b \in 1..l
    BY <1>1
  <2> HIDE DEF C, r, n
  <2>3. QED
    BY <1>1, <2>1, <2>2 DEF Framed
<1>3. n \in {1, 2, 3}
  BY DEF Size
<1> HIDE DEF n
<1>4. n + 1 \in B /\ n <= l
  <2>1. 1 + n \in B
    BY <1>2 DEF n
  <2>2. 1 + n = n + 1 /\ \A b \in 1..(l + 1) : b = n + 1 => n <= l
    BY <1>1, <1>3
  <2>3. QED
    BY <1>2, <2>1, <2>2
<1>5. /\ r \in Seq(S) /\ Len(r) = l - n
      /\ \A i \in 1..(l - n) : r[i] = w[i + n]
  <2>1. n + 1 \in 1..(Len(w) + 1) /\ Len(w) \in n..Len(w)
    BY <1>1, <1>3, <1>4
  <2>2. w \in Seq(S) => SubSeq(w, n + 1, Len(w)) \in Seq(S)
    <3>1. \A i \in (n + 1)..Len(w) : i \in 1..Len(w)
      BY <1>3, <1>1
    <3>2. \A i \in (n + 1)..Len(w) : w[i] \in S
      BY <3>1, ElementOfSeq
    <3>3. QED
      BY <1>1, <1>3, <1>4, <3>2, SubSeqProperties
  <2>3. /\ Len(SubSeq(w, n + 1, Len(w))) = l - n
        /\ \A i \in 1..(l - n) : SubSeq(w, n + 1, Len(w))[i] = w[i + n]
    <3>1. n + 1 \in Nat /\ Len(w) \in Nat /\ n + 1 <= Len(w) + 1
      BY <1>1, <1>3, <1>4
    <3>2. \A i \in 1..(l - n) : n + 1 + i - 1 = i + n
      BY <1>1, <1>3
    <3>3. QED
      BY <1>1, <1>3, <1>4, <3>1, <3>2, SubSeqProperties
  <2>4. QED
    BY <2>2, <2>3
<1> HIDE DEF r, l
<1>6. \A b \in B : b # 1 => /\ b >= n + 1 /\ b \in Nat /\ b - n \in C
                            /\ b - n \in 1..(l - n + 1) /\ (b = l + 1 <=> b - n = l - n + 1)
  <2>1. \A b \in B : b # 1 => b >= n + 1
    <3>1. \A b \in B : b <= 1 \/ b >= 1 + n
      BY <1>2 DEF n
    <3>2. \A b \in 1..(l + 1) : b <= 1 => b = 1
      BY <1>1
    <3>3. 1 + n = n + 1
      BY <1>3
    <3>4. QED
      BY <1>2, <3>1, <3>2, <3>3
  <2>2. \A b \in 1..(l + 1) : b >= n + 1 =>
          b \in Nat /\ b - n \in 1..(l - n + 1) /\ (b = l + 1 <=> b - n = l - n + 1)
    BY <1>1, <1>3
  <2>3. QED
    BY <1>2, <2>1, <2>2
<1>7. \A c \in C : \E b \in B : b # 1 /\ c = b - n
  OBVIOUS
<1> HIDE DEF C
<1>8. ASSUME NEW b \in B, b # 1, b # l + 1
      PROVE  /\ b - n \in 1..(l - n) /\ r[b - n] = w[b] /\ Size(r, b - n) = Size(w, b)
             /\ Size(w, b) \in {1, 2, 3} /\ b + Size(w, b) \in B /\ b + Size(w, b) # 1
             /\ About(r, b - n) = About(w, b) /\ Value(r, b - n) = Value(w, b)
             /\ (w[b] < 16 => r[b - n + 1] = w[b + 1])
  <2>1. b \in 1..l /\ b >= n + 1
    BY <1>2, <1>6, <1>8
  <2>2. b - n \in 1..(l - n) /\ b - n + n = b
    BY <1>1, <1>3, <2>1
  <2>3. r[b - n] = w[b] /\ Size(r, b - n) = Size(w, b) /\ Value(r, b - n) = Value(w, b)
    <3>1. r[b - n] = w[b]
      BY <1>5, <2>2
    <3>2. QED
      BY <3>1 DEF Size, Value
  <2>4. Size(w, b) \in {1, 2, 3} /\ b + Size(w, b) \in B /\ b + Size(w, b) \in 1..(l + 1)
    <3>1. Size(w, b) \in {1, 2, 3}
      BY DEF Size
    <3>2. QED
      BY <1>2, <1>8, <3>1
  <2>5. b + Size(w, b) # 1
    BY <2>1, <2>4
  <2>6. w[b] < SENSOR_BASE => r[b - n + 1] = w[b + 1]
    <3> SUFFICES ASSUME w[b] < SENSOR_BASE PROVE r[b - n + 1] = w[b + 1]
      OBVIOUS
    <3>1. Size(w, b) \in {2, 3}
      BY DEF Size
    <3>2. b - n + 1 \in 1..(l - n) /\ b - n + 1 + n = b + 1
      BY <1>1, <1>3, <2>1, <2>4, <3>1
    <3>3. QED
      BY <1>5, <3>2
  <2>7. w[b] \in Nat /\ (w[b] < 16 => w[b] < SENSOR_BASE)
    BY <1>2, <1>8, FirstBytesAre
  <2>8. About(r, b - n) = About(w, b)
    BY <2>3, <2>6, <2>7 DEF About
  <2>9. QED
    BY <2>2, <2>3, <2>4, <2>5, <2>6, <2>7, <2>8
<1>9. Framed(r, C)
  <2>1. C \subseteq 1..(Len(r) + 1) /\ 1 \in C /\ Len(r) + 1 \in C
    <3>1. C \subseteq 1..(l - n + 1)
      BY <1>6, <1>7
    <3>2. (l + 1) - n \in C /\ (n + 1) - n \in C
      <4>1. n + 1 # 1
        BY <1>3
      <4>2. \A b \in B : b # 1 => b - n \in C
        BY <1>6, Zenon
      <4>3. QED
        BY <1>2, <1>4, <4>1, <4>2, Zenon
    <3>3. (l + 1) - n = l - n + 1 /\ (n + 1) - n = 1
      <4>1. n \in Nat /\ l \in Nat
        BY <1>1, <1>3
      <4>2. QED
        BY <4>1
    <3>4. QED
      BY <1>5, <3>1, <3>2, <3>3
  <2>2. ASSUME NEW d \in C, d # Len(r) + 1
        PROVE  /\ r[d] \in FirstBytes
               /\ r[d] < 16 => r[d + 1] = TRAIN_ADDR
               /\ d + Size(r, d) \in C /\ \A c \in C : c <= d \/ c >= d + Size(r, d)
    <3>1. PICK b \in B : b # 1 /\ d = b - n
      BY <1>7
    <3>2. b # l + 1
      BY <1>5, <1>6, <2>2, <3>1
    <3>3. r[d] \in FirstBytes /\ (r[d] < 16 => r[d + 1] = TRAIN_ADDR)
      BY <1>2, <1>8, <3>1, <3>2
    <3>4. d + Size(r, d) = (b + Size(w, b)) - n
      <4>1. b \in Nat /\ Size(r, d) = Size(w, b) /\ Size(w, b) \in {1, 2, 3}
        BY <1>6, <1>8, <3>1, <3>2
      <4>2. \A x \in {1, 2, 3} : b - n + x = (b + x) - n
        <5>1. b \in Nat /\ n \in Nat
          BY <1>3, <4>1
        <5>2. \A x \in Nat : b - n + x = (b + x) - n
          BY <5>1
        <5>3. QED
          BY <5>2
      <4>3. QED
        BY <3>1, <4>1, <4>2
    <3>5. d + Size(r, d) \in C
      <4>1. b + Size(w, b) \in B /\ b + Size(w, b) # 1
        BY <1>8, <3>1, <3>2
      <4>2. \A a \in B : a # 1 => a - n \in C
        BY <1>6, Zenon
      <4>3. QED
        BY <3>4, <4>1, <4>2, Zenon
    <3>6. ASSUME NEW c \in C PROVE c <= d \/ c >= d + Size(r, d)
      <4>1. PICK a \in B : a # 1 /\ c = a - n
        BY <1>7
      <4>2. a <= b \/ a >= b + Size(w, b)
        BY <1>2, <3>2
      <4>3. a \in Nat /\ b \in Nat /\ Size(w, b) \in {1, 2, 3}
        BY <1>6, <1>8, <3>1, <3>2, <4>1
      <4>4. QED
        BY <1>3, <3>1, <3>4, <4>1, <4>2, <4>3
    <3>7. QED
      BY <3>3, <3>5, <3>6
  <2>3. QED
    BY <2>1, <2>2 DEF Framed
<1>10. ASSUME NEW k, NEW old, NEW v, LastOf(w, B, k, old, v)
       PROVE  LastOf(r, C, k, IF About(w, 1) = k THEN Value(w, 1) ELSE old, v)
  <2> DEFINE Later(b) == \A c \in B : c > b /\ c # l + 1 => About(w, c) # k
  <2>1. ASSUME NEW b \in B, b # l + 1, Later(b), NEW d \in C, d # Len(r) + 1, d > b - n
        PROVE  About(r, d) # k
    <3>1. PICK c \in B : c # 1 /\ d = c - n
      BY <1>7
    <3>2. c # l + 1
      BY <1>5, <1>6, <2>1, <3>1
    <3>3. c > b
      <4>1. b \in Nat /\ c \in Nat
        BY <1>2, <1>6, <2>1, <3>1
      <4>2. QED
        BY <1>3, <2>1, <3>1, <4>1
    <3>4. QED
      BY <1>8, <2>1, <3>1, <3>2, <3>3
  <2>2. ASSUME NEW b \in B, b # l + 1, Later(b), b = 1
        PROVE  \A d \in C : d # Len(r) + 1 => About(r, d) # k
    <3>1. \A d \in C : d > b - n
      <4>1. \A d \in 1..(Len(r) + 1) : d > 1 - n
        BY <1>1, <1>3, <1>5
      <4>2. QED
        BY <1>9, <2>2, <4>1 DEF Framed
    <3>2. QED
      BY <2>1, <2>2, <3>1
  <2>3. ASSUME NEW b \in B, b # l + 1, About(w, b) = k, Value(w, b) = v, Later(b)
        PROVE  LastOf(r, C, k, IF About(w, 1) = k THEN Value(w, 1) ELSE old, v)
    <3>1. CASE b = 1
      BY <2>2, <2>3, <3>1 DEF LastOf
    <3>2. CASE b # 1
      <4>1. b - n \in C /\ b - n # Len(r) + 1 /\ About(r, b - n) = k /\ Value(r, b - n) = v
        BY <1>5, <1>6, <1>8, <2>3, <3>2
      <4>2. \A d \in C : d > b - n /\ d # Len(r) + 1 => About(r, d) # k
        BY <2>1, <2>3
      <4> HIDE DEF Later
      <4>3. QED
        BY <4>1, <4>2 DEF LastOf
    <3>3. QED
      BY <3>1, <3>2
  <2>4. ASSUME v = old, \A c \in B : c # l + 1 => About(w, c) # k
        PROVE  LastOf(r, C, k, IF About(w, 1) = k THEN Value(w, 1) ELSE old, v)
    <3>1. Later(1) /\ About(w, 1) # k
      BY <1>2, <2>4
    <3>2. \A d \in C : d # Len(r) + 1 => About(r, d) # k
      BY <1>2, <2>2, <3>1
    <3>3. QED
      BY <2>4, <3>1, <3>2 DEF LastOf
  <2>5. QED
    BY <1>10, <2>3, <2>4 DEF LastOf, l
<1>11. QED
  BY <1>2, <1>4, <1>5, <1>9, <1>10 DEF r, C, n, l

-----------------------------------------------------------------------------
(* The requests, and what is to come true. *)

\* What the server is asked for.
IsRequest(r) ==
  \/ r = AskPoll
  \/ \E v \in 0..14 : r = AskSpeed(v)
  \/ \E sw : r = AskSwitch(sw)

KeyOf(r) ==
  IF r.type = "speed" THEN <<"speed", TRAIN_ADDR>>
  ELSE IF r.type = "switch" THEN <<"switch", r.arg[1]>> ELSE <<"poll", 0>>
ValueOf(r) ==
  IF r.type = "speed" THEN r.arg
  ELSE IF r.type = "switch" THEN r.arg[2] ELSE (SENSOR_BASE + MODULES) - SW_BASE

\* The speed, and each turnout: what it is now.
Keys == {<<"speed", TRAIN_ADDR>>} \cup {<<"switch", n>> : n \in Turnouts}
Now(k) == IF k[1] = "speed" THEN box.speed ELSE box.turnout[k[2]]

\* It becomes v once the server has seen its request and the box the line.
Will(B, k, v) ==
  IF requests # <<>> /\ KeyOf(requests[1]) = k
  THEN ValueOf(requests[1]) = v ELSE LastOf(wire, B, k, Now(k), v)

\* The request of a message on the line: its bytes are one command.
LEMMA BytesAre ==
  ASSUME NEW r, IsRequest(r)
  PROVE  LET t == Bytes(r)
         IN  /\ t \in Seq({t[1], t[2], t[3]}) /\ t # <<>> /\ t[1] \in FirstBytes
             /\ t[1] < 16 => t[2] = TRAIN_ADDR
             /\ Len(t) = Size(t, 1)
             /\ About(t, 1) = KeyOf(r) /\ Value(t, 1) = ValueOf(r)
<1> DEFINE t == Bytes(r)
<1>1. CASE r = AskPoll
  <2>1. t = <<SENSOR_BASE + MODULES>> /\ t[1] = SENSOR_BASE + MODULES
    BY <1>1 DEF Bytes, AskPoll
  <2>2. KeyOf(r) = <<"poll", 0>> /\ ValueOf(r) = (SENSOR_BASE + MODULES) - SW_BASE
    BY <1>1 DEF KeyOf, ValueOf, AskPoll
  <2>3. ~(t[1] < 16) /\ ~(t[1] < SENSOR_BASE) /\ t[1] \in FirstBytes
    BY <2>1, TrainAssumption DEF SENSOR_BASE, FirstBytes
  <2>4. t \in Seq({t[1], t[2], t[3]}) /\ Len(t) = 1 /\ t # <<>>
    BY <2>1
  <2> HIDE DEF t
  <2>5. Size(t, 1) = 1 /\ About(t, 1) = <<"poll", 0>> /\ Value(t, 1) = t[1] - SW_BASE
    BY <2>3 DEF Size, About, Value
  <2>6. QED
    BY <2>1, <2>2, <2>3, <2>4, <2>5 DEF t
<1>2. CASE \E v \in 0..14 : r = AskSpeed(v)
  <2>1. PICK v \in 0..14 : r = AskSpeed(v)
    BY <1>2
  <2>2. v % 16 = v /\ v < 16
    BY <2>1
  <2>3. t = <<v, TRAIN_ADDR>>
    BY <2>1, <2>2 DEF Bytes, AskSpeed
  <2>4. KeyOf(r) = <<"speed", TRAIN_ADDR>> /\ ValueOf(r) = v
    BY <2>1 DEF KeyOf, ValueOf, AskSpeed
  <2>5. t[1] = v /\ t[2] = TRAIN_ADDR /\ Len(t) = 2 /\ t # <<>>
    BY <2>3
  <2>6. t \in Seq({t[1], t[2], t[3]})
    BY <2>3, <2>5
  <2>7. t[1] \in FirstBytes
    BY <2>5 DEF FirstBytes
  <2> HIDE DEF t
  <2>8. Size(t, 1) = 2 /\ About(t, 1) = <<"speed", t[2]>> /\ Value(t, 1) = v
    BY <2>2, <2>5 DEF Size, About, Value
  <2>9. QED
    BY <2>4, <2>5, <2>6, <2>7, <2>8 DEF t
<1>3. CASE \E sw : r = AskSwitch(sw)
  <2>1. PICK sw : r = AskSwitch(sw)
    BY <1>3
  <2>2. PICK d \in {1, 2} : r = [type |-> "switch", arg |-> <<sw[1], d>>]
    BY <2>1 DEF AskSwitch
  <2>3. t = <<SW_BASE + d, sw[1], 0>>
    BY <2>2 DEF Bytes
  <2>4. KeyOf(r) = <<"switch", sw[1]>> /\ ValueOf(r) = d
    BY <2>2 DEF KeyOf, ValueOf
  <2>5. t[1] = SW_BASE + d /\ t[2] = sw[1] /\ Len(t) = 3 /\ t # <<>>
    BY <2>3
  <2>6. t \in Seq({t[1], t[2], t[3]})
    BY <2>3, <2>5
  <2>7. t[1] \in FirstBytes /\ ~(t[1] < 16) /\ t[1] < SENSOR_BASE /\ t[1] - SW_BASE = d
    BY <2>5 DEF FirstBytes, SW_BASE, SENSOR_BASE
  <2> HIDE DEF t
  <2>8. Size(t, 1) = 3 /\ About(t, 1) = <<"switch", t[2]>> /\ Value(t, 1) = d
    BY <2>7 DEF Size, About, Value
  <2>9. QED
    BY <2>4, <2>5, <2>6, <2>7, <2>8 DEF t
<1>4. QED
  BY <1>1, <1>2, <1>3 DEF IsRequest

-----------------------------------------------------------------------------
(* The invariant. *)

Routes == {route_find(from, to) : from, to \in Sensors} \ {NoRoute}

Messages ==
  {Snapshot(S) : S \in SUBSET Sensors} \cup {Goto(d) : d \in Sensors \cup {NoNode}}
    \cup {SetSpeed(v) : v \in Speeds}

TC1States == [speed : 0..14, state : {"discover", "running", "routing", "stopped"},
              last_node : Sensors \cup {NoNode}, route : Routes \cup {NoRoute},
              dest : Sensors \cup {NoNode}]

TC1Places == [at : {"starts", "receives", "scans", "stops", "applies", "speeds"},
              msg : Messages, next : Int]

Typed ==
  /\ s \in TC1States /\ tc1 \in TC1Places /\ inbox \in Seq(Messages)
  /\ box \in [speed : 0..15, turnout : [Turnouts -> {1, 2}]]
  /\ DOMAIN train = {"at", "passed", "since", "coast"} /\ train.passed \subseteq Sensors
  /\ answer \in Seq(SUBSET Sensors)
  /\ \E S : wire \in Seq(S)

\* At most one request waits: the server is asked only when it waits.  The
\* controller waits until its own is received.
Asking ==
  \/ requests = <<>>
  \/ \E r : /\ requests = <<r>> /\ IsRequest(r)
            /\ r.type = "speed" => tc1.at \in {"starts", "speeds", "stops"}
            /\ r.type = "switch" => tc1.at = "applies"

\* What is routed has a route.
Routed ==
  /\ s.state = "routing" => s.route \in Routes
  /\ tc1.at = "applies" => /\ s.route \in Routes /\ tc1.next > 0
                           /\ \E d \in Sensors : tc1.msg = Goto(d)
  /\ tc1.at \in {"scans", "stops"} => \E S \in SUBSET Sensors : tc1.msg = Snapshot(S)

\* The speed the controller has asked for.
Target == IF tc1.at = "stops" THEN 0 ELSE s.speed

\* The switches of the route that have been asked for.
SwitchAsked(j) ==
  /\ j \in 1..Len(s.route.sw)
  /\ IF tc1.at = "applies" THEN j < tc1.next ELSE s.state = "routing"

\* What the controller has asked to be true of the speed and the turnouts.
Wants(k, v) ==
  \/ k = <<"speed", TRAIN_ADDR>> /\ v = Target
  \/ \E j : SwitchAsked(j) /\ k = <<"switch", s.route.sw[j][1]>> /\ v = s.route.sw[j][2]

\* It comes true once requests and line are empty.
Comes(B) == Framed(wire, B) /\ \A k \in Keys : \A v : Wants(k, v) => Will(B, k, v)

IInv == Typed /\ Asking /\ Routed /\ \E B : Comes(B)

-----------------------------------------------------------------------------
(* What the steps do to the requests and to the line. *)

\* Nobody touches them, and the controller wants nothing new.
LEMMA NothingAsked ==
  ASSUME \E B : Comes(B), requests' = requests, wire' = wire, box' = box,
         \A k \in Keys : \A v : Wants(k, v)' => Wants(k, v)
  PROVE  \E B : Comes(B)'
<1>1. PICK B : Comes(B)
  OBVIOUS
<1>2. \A k : Now(k)' = Now(k)
  BY DEF Now
<1>3. \A k \in Keys : \A v : Will(B, k, v) => Will(B, k, v)'
  BY <1>2 DEF Will
<1>4. Comes(B)'
  BY <1>1, <1>3 DEF Comes
<1>5. QED
  BY <1>4

\* A request is made: of what it is about, the controller wants what it says.
LEMMA Asked ==
  ASSUME \E B : Comes(B), NEW r, requests = <<>>, requests' = <<r>>, wire' = wire, box' = box,
         \A k \in Keys : \A v : Wants(k, v)' =>
           IF KeyOf(r) = k THEN v = ValueOf(r) ELSE Wants(k, v)
  PROVE  \E B : Comes(B)'
<1>1. PICK B : Comes(B)
  OBVIOUS
<1>2. \A k : Now(k)' = Now(k)
  BY DEF Now
<1>3. requests' # <<>> /\ requests'[1] = r
  OBVIOUS
<1>4. ASSUME NEW k \in Keys, NEW v, Wants(k, v)' PROVE Will(B, k, v)'
  <2>1. CASE KeyOf(r) = k
    BY <1>3, <1>4, <2>1 DEF Will
  <2>2. CASE KeyOf(r) # k
    <3>1. Will(B, k, v)
      BY <1>1, <1>4, <2>2 DEF Comes
    <3>2. LastOf(wire, B, k, Now(k), v)
      BY <3>1 DEF Will
    <3>3. QED
      BY <1>2, <1>3, <2>2, <3>2 DEF Will
  <2>3. QED
    BY <2>1, <2>2
<1>5. Comes(B)'
  BY <1>1, <1>4 DEF Comes
<1>6. QED
  BY <1>5

\* The server puts its request on the line.
LEMMA Sent ==
  ASSUME Typed, \E B : Comes(B), NEW r, IsRequest(r), requests = <<r>>, requests' = <<>>,
         wire' = wire \o Bytes(r), box' = box, s' = s, tc1' = tc1
  PROVE  (\E S : wire' \in Seq(S)) /\ \E B : Comes(B)'
<1> DEFINE t == Bytes(r)
<1>1. PICK B : Comes(B)
  OBVIOUS
<1>2. PICK S : wire \in Seq(S)
  BY DEF Typed
<1> DEFINE T == S \cup {t[1], t[2], t[3]}
<1>3. wire \in Seq(T) /\ t \in Seq(T)
  <2>1. S \subseteq T /\ {t[1], t[2], t[3]} \subseteq T
    OBVIOUS
  <2> HIDE DEF T, t
  <2>2. t \in Seq({t[1], t[2], t[3]})
    BY BytesAre DEF t
  <2>3. wire \in Seq(T)
    BY <1>2, <2>1, SeqMonotonic
  <2>4. t \in Seq(T)
    BY <2>1, <2>2, SeqMonotonic
  <2>5. QED
    BY <2>3, <2>4
<1>4. /\ t # <<>> /\ t[1] \in FirstBytes /\ (t[1] < 16 => t[2] = TRAIN_ADDR)
      /\ Len(t) = Size(t, 1) /\ About(t, 1) = KeyOf(r) /\ Value(t, 1) = ValueOf(r)
  BY BytesAre
<1>5. Framed(wire, B)
  BY <1>1 DEF Comes
<1> HIDE DEF t, T
<1>C. PICK C : C = B \cup {Len(wire') + 1}
  OBVIOUS
<1>6. wire' = wire \o t
  BY DEF t
<1>7. /\ wire' \in Seq(T) /\ Framed(wire', C)
      /\ \A k, old, v : LastOf(wire, B, k, old, v) /\ KeyOf(r) # k => LastOf(wire', C, k, old, v)
      /\ \A old : LastOf(wire', C, KeyOf(r), old, ValueOf(r))
  <2>1. wire \in Seq(T) /\ t \in Seq(T) /\ Framed(wire, B) /\ t # <<>> /\ t[1] \in FirstBytes
    BY <1>3, <1>4, <1>5
  <2>2. (t[1] < 16 => t[2] = TRAIN_ADDR) /\ Len(t) = Size(t, 1)
    BY <1>4
  <2>3. LET u == wire \o t
            D == B \cup {Len(u) + 1}
        IN  /\ u \in Seq(T) /\ Framed(u, D)
            /\ \A k, old, v : LastOf(wire, B, k, old, v) /\ About(t, 1) # k => LastOf(u, D, k, old, v)
            /\ \A old : LastOf(u, D, About(t, 1), old, Value(t, 1))
    BY <2>1, <2>2, CommandJoins
  <2>4. QED
    BY <1>4, <1>6, <1>C, <2>3
<1>8. \A k : \A v : Wants(k, v)' = Wants(k, v)
  BY DEF Wants, Target, SwitchAsked
<1>9. \A k : Now(k)' = Now(k)
  BY DEF Now
<1>10. requests # <<>> /\ requests[1] = r
  OBVIOUS
<1>11. ASSUME NEW k \in Keys, NEW v, Wants(k, v)' PROVE Will(C, k, v)'
  <2>1. Will(B, k, v)
    BY <1>1, <1>8, <1>11 DEF Comes
  <2>2. LastOf(wire', C, k, Now(k), v)
    <3>1. CASE KeyOf(r) = k
      BY <1>7, <1>10, <2>1, <3>1 DEF Will
    <3>2. CASE KeyOf(r) # k
      <4>1. LastOf(wire, B, k, Now(k), v)
        BY <1>10, <2>1, <3>2 DEF Will
      <4>2. QED
        BY <1>7, <3>2, <4>1
    <3>3. QED
      BY <3>1, <3>2
  <2>3. QED
    BY <1>9, <2>2 DEF Will
<1>12. Comes(C)'
  BY <1>7, <1>11 DEF Comes
<1>13. QED
  BY <1>7, <1>12

\* The box obeys a command.
LEMMA Obeyed ==
  ASSUME Typed, \E B : Comes(B), wire # <<>>, requests' = requests, s' = s, tc1' = tc1,
         wire' = SubSeq(wire, Size(wire, 1) + 1, Len(wire)),
         \A k \in Keys : Now(k)' = IF About(wire, 1) = k THEN Value(wire, 1) ELSE Now(k)
  PROVE  (\E S : wire' \in Seq(S)) /\ \E B : Comes(B)'
<1>1. PICK B : Comes(B)
  OBVIOUS
<1>2. PICK S : wire \in Seq(S)
  BY DEF Typed
<1>C. PICK C : C = {b - Size(wire, 1) : b \in B \ {1}}
  OBVIOUS
<1>3. Framed(wire, B)
  BY <1>1 DEF Comes
<1>4. /\ wire' \in Seq(S) /\ Framed(wire', C)
      /\ \A k, old, v : LastOf(wire, B, k, old, v) =>
           LastOf(wire', C, k, IF About(wire, 1) = k THEN Value(wire, 1) ELSE old, v)
  BY <1>2, <1>3, <1>C, CommandLeaves
<1>5. \A k : \A v : Wants(k, v)' = Wants(k, v)
  BY DEF Wants, Target, SwitchAsked
<1>6. ASSUME NEW k \in Keys, NEW v, Wants(k, v)' PROVE Will(C, k, v)'
  <2>1. Will(B, k, v)
    BY <1>1, <1>5, <1>6 DEF Comes
  <2>2. CASE requests # <<>> /\ KeyOf(requests[1]) = k
    BY <2>1, <2>2 DEF Will
  <2>3. CASE ~(requests # <<>> /\ KeyOf(requests[1]) = k)
    <3>1. LastOf(wire, B, k, Now(k), v)
      BY <2>1, <2>3 DEF Will
    <3>2. LastOf(wire', C, k, Now(k)', v)
      BY <1>4, <3>1
    <3>3. QED
      BY <2>3, <3>2 DEF Will
  <2>4. QED
    BY <2>2, <2>3
<1>7. Comes(C)'
  BY <1>4, <1>6 DEF Comes
<1>8. QED
  BY <1>4, <1>7

-----------------------------------------------------------------------------
(* Every step keeps the invariant. *)

LEMMA SensorFacts == Sensors \subseteq Nat /\ NoNode \notin Sensors
BY TrainAssumption DEF NoNode

LEMMA MessageKinds ==
  ASSUME NEW m \in Messages
  PROVE  \/ m.type = "sensor" /\ \E S \in SUBSET Sensors : m = Snapshot(S)
         \/ m.type = "goto" /\ \E d \in Sensors \cup {NoNode} : m = Goto(d)
         \/ m.type = "speed" /\ \E v \in Speeds : m = SetSpeed(v)
BY DEF Messages, Snapshot, Goto, SetSpeed

\* The controller wants no more when it asks for no other speed and counts no
\* other switch as asked for.
LEMMA WantsNoMore ==
  ASSUME Target' = Target, s'.route = s.route \/ \A j : ~SwitchAsked(j)',
         \A j : SwitchAsked(j)' => SwitchAsked(j)
  PROVE  \A k \in Keys : \A v : Wants(k, v)' => Wants(k, v)
BY DEF Wants

LEMMA WaitingTyped == Waiting \in TC1Places /\ Waiting.at = "receives"
<1>1. Snapshot({}) \in Messages
  BY DEF Messages
<1>2. QED
  BY <1>1 DEF Waiting, TC1Places

LEMMA InitHolds == CInit => IInv
<1> SUFFICES ASSUME CInit PROVE IInv
  OBVIOUS
<1>1. DEFAULT_SPEED \in 0..14
  BY TrainAssumption
<1>2. s \in TC1States /\ s.speed = DEFAULT_SPEED /\ s.state = "discover"
  BY <1>1 DEF CInit, TC1States
<1>3. tc1 \in TC1Places /\ tc1.at = "starts"
  BY WaitingTyped DEF CInit, TC1Places
<1>4. Typed
  <2>1. inbox \in Seq(Messages) /\ answer \in Seq(SUBSET Sensors) /\ wire \in Seq(Nat)
    BY DEF CInit
  <2>2. box \in [speed : 0..15, turnout : [Turnouts -> {1, 2}]]
    BY DEF CInit
  <2>3. DOMAIN train = {"at", "passed", "since", "coast"} /\ train.passed \subseteq Sensors
    BY DEF CInit
  <2>4. QED
    BY <1>2, <1>3, <2>1, <2>2, <2>3 DEF Typed
<1>5. Asking
  BY <1>1, <1>3 DEF CInit, Asking, IsRequest, AskSpeed
<1>6. Routed
  BY <1>2, <1>3 DEF Routed
<1>7. Comes({1})
  <2>1. wire = <<>> /\ Len(wire) = 0 /\ 0 + 1 = 1
    BY DEF CInit
  <2>2. Framed(wire, {1})
    BY <2>1 DEF Framed
  <2>3. requests # <<>> /\ requests[1] = AskSpeed(DEFAULT_SPEED)
    BY DEF CInit
  <2>4. ASSUME NEW k, NEW v, Wants(k, v) PROVE Will({1}, k, v)
    <3>1. k = <<"speed", TRAIN_ADDR>> /\ v = DEFAULT_SPEED
      BY <1>2, <1>3, <2>4 DEF Wants, Target, SwitchAsked
    <3>2. KeyOf(requests[1]) = k /\ ValueOf(requests[1]) = v
      BY <2>3, <3>1 DEF KeyOf, ValueOf, AskSpeed
    <3>3. QED
      BY <2>3, <3>2 DEF Will
  <2>5. QED
    BY <2>2, <2>4 DEF Comes
<1>8. QED
  BY <1>4, <1>5, <1>6, <1>7 DEF IInv

LEMMA NotifierPollsKeeps == IInv /\ NotifierPolls => IInv'
<1> SUFFICES ASSUME IInv, NotifierPolls PROVE IInv'
  OBVIOUS
<1>1. /\ requests = <<>> /\ requests' = <<AskPoll>> /\ wire' = wire /\ box' = box
      /\ s' = s /\ tc1' = tc1 /\ inbox' = inbox /\ train' = train /\ answer' = answer
  BY DEF NotifierPolls, ServerWaits, Asks, controller, line, world
<1>2. Typed'
  BY <1>1 DEF IInv, Typed
<1>3. Asking'
  BY <1>1 DEF Asking, IsRequest, AskPoll
<1>4. Routed'
  BY <1>1 DEF IInv, Routed
<1>5. \A k \in Keys : KeyOf(AskPoll) # k
  BY DEF Keys, KeyOf, AskPoll
<1>6. \A k : \A v : Wants(k, v)' => Wants(k, v)
  BY <1>1 DEF Wants, Target, SwitchAsked
<1>7. \E B : Comes(B)'
  BY <1>1, <1>5, <1>6, Asked DEF IInv
<1>8. QED
  BY <1>2, <1>3, <1>4, <1>7 DEF IInv

LEMMA ShellSendsKeeps == IInv /\ ShellSends => IInv'
<1> SUFFICES ASSUME IInv, ShellSends PROVE IInv'
  OBVIOUS
<1>1. /\ requests' = requests /\ wire' = wire /\ box' = box
      /\ s' = s /\ tc1' = tc1 /\ train' = train /\ answer' = answer
  BY DEF ShellSends, controller, server, line, world
<1>2. PICK m \in {Goto(d) : d \in Sensors \cup {NoNode}} \cup {SetSpeed(v) : v \in Speeds} :
        inbox' = Append(inbox, m)
  BY DEF ShellSends
<1>3. m \in Messages
  BY DEF Messages
<1>4. inbox' \in Seq(Messages)
  BY <1>2, <1>3, AppendsTo DEF IInv, Typed
<1>5. Typed' /\ Asking' /\ Routed'
  BY <1>1, <1>4 DEF IInv, Typed, Asking, Routed
<1>6. \A k : \A v : Wants(k, v)' => Wants(k, v)
  BY <1>1 DEF Wants, Target, SwitchAsked
<1>7. \E B : Comes(B)'
  BY <1>1, <1>6, NothingAsked DEF IInv
<1>8. QED
  BY <1>5, <1>7 DEF IInv

\* The controller goes back to wait.
LEMMA BackToReceive ==
  ASSUME IInv, ServerWaits, tc1.at \in {"starts", "speeds"}, tc1' = Waiting,
         UNCHANGED <<s, inbox, clients, server, line, world>>
  PROVE  IInv'
<1>1. /\ requests' = requests /\ requests = <<>> /\ wire' = wire /\ box' = box /\ inbox' = inbox
      /\ s' = s /\ train' = train /\ answer' = answer /\ tc1' \in TC1Places /\ tc1'.at = "receives"
  BY WaitingTyped DEF ServerWaits, server, line, world
<1>2. Typed' /\ Asking' /\ Routed'
  BY <1>1 DEF IInv, Typed, Asking, Routed
<1>3. Target' = Target /\ \A j : SwitchAsked(j)' => SwitchAsked(j)
  BY <1>1 DEF Target, SwitchAsked
<1>4. \E B : Comes(B)'
  BY <1>1, <1>3, WantsNoMore, NothingAsked DEF IInv
<1>5. QED
  BY <1>2, <1>4 DEF IInv

\* A message leaves the inbox.  Its kind says what the controller does.
LEMMA ReceivesKinds ==
  ASSUME IInv, Receives
  PROVE  /\ requests = <<>> /\ wire' = wire /\ box' = box /\ train' = train /\ answer' = answer
         /\ tc1.at = "receives" /\ inbox' \in Seq(Messages)
         /\ \/ \E S \in SUBSET Sensors :
                 /\ tc1' = [at |-> "scans", msg |-> Snapshot(S), next |-> 0]
                 /\ s' = s /\ requests' = requests
            \/ \E d \in Sensors \cup {NoNode} : HandleGoto(d)
            \/ \E v \in Speeds :
                 /\ tc1' = [tc1 EXCEPT !.at = "speeds"] /\ s' = [s EXCEPT !.speed = v]
                 /\ requests' = <<AskSpeed(v)>>
<1> DEFINE m == Head(inbox)
<1>1. /\ requests = <<>> /\ wire' = wire /\ box' = box /\ train' = train /\ answer' = answer
      /\ tc1.at = "receives" /\ inbox # <<>> /\ inbox' = Tail(inbox)
  BY DEF Receives, ServerWaits, line, world
<1>2. m \in Messages /\ inbox' \in Seq(Messages)
  <2>1. inbox \in Seq(Messages)
    BY DEF IInv, Typed
  <2>2. QED
    BY <1>1, <2>1, TailFacts
<1>3. (CASE m.type = "sensor" -> /\ tc1' = [at |-> "scans", msg |-> m, next |-> 0]
                                 /\ UNCHANGED <<s, requests>>
         [] m.type = "goto"   -> HandleGoto(m.arg)
         [] m.type = "speed"  -> /\ tc1' = [tc1 EXCEPT !.at = "speeds"]
                                 /\ s' = [s EXCEPT !.speed = m.arg]
                                 /\ Asks(AskSpeed(m.arg)))
  BY DEF Receives
<1> HIDE DEF m
<1>4. CASE \E S \in SUBSET Sensors : m = Snapshot(S)
  <2>1. PICK S \in SUBSET Sensors : m = Snapshot(S)
    BY <1>4
  <2>2. m.type = "sensor"
    BY <2>1 DEF Snapshot
  <2>3. tc1' = [at |-> "scans", msg |-> m, next |-> 0] /\ UNCHANGED <<s, requests>>
    BY <1>3, <2>2
  <2>4. QED
    BY <1>1, <1>2, <2>1, <2>3
<1>5. CASE \E d \in Sensors \cup {NoNode} : m = Goto(d)
  <2>1. PICK d \in Sensors \cup {NoNode} : m = Goto(d)
    BY <1>5
  <2>2. m.type = "goto" /\ m.arg = d
    BY <2>1 DEF Goto
  <2>3. HandleGoto(d)
    BY <1>3, <2>2
  <2>4. QED
    BY <1>1, <1>2, <2>3
<1>6. CASE \E v \in Speeds : m = SetSpeed(v)
  <2>1. PICK v \in Speeds : m = SetSpeed(v)
    BY <1>6
  <2>2. m.type = "speed" /\ m.arg = v
    BY <2>1 DEF SetSpeed
  <2>3. /\ tc1' = [tc1 EXCEPT !.at = "speeds"] /\ s' = [s EXCEPT !.speed = v]
        /\ Asks(AskSpeed(v))
    BY <1>3, <2>2
  <2>4. requests' = <<AskSpeed(v)>>
    BY <1>1, <2>3 DEF Asks
  <2>5. QED
    BY <1>1, <1>2, <2>3, <2>4
<1>7. QED
  BY <1>2, <1>4, <1>5, <1>6, MessageKinds

LEMMA ReceivesKeeps == IInv /\ Receives => IInv'
<1> SUFFICES ASSUME IInv, Receives PROVE IInv'
  OBVIOUS
<1>1. /\ requests = <<>> /\ wire' = wire /\ box' = box /\ train' = train /\ answer' = answer
      /\ tc1.at = "receives" /\ inbox' \in Seq(Messages)
  BY ReceivesKinds
<1>2. s \in TC1States /\ tc1 \in TC1Places
  BY DEF IInv, Typed
<1>3. ASSUME s' \in TC1States, tc1' \in TC1Places PROVE Typed'
  BY <1>1, <1>3 DEF IInv, Typed
<1>4. CASE \E S \in SUBSET Sensors :
             /\ tc1' = [at |-> "scans", msg |-> Snapshot(S), next |-> 0]
             /\ s' = s /\ requests' = requests
  <2>1. PICK S \in SUBSET Sensors :
             /\ tc1' = [at |-> "scans", msg |-> Snapshot(S), next |-> 0]
             /\ s' = s /\ requests' = requests
    BY <1>4
  <2>2. Snapshot(S) \in Messages
    BY DEF Messages
  <2>3. tc1' \in TC1Places /\ tc1'.at = "scans" /\ tc1'.msg = Snapshot(S)
    BY <2>1, <2>2 DEF TC1Places
  <2>4. Typed' /\ Asking'
    BY <1>1, <1>2, <1>3, <2>1, <2>3 DEF Asking
  <2>5. Routed'
    BY <2>1, <2>3 DEF IInv, Routed
  <2>6. Target' = Target /\ \A j : SwitchAsked(j)' => SwitchAsked(j)
    BY <1>1, <2>1, <2>3 DEF Target, SwitchAsked
  <2>7. \E B : Comes(B)'
    BY <1>1, <2>1, <2>6, WantsNoMore, NothingAsked DEF IInv
  <2>8. QED
    BY <2>4, <2>5, <2>7 DEF IInv
<1>5. CASE \E d \in Sensors \cup {NoNode} : HandleGoto(d)
  <2>1. PICK d \in Sensors \cup {NoNode} : HandleGoto(d)
    BY <1>5
  <2>2. requests' = requests
    BY <2>1 DEF HandleGoto
  <2>3. CASE RouteTo(d) = NoRoute
    <3>1. tc1' = Waiting /\ s' = s
      BY <2>1, <2>3 DEF HandleGoto
    <3>2. tc1' \in TC1Places /\ tc1'.at = "receives"
      BY <3>1, WaitingTyped
    <3>3. Typed' /\ Asking'
      BY <1>1, <1>2, <1>3, <2>2, <3>1, <3>2 DEF Asking
    <3>4. Routed'
      BY <3>1, <3>2 DEF IInv, Routed
    <3>5. Target' = Target /\ \A j : SwitchAsked(j)' => SwitchAsked(j)
      BY <1>1, <3>1, <3>2 DEF Target, SwitchAsked
    <3>6. \E B : Comes(B)'
      BY <1>1, <2>2, <3>1, <3>5, WantsNoMore, NothingAsked DEF IInv
    <3>7. QED
      BY <3>3, <3>4, <3>6 DEF IInv
  <2>4. CASE RouteTo(d) # NoRoute
    <3>1. /\ tc1' = [at |-> "applies", msg |-> Goto(d), next |-> 1]
          /\ s' = [s EXCEPT !.route = RouteTo(d)]
      BY <2>1, <2>4 DEF HandleGoto
    <3>2. d \in Sensors /\ s.last_node \in Sensors /\ RouteTo(d) = route_find(s.last_node, d)
      BY <1>2, <2>4 DEF RouteTo, TC1States
    <3>3. RouteTo(d) \in Routes
      BY <2>4, <3>2 DEF Routes
    <3>4. Goto(d) \in Messages
      BY DEF Messages
    <3>5. /\ tc1' \in TC1Places /\ tc1'.at = "applies" /\ tc1'.msg = Goto(d) /\ tc1'.next = 1
          /\ s' \in TC1States /\ s'.route \in Routes /\ s'.speed = s.speed
      BY <1>2, <3>1, <3>3, <3>4 DEF TC1Places, TC1States
    <3>6. Typed' /\ Asking'
      BY <1>1, <1>3, <2>2, <3>5 DEF Asking
    <3>7. Routed'
      BY <3>2, <3>5 DEF Routed
    <3>8. Target' = Target /\ \A j : ~SwitchAsked(j)'
      <4>1. \A n, j : j \in 1..n => ~(j < 1)
        OBVIOUS
      <4>2. QED
        BY <1>1, <3>5, <4>1 DEF Target, SwitchAsked
    <3>9. \E B : Comes(B)'
      BY <1>1, <2>2, <3>8, WantsNoMore, NothingAsked DEF IInv
    <3>10. QED
      BY <3>6, <3>7, <3>9 DEF IInv
  <2>5. QED
    BY <2>3, <2>4
<1>6. CASE \E v \in Speeds :
             /\ tc1' = [tc1 EXCEPT !.at = "speeds"] /\ s' = [s EXCEPT !.speed = v]
             /\ requests' = <<AskSpeed(v)>>
  <2>1. PICK v \in Speeds :
             /\ tc1' = [tc1 EXCEPT !.at = "speeds"] /\ s' = [s EXCEPT !.speed = v]
             /\ requests' = <<AskSpeed(v)>>
    BY <1>6
  <2>2. v \in 0..14
    BY TrainAssumption
  <2>3. /\ tc1' \in TC1Places /\ tc1'.at = "speeds" /\ s' \in TC1States /\ s'.speed = v
        /\ s'.route = s.route /\ s'.state = s.state
    BY <1>2, <2>1, <2>2 DEF TC1Places, TC1States
  <2>4. Typed'
    BY <1>3, <2>3
  <2>5. Asking'
    <3>1. IsRequest(AskSpeed(v)) /\ AskSpeed(v).type = "speed"
      BY <2>2 DEF IsRequest, AskSpeed
    <3>2. QED
      BY <2>1, <2>3, <3>1 DEF Asking
  <2>6. Routed'
    BY <2>3 DEF IInv, Routed
  <2>7. ASSUME NEW k \in Keys, NEW x, Wants(k, x)'
        PROVE  IF KeyOf(AskSpeed(v)) = k THEN x = ValueOf(AskSpeed(v)) ELSE Wants(k, x)
    <3>1. KeyOf(AskSpeed(v)) = <<"speed", TRAIN_ADDR>> /\ ValueOf(AskSpeed(v)) = v
      BY DEF KeyOf, ValueOf, AskSpeed
    <3>2. Target' = v
      BY <2>3 DEF Target
    <3>3. \A j : SwitchAsked(j)' => SwitchAsked(j)
      BY <1>1, <2>3 DEF SwitchAsked
    <3>4. CASE k = <<"speed", TRAIN_ADDR>> /\ x = Target'
      BY <3>1, <3>2, <3>4
    <3>5. CASE \E j : /\ SwitchAsked(j)' /\ k = <<"switch", s'.route.sw[j][1]>>
                      /\ x = s'.route.sw[j][2]
      <4>1. Wants(k, x)
        BY <2>3, <3>3, <3>5 DEF Wants
      <4>2. k # <<"speed", TRAIN_ADDR>>
        BY <3>5
      <4>3. QED
        BY <3>1, <4>1, <4>2
    <3>6. QED
      BY <2>7, <3>4, <3>5 DEF Wants
  <2>8. \E B : Comes(B)'
    BY <1>1, <2>1, <2>7, Asked DEF IInv
  <2>9. QED
    BY <2>4, <2>5, <2>6, <2>8 DEF IInv
<1>7. QED
  BY <1>4, <1>5, <1>6, ReceivesKinds

LEMMA NextModuleTyped ==
  ASSUME tc1 \in TC1Places, NEW n \in Int
  PROVE  /\ NextModule(n) \in TC1Places /\ NextModule(n).at \in {"receives", "scans"}
         /\ NextModule(n).at = "scans" => NextModule(n).msg = tc1.msg
<1>1. CASE n + 1 = MODULES
  BY <1>1, WaitingTyped DEF NextModule
<1>2. CASE n + 1 # MODULES
  <2>1. NextModule(n) = [tc1 EXCEPT !.at = "scans", !.next = n + 1]
    BY <1>2 DEF NextModule
  <2>2. n + 1 \in Int
    OBVIOUS
  <2>3. \A x \in Int : [tc1 EXCEPT !.at = "scans", !.next = x] \in TC1Places
    BY DEF TC1Places
  <2>4. \A x \in Int : /\ [tc1 EXCEPT !.at = "scans", !.next = x].at = "scans"
                       /\ [tc1 EXCEPT !.at = "scans", !.next = x].msg = tc1.msg
    BY DEF TC1Places
  <2>5. QED
    BY <2>1, <2>2, <2>3, <2>4
<1>3. QED
  BY <1>1, <1>2

LEMMA ScansModuleKeeps == IInv /\ ScansModule => IInv'
<1> SUFFICES ASSUME IInv, ScansModule PROVE IInv'
  OBVIOUS
<1> DEFINE hits == Hits(tc1.msg.arg, tc1.next)
<1>1. /\ requests = <<>> /\ wire' = wire /\ box' = box /\ train' = train /\ answer' = answer
      /\ tc1.at = "scans" /\ inbox' = inbox
  BY DEF ScansModule, ServerWaits, line, world
<1>2. s \in TC1States /\ tc1 \in TC1Places /\ tc1.next \in Int
  BY DEF IInv, Typed, TC1Places
<1>3. PICK S \in SUBSET Sensors : tc1.msg = Snapshot(S)
  BY <1>1 DEF IInv, Routed
<1>4. ASSUME s' \in TC1States, tc1' \in TC1Places PROVE Typed'
  BY <1>1, <1>4 DEF IInv, Typed
<1>5. /\ NextModule(tc1.next) \in TC1Places /\ NextModule(tc1.next).at \in {"receives", "scans"}
      /\ NextModule(tc1.next).at = "scans" => NextModule(tc1.next).msg = Snapshot(S)
  BY <1>2, <1>3, NextModuleTyped
<1>6. CASE tc1' = NextModule(tc1.next) /\ requests' = requests
           /\ s' \in TC1States /\ s'.speed = s.speed /\ s'.route = s.route
           /\ (s'.state = "routing" <=> s.state = "routing")
  <2>1. Typed' /\ Asking'
    BY <1>1, <1>4, <1>5, <1>6 DEF Asking
  <2>2. Routed'
    BY <1>5, <1>6 DEF IInv, Routed
  <2>3. Target' = Target /\ \A j : SwitchAsked(j)' => SwitchAsked(j)
    BY <1>1, <1>5, <1>6 DEF Target, SwitchAsked
  <2>4. \E B : Comes(B)'
    BY <1>1, <1>6, <2>3, WantsNoMore, NothingAsked DEF IInv
  <2>5. QED
    BY <2>1, <2>2, <2>4 DEF IInv
<1>7. CASE hits = {}
  BY <1>2, <1>6, <1>7 DEF ScansModule
<1>8. CASE hits # {}
  <2>1. hits \subseteq S
    BY <1>3 DEF Hits, Snapshot
  <2>2. process_sensor(Min(hits))
    BY <1>8 DEF ScansModule
  <2> HIDE DEF hits
  <2>3. PICK hit \in Sensors : hit = Min(hits)
    BY <1>8, <2>1, MinIsIn, SensorFacts
  <2>4. /\ s' \in TC1States /\ s'.speed = s.speed /\ s'.route = s.route
        /\ (s'.state = "routing" <=> s.state = "routing")
    BY <1>2, <2>2, <2>3 DEF process_sensor, TC1States
  <2>5. CASE ~MustStop(hit)
    BY <1>6, <2>2, <2>3, <2>4, <2>5 DEF process_sensor
  <2>6. CASE MustStop(hit)
    <3>1. requests' = <<AskSpeed(0)>> /\ tc1' = [tc1 EXCEPT !.at = "stops"]
      BY <1>1, <2>2, <2>3, <2>6 DEF process_sensor, Asks
    <3>2. tc1' \in TC1Places /\ tc1'.at = "stops" /\ tc1'.msg = Snapshot(S)
      BY <1>2, <1>3, <3>1 DEF TC1Places
    <3>3. Typed'
      BY <1>4, <2>4, <3>2
    <3>4. Asking'
      <4>1. IsRequest(AskSpeed(0)) /\ AskSpeed(0).type = "speed"
        BY DEF IsRequest, AskSpeed
      <4>2. QED
        BY <3>1, <3>2, <4>1 DEF Asking
    <3>5. Routed'
      BY <2>4, <3>2 DEF IInv, Routed
    <3>6. ASSUME NEW k \in Keys, NEW x, Wants(k, x)'
          PROVE  IF KeyOf(AskSpeed(0)) = k THEN x = ValueOf(AskSpeed(0)) ELSE Wants(k, x)
      <4>1. KeyOf(AskSpeed(0)) = <<"speed", TRAIN_ADDR>> /\ ValueOf(AskSpeed(0)) = 0
        BY DEF KeyOf, ValueOf, AskSpeed
      <4>2. Target' = 0
        BY <3>2 DEF Target
      <4>3. \A j : SwitchAsked(j)' => SwitchAsked(j)
        BY <1>1, <2>4, <3>2 DEF SwitchAsked
      <4>4. CASE k = <<"speed", TRAIN_ADDR>> /\ x = Target'
        BY <4>1, <4>2, <4>4
      <4>5. CASE \E j : /\ SwitchAsked(j)' /\ k = <<"switch", s'.route.sw[j][1]>>
                        /\ x = s'.route.sw[j][2]
        <5>1. Wants(k, x)
          BY <2>4, <4>3, <4>5 DEF Wants
        <5>2. k # <<"speed", TRAIN_ADDR>>
          BY <4>5
        <5>3. QED
          BY <4>1, <5>1, <5>2
      <4>6. QED
        BY <3>6, <4>4, <4>5 DEF Wants
    <3>7. \E B : Comes(B)'
      BY <1>1, <3>1, <3>6, Asked DEF IInv
    <3>8. QED
      BY <3>3, <3>4, <3>5, <3>7 DEF IInv
  <2>7. QED
    BY <2>5, <2>6
<1>9. QED
  BY <1>7, <1>8

LEMMA StoppedKeeps == IInv /\ Stopped => IInv'
<1> SUFFICES ASSUME IInv, Stopped PROVE IInv'
  OBVIOUS
<1>1. /\ requests = <<>> /\ requests' = requests /\ wire' = wire /\ box' = box /\ train' = train
      /\ answer' = answer /\ tc1.at = "stops" /\ inbox' = inbox
      /\ s' = [s EXCEPT !.speed = 0, !.state = "stopped"] /\ tc1' = NextModule(tc1.next)
  BY DEF Stopped, ServerWaits, server, line, world
<1>2. s \in TC1States /\ tc1 \in TC1Places /\ tc1.next \in Int
  BY DEF IInv, Typed, TC1Places
<1>3. tc1' \in TC1Places /\ tc1'.at \in {"receives", "scans"} /\ (tc1'.at = "scans" => tc1'.msg = tc1.msg)
  BY <1>1, <1>2, NextModuleTyped
<1>4. /\ s' \in TC1States /\ s'.speed = 0 /\ s'.state = "stopped" /\ s'.route = s.route
  <2>1. 0 \in 0..14
    OBVIOUS
  <2>2. [s EXCEPT !.speed = 0, !.state = "stopped"] \in TC1States
    BY <1>2, <2>1 DEF TC1States
  <2>3. QED
    BY <1>1, <1>2, <2>2 DEF TC1States
<1>5. Typed' /\ Asking'
  BY <1>1, <1>3, <1>4 DEF IInv, Typed, Asking
<1>6. Routed'
  BY <1>1, <1>3, <1>4 DEF IInv, Routed
<1>7. Target' = Target /\ \A j : SwitchAsked(j)' => SwitchAsked(j)
  BY <1>1, <1>3, <1>4 DEF Target, SwitchAsked
<1>8. \E B : Comes(B)'
  BY <1>1, <1>4, <1>7, WantsNoMore, NothingAsked DEF IInv
<1>9. QED
  BY <1>5, <1>6, <1>8 DEF IInv

\* A switch of a route is a number and an arm.
LEMMA RouteSwitches ==
  ASSUME NEW r \in Routes
  PROVE  /\ Len(r.sw) \in Nat /\ DOMAIN r.sw = 1..Len(r.sw)
         /\ \A j \in 1..Len(r.sw) : r.sw[j][1] \in Turnouts /\ r.sw[j][2] \in {1, 2}
         /\ \A i, j \in 1..Len(r.sw) : r.sw[i][1] = r.sw[j][1] => r.sw[i][2] = r.sw[j][2]
<1>1. LeadsAlong(r)
  BY RoutesFit DEF Routes
<1> DEFINE q == r.sw
<1>2. q \in Seq(Turnouts \X {1, 2})
  BY <1>1 DEF LeadsAlong
<1>3. \A i, j \in DOMAIN q : q[i][1] = q[j][1] => q[i][2] = q[j][2]
  BY <1>1 DEF LeadsAlong
<1> HIDE DEF q
<1>4. Len(q) \in Nat /\ DOMAIN q = 1..Len(q) /\ \A j \in 1..Len(q) : q[j] \in Turnouts \X {1, 2}
  BY <1>2, LenProperties, ElementOfSeq
<1>5. QED
  BY <1>3, <1>4 DEF q

LEMMA AppliesSwitchKeeps == IInv /\ AppliesSwitch => IInv'
<1> SUFFICES ASSUME IInv, AppliesSwitch PROVE IInv'
  OBVIOUS
<1> DEFINE n == tc1.next
           sw == s.route.sw
           r == AskSwitch(sw[n])
<1>1. /\ requests = <<>> /\ requests' = <<r>> /\ wire' = wire /\ box' = box /\ train' = train
      /\ answer' = answer /\ tc1.at = "applies" /\ inbox' = inbox /\ s' = s
      /\ tc1' = [tc1 EXCEPT !.next = n + 1] /\ n <= Len(sw)
  BY DEF AppliesSwitch, ServerWaits, Asks, line, world
<1>2. s \in TC1States /\ tc1 \in TC1Places /\ n \in Int
  BY DEF IInv, Typed, TC1Places
<1>3. n > 0 /\ s.route \in Routes /\ \E d \in Sensors : tc1.msg = Goto(d)
  BY <1>1 DEF IInv, Routed
<1>4. tc1' \in TC1Places /\ tc1'.at = "applies" /\ tc1'.msg = tc1.msg /\ tc1'.next = n + 1 /\ n + 1 > 0
  <2>1. n + 1 \in Int /\ n + 1 > 0
    BY <1>2, <1>3
  <2> HIDE DEF n
  <2>2. QED
    BY <1>1, <1>2, <2>1 DEF TC1Places
<1>5. Typed'
  BY <1>1, <1>4 DEF IInv, Typed
<1>6. Asking'
  <2>1. IsRequest(r) /\ r.type = "switch"
    BY DEF IsRequest, AskSwitch
  <2> HIDE DEF r
  <2>2. QED
    BY <1>1, <1>4, <2>1 DEF Asking
<1>7. Routed'
  BY <1>1, <1>3, <1>4 DEF Routed
<1>8. ASSUME NEW k \in Keys, NEW x, Wants(k, x)'
      PROVE  IF KeyOf(r) = k THEN x = ValueOf(r) ELSE Wants(k, x)
  <2>1. KeyOf(r) = <<"switch", sw[n][1]>> /\ ValueOf(r) = IF sw[n][2] = 2 THEN 2 ELSE 1
    BY DEF KeyOf, ValueOf, AskSwitch
  <2>2. Target' = Target
    BY <1>1, <1>4 DEF Target
  <2>3. CASE k = <<"speed", TRAIN_ADDR>> /\ x = Target'
    BY <2>1, <2>2, <2>3 DEF Wants
  <2>4. CASE \E j : /\ SwitchAsked(j)' /\ k = <<"switch", s'.route.sw[j][1]>>
                    /\ x = s'.route.sw[j][2]
    <3>1. PICK j : SwitchAsked(j)' /\ k = <<"switch", sw[j][1]>> /\ x = sw[j][2]
      BY <1>1, <2>4
    <3>2. j \in 1..Len(sw) /\ j < n + 1
      BY <1>1, <1>4, <3>1 DEF SwitchAsked
    <3>3. /\ Len(sw) \in Nat
          /\ \A i \in 1..Len(sw) : sw[i][2] \in {1, 2}
          /\ \A i, l \in 1..Len(sw) : sw[i][1] = sw[l][1] => sw[i][2] = sw[l][2]
      BY <1>3, <2>4, RouteSwitches
    <3>4. n \in 1..Len(sw)
      BY <1>1, <1>2, <1>3, <3>3
    <3>5. CASE KeyOf(r) = k
      <4>1. sw[n][1] = sw[j][1]
        BY <2>1, <3>1, <3>5
      <4>2. sw[n][2] = x /\ x \in {1, 2}
        BY <3>1, <3>2, <3>3, <3>4, <4>1
      <4>3. QED
        BY <2>1, <3>5, <4>2
    <3>6. CASE KeyOf(r) # k
      <4>1. j # n
        BY <2>1, <3>1, <3>6
      <4>2. j < n
        BY <1>2, <3>2, <3>3, <4>1
      <4>3. SwitchAsked(j)
        BY <1>1, <3>2, <4>2 DEF SwitchAsked
      <4>4. QED
        BY <2>4, <3>1, <3>6, <4>3 DEF Wants
    <3>7. QED
      BY <3>5, <3>6
  <2>5. QED
    BY <1>8, <2>3, <2>4 DEF Wants
<1>9. \E B : Comes(B)'
  <2> HIDE DEF r
  <2>1. QED
    BY <1>1, <1>8, Asked DEF IInv
<1>10. QED
  BY <1>5, <1>6, <1>7, <1>9 DEF IInv

LEMMA SwitchesAppliedKeeps == IInv /\ SwitchesApplied => IInv'
<1> SUFFICES ASSUME IInv, SwitchesApplied PROVE IInv'
  OBVIOUS
<1>1. /\ requests = <<>> /\ requests' = requests /\ wire' = wire /\ box' = box /\ train' = train
      /\ answer' = answer /\ tc1.at = "applies" /\ inbox' = inbox /\ tc1' = Waiting
      /\ s' = [s EXCEPT !.dest = tc1.msg.arg, !.state = "routing"] /\ tc1.next > Len(s.route.sw)
  BY DEF SwitchesApplied, ServerWaits, server, line, world
<1>2. s \in TC1States /\ tc1 \in TC1Places /\ tc1.next \in Int
  BY DEF IInv, Typed, TC1Places
<1>3. PICK d \in Sensors : s.route \in Routes /\ tc1.msg = Goto(d)
  BY <1>1 DEF IInv, Routed
<1>4. tc1' \in TC1Places /\ tc1'.at = "receives"
  BY <1>1, WaitingTyped
<1>5. s' \in TC1States /\ s'.speed = s.speed /\ s'.route = s.route /\ s'.state = "routing"
  <2>1. tc1.msg.arg = d
    BY <1>3 DEF Goto
  <2>2. QED
    BY <1>1, <1>2, <2>1 DEF TC1States
<1>6. Typed' /\ Asking'
  BY <1>1, <1>4, <1>5 DEF IInv, Typed, Asking
<1>7. Routed'
  BY <1>3, <1>4, <1>5 DEF Routed
<1>8. ASSUME NEW k \in Keys, NEW x, Wants(k, x)' PROVE Wants(k, x)
  <2>1. Target' = Target
    BY <1>1, <1>4, <1>5 DEF Target
  <2>2. ASSUME NEW j, SwitchAsked(j)' PROVE SwitchAsked(j)
    <3>1. j \in 1..Len(s.route.sw)
      BY <1>5, <2>2 DEF SwitchAsked
    <3>2. Len(s.route.sw) \in Nat
      BY <1>3, <2>2, RouteSwitches
    <3>3. j < tc1.next
      BY <1>1, <1>2, <3>1, <3>2
    <3>4. QED
      BY <1>1, <3>1, <3>3 DEF SwitchAsked
  <2>3. QED
    BY <1>5, <1>8, <2>1, <2>2 DEF Wants
<1>9. \E B : Comes(B)'
  BY <1>1, <1>8, NothingAsked DEF IInv
<1>10. QED
  BY <1>6, <1>7, <1>9 DEF IInv

LEMMA ControllerKeeps == IInv /\ Controller => IInv'
<1>1. ASSUME IInv, Starts PROVE IInv'
  BY <1>1, BackToReceive DEF Starts
<1>2. ASSUME IInv, SpeedApplied PROVE IInv'
  BY <1>2, BackToReceive DEF SpeedApplied
<1>3. QED
  BY <1>1, <1>2, ReceivesKeeps, ScansModuleKeeps, StoppedKeeps, AppliesSwitchKeeps,
     SwitchesAppliedKeeps DEF Controller

LEMMA ServerSendsKeeps == IInv /\ ServerSends => IInv'
<1> SUFFICES ASSUME IInv, ServerSends PROVE IInv'
  OBVIOUS
<1>1. PICK r : requests = <<r>> /\ IsRequest(r)
  BY DEF IInv, Asking, ServerSends
<1>2. /\ requests' = <<>> /\ wire' = wire \o Bytes(r) /\ box' = box /\ train' = train
      /\ answer' = answer /\ inbox' = inbox /\ s' = s /\ tc1' = tc1
  <2>1. Head(requests) = r /\ Tail(requests) = <<>>
    BY <1>1
  <2>2. QED
    BY <2>1 DEF ServerSends, controller, world
<1>3. (\E S : wire' \in Seq(S)) /\ \E B : Comes(B)'
  BY <1>1, <1>2, Sent DEF IInv
<1>4. Typed' /\ Asking' /\ Routed'
  BY <1>2, <1>3 DEF IInv, Typed, Asking, Routed
<1>5. QED
  BY <1>3, <1>4 DEF IInv

LEMMA ServerReadsKeeps == IInv /\ ServerReads => IInv'
<1> SUFFICES ASSUME IInv, ServerReads PROVE IInv'
  OBVIOUS
<1>1. /\ requests' = requests /\ wire' = wire /\ box' = box /\ train' = train
      /\ answer # <<>> /\ answer' = Tail(answer) /\ s' = s /\ tc1' = tc1
      /\ inbox' = Append(inbox, Snapshot(Head(answer)))
  BY DEF ServerReads, controller, world
<1>2. answer' \in Seq(SUBSET Sensors) /\ Head(answer) \in SUBSET Sensors
  <2>1. answer \in Seq(SUBSET Sensors)
    BY DEF IInv, Typed
  <2>2. QED
    BY <1>1, <2>1, TailFacts
<1>3. Snapshot(Head(answer)) \in Messages
  BY <1>2 DEF Messages
<1>4. inbox' \in Seq(Messages)
  BY <1>1, <1>3, AppendsTo DEF IInv, Typed
<1>5. Typed' /\ Asking' /\ Routed'
  BY <1>1, <1>2, <1>4 DEF IInv, Typed, Asking, Routed
<1>6. \A k : \A v : Wants(k, v)' => Wants(k, v)
  BY <1>1 DEF Wants, Target, SwitchAsked
<1>7. \E B : Comes(B)'
  BY <1>1, <1>6, NothingAsked DEF IInv
<1>8. QED
  BY <1>5, <1>7 DEF IInv

LEMMA TrainMovesKeeps == IInv /\ TrainMoves => IInv'
<1> SUFFICES ASSUME IInv, TrainMoves PROVE IInv'
  OBVIOUS
<1>1. /\ requests' = requests /\ wire' = wire /\ box' = box /\ answer' = answer
      /\ inbox' = inbox /\ s' = s /\ tc1' = tc1
  BY DEF TrainMoves, controller, server, line
<1>2. DOMAIN train' = {"at", "passed", "since", "coast"} /\ train'.passed \subseteq Sensors
  <2> DEFINE n == Ahead(train.at)
             coast == IF box.speed > 0 THEN 0 ELSE train.coast - 1
  <2>1. \/ n \in Sensors /\ train' = [at |-> n, passed |-> train.passed \cup {n},
                                      since |-> train.since + 1, coast |-> coast]
        \/ train' = [train EXCEPT !.at = n, !.coast = coast]
    BY DEF TrainMoves
  <2>2. DOMAIN train = {"at", "passed", "since", "coast"} /\ train.passed \subseteq Sensors
    BY DEF IInv, Typed
  <2> HIDE DEF n, coast
  <2>3. CASE n \in Sensors /\ train' = [at |-> n, passed |-> train.passed \cup {n},
                                        since |-> train.since + 1, coast |-> coast]
    BY <2>2, <2>3
  <2>4. CASE train' = [train EXCEPT !.at = n, !.coast = coast]
    BY <2>2, <2>4
  <2>5. QED
    BY <2>1, <2>3, <2>4
<1>3. Typed' /\ Asking' /\ Routed'
  BY <1>1, <1>2 DEF IInv, Typed, Asking, Routed
<1>4. \A k : \A v : Wants(k, v)' => Wants(k, v)
  BY <1>1 DEF Wants, Target, SwitchAsked
<1>5. \E B : Comes(B)'
  BY <1>1, <1>4, NothingAsked DEF IInv
<1>6. QED
  BY <1>3, <1>5 DEF IInv

LEMMA KeysNow ==
  ASSUME NEW k \in Keys
  PROVE  \/ k = <<"speed", TRAIN_ADDR>> /\ Now(k) = box.speed
         \/ \E n \in Turnouts : k = <<"switch", n>> /\ Now(k) = box.turnout[n]
BY DEF Keys, Now

LEMMA BoxSetsSpeedKeeps == IInv /\ BoxSetsSpeed => IInv'
<1> SUFFICES ASSUME IInv, BoxSetsSpeed PROVE IInv'
  OBVIOUS
<1>1. /\ requests' = requests /\ answer' = answer /\ inbox' = inbox /\ s' = s /\ tc1' = tc1
      /\ wire' = SubSeq(wire, 2 + 1, Len(wire)) /\ Len(wire) >= 2 /\ wire[1] < 16
  BY DEF BoxSetsSpeed, BoxObeys, controller, server
<1>2. wire # <<>>
  <2>1. CASE wire = <<>>
    BY <1>1, <2>1
  <2>2. QED
    BY <2>1
<1>3. PICK S, B : wire \in Seq(S) /\ Framed(wire, B)
  BY DEF IInv, Typed, Comes
<1>4. wire[1] \in FirstBytes /\ (wire[1] < 16 => wire[2] = TRAIN_ADDR)
  BY <1>2, <1>3, CommandLeaves
<1>5. wire[1] \in Nat /\ wire[1] \in 0..15 /\ wire[2] = TRAIN_ADDR
  <2>1. wire[1] \in Nat
    BY <1>4, FirstBytesAre, Zenon
  <2>2. wire[1] \in 0..15
    BY <1>1, <2>1
  <2>3. wire[2] = TRAIN_ADDR
    BY <1>1, <1>4
  <2>4. QED
    BY <2>1, <2>2, <2>3
<1>6. /\ box' = [box EXCEPT !.speed = wire[1]]
      /\ \E x : train' = [train EXCEPT !.coast = x]
  BY <1>5 DEF BoxSetsSpeed
<1>7. box \in [speed : 0..15, turnout : [Turnouts -> {1, 2}]]
  BY DEF IInv, Typed
<1>8. /\ box' \in [speed : 0..15, turnout : [Turnouts -> {1, 2}]]
      /\ box'.speed = wire[1] /\ box'.turnout = box.turnout
  BY <1>5, <1>6, <1>7
<1>9. DOMAIN train' = {"at", "passed", "since", "coast"} /\ train'.passed \subseteq Sensors
  BY <1>6 DEF IInv, Typed
<1>10. Size(wire, 1) = 2 /\ About(wire, 1) = <<"speed", TRAIN_ADDR>> /\ Value(wire, 1) = wire[1]
  BY <1>1, <1>5 DEF Size, About, Value
<1>11. ASSUME NEW k \in Keys
       PROVE  Now(k)' = IF About(wire, 1) = k THEN Value(wire, 1) ELSE Now(k)
  <2>1. CASE k = <<"speed", TRAIN_ADDR>>
    BY <1>8, <1>10, <2>1 DEF Now
  <2>2. CASE \E n \in Turnouts : k = <<"switch", n>> /\ Now(k) = box.turnout[n]
    BY <1>8, <1>10, <2>2 DEF Now
  <2>3. QED
    BY <2>1, <2>2, KeysNow
<1>12. (\E T : wire' \in Seq(T)) /\ \E C : Comes(C)'
  BY <1>1, <1>2, <1>10, <1>11, Obeyed DEF IInv
<1>13. Typed' /\ Asking' /\ Routed'
  BY <1>1, <1>8, <1>9, <1>12 DEF IInv, Typed, Asking, Routed
<1>14. QED
  BY <1>12, <1>13 DEF IInv

LEMMA BoxSetsSwitchKeeps == IInv /\ BoxSetsSwitch => IInv'
<1> SUFFICES ASSUME IInv, BoxSetsSwitch PROVE IInv'
  OBVIOUS
<1>1. /\ requests' = requests /\ answer' = answer /\ inbox' = inbox /\ s' = s /\ tc1' = tc1
      /\ train' = train /\ wire' = SubSeq(wire, 3 + 1, Len(wire)) /\ Len(wire) >= 3
  BY DEF BoxSetsSwitch, BoxObeys, controller, server
<1>2. PICK d \in {1, 2} : wire[1] = SW_BASE + d /\ wire[1] - SW_BASE = d
  BY DEF BoxSetsSwitch, SW_BASE
<1>3. wire # <<>>
  <2>1. CASE wire = <<>>
    BY <1>1, <2>1
  <2>2. QED
    BY <2>1
<1>4. box \in [speed : 0..15, turnout : [Turnouts -> {1, 2}]]
  BY DEF IInv, Typed
<1>5. box' = IF wire[2] \in Turnouts THEN [box EXCEPT !.turnout[wire[2]] = d] ELSE box
  <2>1. DOMAIN box.turnout = Turnouts
    BY <1>4
  <2>2. QED
    BY <1>2, <2>1 DEF BoxSetsSwitch
<1>6. /\ box' \in [speed : 0..15, turnout : [Turnouts -> {1, 2}]]
      /\ box'.speed = box.speed
      /\ \A n \in Turnouts : box'.turnout[n] = IF n = wire[2] THEN d ELSE box.turnout[n]
  <2>1. CASE wire[2] \in Turnouts
    BY <1>4, <1>5, <2>1
  <2>2. CASE wire[2] \notin Turnouts
    BY <1>4, <1>5, <2>2
  <2>3. QED
    BY <2>1, <2>2
<1>7. ~(wire[1] < 16) /\ wire[1] < SENSOR_BASE
  BY <1>2 DEF SW_BASE, SENSOR_BASE
<1>8. Size(wire, 1) = 3 /\ About(wire, 1) = <<"switch", wire[2]>> /\ Value(wire, 1) = d
  BY <1>2, <1>7 DEF Size, About, Value
<1>9. ASSUME NEW k \in Keys
      PROVE  Now(k)' = IF About(wire, 1) = k THEN Value(wire, 1) ELSE Now(k)
  <2>1. CASE k = <<"speed", TRAIN_ADDR>>
    BY <1>6, <1>8, <2>1 DEF Now
  <2>2. CASE \E n \in Turnouts : k = <<"switch", n>> /\ Now(k) = box.turnout[n]
    <3>1. PICK n \in Turnouts : k = <<"switch", n>>
      BY <2>2
    <3>2. Now(k) = box.turnout[n] /\ Now(k)' = box'.turnout[n]
      BY <3>1 DEF Now
    <3>3. QED
      BY <1>6, <1>8, <3>1, <3>2
  <2>3. QED
    BY <2>1, <2>2, KeysNow
<1>10. (\E T : wire' \in Seq(T)) /\ \E C : Comes(C)'
  BY <1>1, <1>3, <1>8, <1>9, Obeyed DEF IInv
<1>11. Typed' /\ Asking' /\ Routed'
  BY <1>1, <1>6, <1>10 DEF IInv, Typed, Asking, Routed
<1>12. QED
  BY <1>10, <1>11 DEF IInv

LEMMA BoxAnswersPollKeeps == IInv /\ BoxAnswersPoll => IInv'
<1> SUFFICES ASSUME IInv, BoxAnswersPoll PROVE IInv'
  OBVIOUS
<1>1. /\ requests' = requests /\ inbox' = inbox /\ s' = s /\ tc1' = tc1 /\ box' = box
      /\ wire' = SubSeq(wire, 1 + 1, Len(wire)) /\ wire # <<>> /\ wire[1] > SENSOR_BASE
      /\ train' = [train EXCEPT !.passed = {}, !.since = 0]
      /\ answer' = Append(answer, train.passed \cup ({train.at} \cap Sensors))
  BY DEF BoxAnswersPoll, BoxObeys, controller, server
<1>2. answer' \in Seq(SUBSET Sensors)
  <2>1. train.passed \cup ({train.at} \cap Sensors) \in SUBSET Sensors
    BY DEF IInv, Typed
  <2>2. QED
    BY <1>1, <2>1, AppendsTo DEF IInv, Typed
<1>3. DOMAIN train' = {"at", "passed", "since", "coast"} /\ train'.passed \subseteq Sensors
  BY <1>1 DEF IInv, Typed
<1>4. PICK S, B : wire \in Seq(S) /\ Framed(wire, B)
  BY DEF IInv, Typed, Comes
<1>5. wire[1] \in Nat
  BY <1>1, <1>4, CommandLeaves, FirstBytesAre
<1>6. ~(wire[1] < 16) /\ ~(wire[1] < SENSOR_BASE)
  BY <1>1, <1>5 DEF SENSOR_BASE
<1>7. Size(wire, 1) = 1 /\ About(wire, 1) = <<"poll", 0>>
  BY <1>6 DEF Size, About
<1>8. ASSUME NEW k \in Keys
      PROVE  Now(k)' = IF About(wire, 1) = k THEN Value(wire, 1) ELSE Now(k)
  BY <1>1, <1>7 DEF Now, Keys
<1>9. (\E T : wire' \in Seq(T)) /\ \E C : Comes(C)'
  BY <1>1, <1>7, <1>8, Obeyed DEF IInv
<1>10. Typed' /\ Asking' /\ Routed'
  BY <1>1, <1>2, <1>3, <1>9 DEF IInv, Typed, Asking, Routed
<1>11. QED
  BY <1>9, <1>10 DEF IInv

LEMMA StutterKeeps == IInv /\ UNCHANGED trainVars => IInv'
<1> SUFFICES ASSUME IInv, UNCHANGED trainVars PROVE IInv'
  OBVIOUS
<1>1. /\ s' = s /\ tc1' = tc1 /\ inbox' = inbox /\ requests' = requests /\ wire' = wire
      /\ answer' = answer /\ box' = box /\ train' = train
  BY DEF trainVars
<1>2. Typed' /\ Asking' /\ Routed'
  BY <1>1 DEF IInv, Typed, Asking, Routed
<1>3. \A k : \A v : Wants(k, v)' => Wants(k, v)
  BY <1>1 DEF Wants, Target, SwitchAsked
<1>4. \E B : Comes(B)'
  BY <1>1, <1>3, NothingAsked DEF IInv
<1>5. QED
  BY <1>2, <1>4 DEF IInv

THEOREM TrainInvariant == CSpec => []IInv
<1>1. IInv /\ [CNext]_trainVars => IInv'
  BY NotifierPollsKeeps, ShellSendsKeeps, ControllerKeeps, ServerSendsKeeps, ServerReadsKeeps,
     BoxSetsSpeedKeeps, BoxSetsSwitchKeeps, BoxAnswersPollKeeps, TrainMovesKeeps, StutterKeeps
  DEF CNext, Box
<1>2. QED
  BY <1>1, InitHolds, PTL DEF CSpec

-----------------------------------------------------------------------------
(* What follows. *)

\* An empty line, and no request about it: it is what the controller wants.
LEMMA SilentLine ==
  ASSUME IInv, wire = <<>>, NEW k \in Keys, NEW v, Wants(k, v),
         IF k[1] = "speed" THEN tc1.at \notin {"starts", "speeds", "stops"} ELSE tc1.at # "applies"
  PROVE  Now(k) = v
<1>1. PICK B : Comes(B)
  BY DEF IInv
<1>2. Will(B, k, v) /\ Framed(wire, B)
  BY <1>1 DEF Comes
<1>3. ~(requests # <<>> /\ KeyOf(requests[1]) = k)
  <2>1. SUFFICES ASSUME requests # <<>> PROVE KeyOf(requests[1]) # k
    OBVIOUS
  <2>2. PICK r : /\ requests = <<r>>
                 /\ r.type = "speed" => tc1.at \in {"starts", "speeds", "stops"}
                 /\ r.type = "switch" => tc1.at = "applies"
    BY <2>1 DEF IInv, Asking
  <2>3. KeyOf(r)[1] = r.type \/ KeyOf(r)[1] = "poll"
    BY DEF KeyOf
  <2>4. k[1] \in {"speed", "switch"}
    BY DEF Keys
  <2>5. KeyOf(r)[1] # k[1]
    BY <2>2, <2>3, <2>4
  <2>6. QED
    BY <2>2, <2>5
<1>4. LastOf(wire, B, k, Now(k), v)
  BY <1>2, <1>3 DEF Will
<1>5. \A b \in B : b = Len(wire) + 1
  <2>1. Len(wire) = 0
    OBVIOUS
  <2>2. B \subseteq 1..1
    BY <1>2, <2>1 DEF Framed
  <2>3. QED
    BY <2>1, <2>2
<1>6. QED
  BY <1>4, <1>5 DEF LastOf

\* tc1.c, marklin.c: commands of one, two and three bytes share the line with
\* the notifier's polls.  When the line is silent and the controller waits for a
\* message, the train has the speed the controller believes it has.
THEOREM SpeedKnown == CSpec => []SpeedIsKnown
<1>1. ASSUME IInv, tc1.at = "receives", wire = <<>> PROVE box.speed = s.speed
  <2> DEFINE k == <<"speed", TRAIN_ADDR>>
  <2>1. k \in Keys /\ k[1] = "speed" /\ Now(k) = box.speed
    BY DEF Keys, Now
  <2>2. Wants(k, s.speed)
    BY <1>1 DEF Wants, Target
  <2> HIDE DEF k
  <2>3. QED
    BY <1>1, <2>1, <2>2, SilentLine
<1>2. IInv => SpeedIsKnown
  BY <1>1 DEF SpeedIsKnown
<1>3. QED
  BY <1>2, TrainInvariant, PTL

\* tc1.c:327-361, route.c:126-134: once the switches of a goto are set, the
\* turnouts lead from each node of the route to the next.
THEOREM SwitchesLead == CSpec => []SwitchesLeadToDest
<1>1. ASSUME IInv, s.state = "routing", tc1.at # "applies", wire = <<>>,
             NEW i \in 1..Len(s.route.nodes) - 1
      PROVE  Ahead(s.route.nodes[i]) = s.route.nodes[i + 1]
  <2> DEFINE n == s.route.nodes[i]
             sw == s.route.sw
             edge == track[n].edge
  <2>1. s.route \in Routes
    BY <1>1 DEF IInv, Routed
  <2>2. LeadsAlong(s.route)
    BY <2>1, RoutesFit DEF Routes
  <2>3. /\ edge # <<>>
        /\ IF n \in Branches
           THEN \E j \in DOMAIN sw : sw[j][1] = track[n].num /\ edge[sw[j][2]].dest = s.route.nodes[i + 1]
           ELSE edge[1].dest = s.route.nodes[i + 1]
    BY <2>2 DEF LeadsAlong, Leads
  <2>4. DOMAIN sw = 1..Len(sw)
    BY <2>1, RouteSwitches
  <2> HIDE DEF n, sw
  <2>5. CASE n \in Branches
    <3>1. PICK j \in 1..Len(sw) : sw[j][1] = track[n].num /\ edge[sw[j][2]].dest = s.route.nodes[i + 1]
      BY <2>3, <2>4, <2>5
    <3> DEFINE k == <<"switch", track[n].num>>
    <3>2. k \in Keys /\ k[1] = "switch" /\ Now(k) = box.turnout[track[n].num]
      BY <2>5 DEF Keys, Now, Turnouts
    <3>3. SwitchAsked(j)
      BY <1>1 DEF SwitchAsked, sw
    <3>4. Wants(k, sw[j][2])
      BY <3>1, <3>3 DEF Wants, sw
    <3> HIDE DEF k
    <3>5. box.turnout[track[n].num] = sw[j][2]
      BY <1>1, <3>2, <3>4, SilentLine
    <3>6. QED
      BY <2>3, <2>5, <3>1, <3>5 DEF Ahead, n
  <2>6. CASE n \notin Branches
    BY <2>3, <2>6 DEF Ahead, n
  <2>7. QED
    BY <2>5, <2>6
<1>2. IInv => SwitchesLeadToDest
  BY <1>1 DEF SwitchesLeadToDest
<1>3. QED
  BY <1>2, TrainInvariant, PTL

-----------------------------------------------------------------------------
(* The routes that are taken. *)

\* No sensor has been hit as long as the train is looked for.
LEMMA Discovers == CSpec => [](s.state = "discover" => s.last_node = NoNode)
<1> DEFINE Unseen == s.state = "discover" => s.last_node = NoNode
<1>1. CInit => Unseen
  BY DEF CInit
<1>2. ASSUME IInv, Unseen, [CNext]_trainVars PROVE Unseen'
  <2>1. s \in TC1States
    BY <1>2 DEF IInv, Typed
  <2>2. CASE s' = s
    BY <1>2, <2>2
  <2>3. CASE Receives
    <3>1. CASE \E d \in Sensors \cup {NoNode} : HandleGoto(d)
      <4>1. PICK d : s' = s \/ s' = [s EXCEPT !.route = RouteTo(d)]
        BY <3>1 DEF HandleGoto
      <4>2. s'.state = s.state /\ s'.last_node = s.last_node
        BY <2>1, <4>1 DEF TC1States
      <4>3. QED
        BY <1>2, <4>2
    <3>2. CASE \E v \in Speeds : s' = [s EXCEPT !.speed = v]
      <4>1. s'.state = s.state /\ s'.last_node = s.last_node
        BY <2>1, <3>2 DEF TC1States
      <4>2. QED
        BY <1>2, <4>1
    <3>3. QED
      BY <1>2, <2>2, <2>3, <3>1, <3>2, ReceivesKinds
  <2>4. CASE ScansModule
    <3>1. ASSUME NEW hit, process_sensor(hit) PROVE s'.state # "discover"
      BY <2>1, <3>1 DEF process_sensor, TC1States
    <3>2. s' = s \/ \E hit : process_sensor(hit)
      BY <2>4 DEF ScansModule
    <3>3. QED
      BY <2>2, <3>1, <3>2
  <2>5. CASE Stopped
    BY <2>1, <2>5 DEF Stopped, TC1States
  <2>6. CASE SwitchesApplied
    BY <2>1, <2>6 DEF SwitchesApplied, TC1States
  <2>7. CASE Starts \/ AppliesSwitch \/ SpeedApplied
    BY <2>2, <2>7 DEF Starts, AppliesSwitch, SpeedApplied
  <2>8. CASE NotifierPolls \/ ShellSends \/ ServerSends \/ ServerReads
    BY <2>2, <2>8 DEF NotifierPolls, ShellSends, ServerSends, ServerReads, controller
  <2>9. CASE Box
    BY <2>2, <2>9 DEF Box, BoxSetsSpeed, BoxSetsSwitch, BoxAnswersPoll, BoxObeys, controller
  <2>10. CASE TrainMoves
    BY <2>2, <2>10 DEF TrainMoves, controller
  <2>11. CASE UNCHANGED trainVars
    BY <2>2, <2>11 DEF trainVars
  <2>12. QED
    BY <1>2, <2>3, <2>4, <2>5, <2>6, <2>7, <2>8, <2>9, <2>10, <2>11 DEF CNext, Controller
<1>3. QED
  <2>1. IInv /\ Unseen /\ [CNext]_trainVars => Unseen'
    BY <1>2
  <2>2. QED
    BY <1>1, <2>1, TrainInvariant, PTL DEF CSpec

\* route.c:23-111, tc1.c:327-352: a goto takes a shortest route of the track, and
\* is refused only if no track leads to the sensor; the controller then keeps its
\* state.
THEOREM GotoTakesShortest == CSpec => GotoIsShortest
<1> DEFINE Known == s.state = "discover" => s.last_node = NoNode
           Takes(d) == IF Reachable(s.last_node, d)
                       THEN IsShortestPath(s'.route.nodes, s.last_node, d)
                       ELSE s' = s
           Step == \A d \in Sensors :
                     Receives /\ Head(inbox) = Goto(d) /\ s.last_node \notin {NoNode, d} => Takes(d)
<1>1. ASSUME IInv, Known, NEW d \in Sensors, Receives, Head(inbox) = Goto(d), s.last_node \notin {NoNode, d}
      PROVE  Takes(d)
  <2>1. HandleGoto(d)
    <3> DEFINE m == Head(inbox)
    <3>1. (CASE m.type = "sensor" -> /\ tc1' = [at |-> "scans", msg |-> m, next |-> 0]
                                     /\ UNCHANGED <<s, requests>>
             [] m.type = "goto"   -> HandleGoto(m.arg)
             [] m.type = "speed"  -> /\ tc1' = [tc1 EXCEPT !.at = "speeds"]
                                     /\ s' = [s EXCEPT !.speed = m.arg]
                                     /\ Asks(AskSpeed(m.arg)))
      BY <1>1 DEF Receives
    <3>2. m.type = "goto" /\ m.arg = d
      BY <1>1 DEF Goto
    <3> HIDE DEF m
    <3>3. QED
      BY <3>1, <3>2
  <2>2. s \in TC1States
    BY <1>1 DEF IInv, Typed
  <2>3. PICK r : r = route_find(s.last_node, d)
    OBVIOUS
  <2>4. s.last_node \in Sensors /\ s.state # "discover"
    BY <1>1, <2>2 DEF TC1States
  <2>5. IF r = NoRoute THEN s' = s ELSE s' = [s EXCEPT !.route = r]
    BY <1>1, <2>1, <2>3, <2>4 DEF HandleGoto, RouteTo
  <2>6. s.last_node \in Nodes /\ d \in Nodes \ {s.last_node}
    BY <1>1, <2>4 DEF Sensors
  <2>7. IF Reachable(s.last_node, d) THEN r # NoRoute /\ IsShortestPath(r.nodes, s.last_node, d)
        ELSE r = NoRoute
    BY <2>3, <2>6, RouteIsFound
  <2>8. CASE Reachable(s.last_node, d)
    <3>1. s'.route = r
      BY <2>2, <2>5, <2>7, <2>8 DEF TC1States
    <3>2. QED
      BY <2>7, <2>8, <3>1
  <2>9. CASE ~Reachable(s.last_node, d)
    BY <2>5, <2>7, <2>9
  <2>10. QED
    BY <2>8, <2>9
<1>2. IInv /\ Known => Step
  BY <1>1
<1> HIDE DEF Known, Step
<1>3. CSpec => []Known
  BY Discovers DEF Known
<1>4. CSpec => [][Step]_trainVars
  BY <1>2, <1>3, TrainInvariant, PTL DEF CSpec
<1>5. QED
  BY <1>4 DEF GotoIsShortest, Step
=============================================================================
