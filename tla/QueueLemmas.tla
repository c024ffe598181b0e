----------------------------- MODULE QueueLemmas -----------------------------
(***************************************************************************)
(* Facts about queues of tasks, in which nobody stands twice, and about    *)
(* numbers, that the proofs of several modules need: mailboxes, inboxes,   *)
(* wait lists, the delay queue.                                            *)
(***************************************************************************)
EXTENDS SequencesExt, SequenceTheorems, FunctionTheorems, FiniteSetTheorems, TLAPS

Distinct(q) == \A i, j \in DOMAIN q : q[i] = q[j] => i = j

\* Who joins a queue is in it, at its end.
LEMMA AppendsTo ==
  ASSUME NEW T, NEW q \in Seq(T), NEW x \in T
  PROVE  /\ Append(q, x) \in Seq(T)
         /\ Range(Append(q, x)) = Range(q) \cup {x}
         /\ x \notin Range(q) /\ Distinct(q) => Distinct(Append(q, x))
<1> DEFINE r == Append(q, x)
<1>1. /\ r \in Seq(T) /\ Len(r) = Len(q) + 1 /\ Len(q) \in Nat
      /\ \A i \in 1..Len(q) : r[i] = q[i]
      /\ r[Len(q) + 1] = x
  BY AppendProperties, LenProperties
<1>2. DOMAIN q = 1..Len(q) /\ DOMAIN r = 1..(Len(q) + 1)
  BY <1>1, LenProperties
<1> HIDE DEF r
<1>3. \A i \in DOMAIN r : i \in DOMAIN q \/ i = Len(q) + 1
  BY <1>1, <1>2, SMT
<1>4. \A i \in DOMAIN q : i \in DOMAIN r
  BY <1>1, <1>2, SMT
<1>5. Len(q) + 1 \in DOMAIN r
  BY <1>1, <1>2, SMT
<1>6. Range(r) = Range(q) \cup {x}
  BY <1>1, <1>2, <1>3, <1>4, <1>5 DEF Range
<1>7. ASSUME x \notin Range(q), Distinct(q) PROVE Distinct(r)
  BY <1>1, <1>2, <1>3, <1>7 DEF Range, Distinct
<1>8. QED
  BY <1>1, <1>6, <1>7 DEF r

\* What leaves a queue is its first element, and only that.
LEMMA LeavesQueue ==
  ASSUME NEW T, NEW q \in Seq(T), q # <<>>, Distinct(q)
  PROVE  /\ Head(q) \in Range(q) /\ Tail(q) \in Seq(T)
         /\ Range(Tail(q)) = Range(q) \ {Head(q)}
         /\ Distinct(Tail(q))
<1> DEFINE r == Tail(q)
<1>1. /\ Len(q) \in Nat /\ Len(q) > 0 /\ DOMAIN q = 1..Len(q)
      /\ Head(q) = q[1]
  BY EmptySeq, LenProperties
<1>2. /\ Len(r) = Len(q) - 1 /\ DOMAIN r = 1..(Len(q) - 1)
      /\ r \in Seq(T)
      /\ \A i \in 1..(Len(q) - 1) : r[i] = q[i + 1]
  BY <1>1, HeadTailProperties, LenProperties
<1> HIDE DEF r
<1>3. \A i \in DOMAIN r : i + 1 \in DOMAIN q /\ i + 1 # 1 /\ r[i] = q[i + 1]
  BY <1>1, <1>2
<1>4. \A i \in DOMAIN q : i # 1 => i - 1 \in DOMAIN r /\ q[i] = r[i - 1]
  BY <1>1, <1>2
<1>5. 1 \in DOMAIN q
  BY <1>1
<1>6. ASSUME NEW i \in DOMAIN r, NEW j \in DOMAIN r, r[i] = r[j]
      PROVE  i = j
  <2>1. i + 1 = j + 1
    BY <1>3, <1>6 DEF Distinct
  <2>2. QED
    BY <1>1, <1>2, <2>1
<1>7. Range(r) = Range(q) \ {q[1]}
  <2>1. ASSUME NEW x \in Range(r) PROVE x \in Range(q) /\ x # q[1]
    BY <1>3, <1>5, <2>1 DEF Range, Distinct
  <2>2. ASSUME NEW x \in Range(q), x # q[1] PROVE x \in Range(r)
    BY <1>4, <2>2 DEF Range
  <2>3. QED
    BY <2>1, <2>2
<1>8. QED
  BY <1>1, <1>2, <1>5, <1>6, <1>7 DEF r, Range, Distinct

\* A queue that somebody not in it joins, with and without its first element.
LEMMA JoinsQueue ==
  ASSUME NEW T, NEW q \in Seq(T), NEW x \in T, Distinct(q), x \notin Range(q)
  PROVE  LET r == Append(q, x)
         IN  /\ Range(r) = Range(q) \cup {x} /\ Distinct(r) /\ r # <<>>
             /\ Head(r) \in Range(r)
             /\ Range(Tail(r)) = Range(r) \ {Head(r)}
             /\ Distinct(Tail(r))
<1> DEFINE r == Append(q, x)
<1>1. r \in Seq(T) /\ Range(r) = Range(q) \cup {x} /\ Distinct(r) /\ r # <<>>
  BY AppendsTo, AppendProperties
<1> HIDE DEF r
<1>2. /\ Head(r) \in Range(r)
      /\ Range(Tail(r)) = Range(r) \ {Head(r)}
      /\ Distinct(Tail(r))
  BY <1>1, LeavesQueue
<1>3. QED
  BY <1>1, <1>2 DEF r

\* Those who stand in a queue are of its type.
LEMMA RangeTyped ==
  ASSUME NEW T, NEW q \in Seq(T)
  PROVE  Range(q) \subseteq T /\ (Range(q) = {} <=> q = <<>>)
<1>1. DOMAIN q = 1..Len(q) /\ Len(q) \in Nat /\ \A i \in 1..Len(q) : q[i] \in T
  BY LenProperties, ElementOfSeq
<1>2. q # <<>> => q[1] \in Range(q)
  BY <1>1, EmptySeq DEF Range
<1>3. q = <<>> => Range(q) = {}
  BY DEF Range
<1>4. QED
  BY <1>1, <1>2, <1>3 DEF Range

\* Every set of naturals that is not empty has a least element.  A statement
\* about all naturals follows: the set of its counterexamples has none.
LEMMA LeastNatural ==
  ASSUME NEW S \in SUBSET Nat, S # {}
  PROVE  \E x \in S : \A y \in S : x <= y
<1> DEFINE R == {p \in Nat \X Nat : p[1] < p[2]}
<1>1. IsWellFoundedOn(R, Nat)
  <2>1. R = OpToRel(<, Nat)
    BY DEF OpToRel
  <2>2. QED
    BY <2>1, NatLessThanWellFounded
<1>2. PICK x \in S : \A y \in S : ~ (<<y, x>> \in R)
  BY <1>1, WFMin
<1>3. ASSUME NEW y \in S PROVE x <= y
  <2>1. <<y, x>> \in Nat \X Nat => ~(y < x)
    BY <1>2
  <2> HIDE DEF R
  <2>2. QED
    BY <2>1
<1>4. QED
  BY <1>3

\* So does one that is bounded have a greatest.
LEMMA GreatestBelow ==
  ASSUME NEW n \in Nat, NEW S \in SUBSET (0..n), S # {}
  PROVE  \E x \in S : \A y \in S : y <= x
<1> DEFINE R == {n - x : x \in S}
<1>1. R \in SUBSET Nat /\ R # {}
  <2>1. \A x \in 0..n : n - x \in Nat
    OBVIOUS
  <2>2. QED
    BY <2>1
<1>2. PICK m \in R : \A y \in R : m <= y
  <2> HIDE DEF R
  <2>1. QED
    BY <1>1, LeastNatural
<1>3. PICK x \in S : m = n - x
  OBVIOUS
<1>4. ASSUME NEW y \in S PROVE y <= x
  <2>1. n - x <= n - y
    BY <1>2, <1>3
  <2>2. x \in 0..n /\ y \in 0..n
    OBVIOUS
  <2>3. QED
    BY <2>1, <2>2
<1>5. QED
  BY <1>4

\* What does not change from one number to the next is the same for all.
LEMMA Constant ==
  ASSUME NEW n \in Nat, NEW w, \A i \in 2..n : w[i] = w[i - 1]
  PROVE  \A i \in 1..n : w[i] = w[1]
<1> DEFINE Bad == {i \in 1..n : w[i] # w[1]}
<1>1. SUFFICES ASSUME Bad # {} PROVE FALSE
  OBVIOUS
<1>2. Bad \in SUBSET Nat
  OBVIOUS
<1>3. PICK i \in Bad : \A j \in Bad : i <= j
  <2> HIDE DEF Bad
  <2>1. QED
    BY <1>1, <1>2, LeastNatural
<1>4. i \in 2..n /\ i - 1 \in 1..n
  OBVIOUS
<1>5. i - 1 \notin Bad
  <2>1. ~(i <= i - 1)
    BY <1>4
  <2> HIDE DEF Bad
  <2>2. QED
    BY <1>3, <2>1
<1>6. QED
  BY <1>4, <1>5

\* A list without repetitions is as long as the set of its members is large.
LEMMA DistinctCount ==
  ASSUME NEW n \in Nat, NEW S, NEW f \in [1..n -> S],
         \A i, j \in 1..n : f[i] = f[j] => i = j,
         \A x \in S : \E i \in 1..n : f[i] = x
  PROVE  Cardinality(S) = n
<1>1. f \in Bijection(1..n, S)
  BY DEF Bijection, Injection, Surjection, IsInjective
<1>2. QED
  BY <1>1, FS_CountingElements DEF ExistsBijection

\* Who is inserted pushes those behind back by one.
LEMMA InsertsAt ==
  ASSUME NEW T, NEW q \in Seq(T), NEW x \in T, NEW at \in 1..(Len(q) + 1)
  PROVE  LET r == InsertAt(q, at, x)
         IN  /\ r \in Seq(T) /\ Len(r) = Len(q) + 1
             /\ r[at] = x
             /\ \A i \in 1..(at - 1) : r[i] = q[i]
             /\ \A i \in (at + 1)..(Len(q) + 1) : r[i] = q[i - 1]
<1> DEFINE a == SubSeq(q, 1, at - 1)
           b == SubSeq(q, at, Len(q))
           r == (a \o <<x>>) \o b
<1>1. Len(q) \in Nat /\ \A i \in 1..Len(q) : q[i] \in T
  BY LenProperties, ElementOfSeq
<1>2. /\ a \in Seq(T) /\ Len(a) = at - 1
      /\ \A i \in 1..(at - 1) : a[i] = q[i]
  BY <1>1, SubSeqProperties
<1>3. /\ b \in Seq(T) /\ Len(b) = Len(q) - at + 1
      /\ \A i \in 1..(Len(q) - at + 1) : b[i] = q[at + i - 1]
  BY <1>1, SubSeqProperties
<1>4. <<x>> \in Seq(T) /\ Len(<<x>>) = 1 /\ <<x>>[1] = x
  OBVIOUS
<1> HIDE DEF a, b
<1> DEFINE c == a \o <<x>>
<1>5. /\ c \in Seq(T) /\ Len(c) = at /\ c[at] = x
      /\ \A i \in 1..(at - 1) : c[i] = q[i]
  <2>1. /\ a \o <<x>> \in Seq(T) /\ Len(a \o <<x>>) = Len(a) + 1
        /\ \A i \in 1..(Len(a) + 1) :
             (a \o <<x>>)[i] = IF i <= Len(a) THEN a[i] ELSE <<x>>[i - Len(a)]
    BY <1>2, <1>4, ConcatProperties
  <2>2. QED
    BY <2>1, <1>2, <1>4
<1> HIDE DEF c
<1>6. /\ c \o b \in Seq(T) /\ Len(c \o b) = Len(q) + 1
      /\ \A i \in 1..(Len(q) + 1) : (c \o b)[i] = IF i <= at THEN c[i] ELSE b[i - at]
  <2>1. /\ c \o b \in Seq(T) /\ Len(c \o b) = Len(c) + Len(b)
        /\ \A i \in 1..(Len(c) + Len(b)) :
             (c \o b)[i] = IF i <= Len(c) THEN c[i] ELSE b[i - Len(c)]
    BY <1>3, <1>5, ConcatProperties
  <2>2. Len(c) = at /\ Len(c) + Len(b) = Len(q) + 1
    BY <1>1, <1>3, <1>5
  <2>3. QED
    BY <2>1, <2>2
<1>7. \A i \in (at + 1)..(Len(q) + 1) : (c \o b)[i] = q[i - 1]
  <2> SUFFICES ASSUME NEW i \in (at + 1)..(Len(q) + 1) PROVE (c \o b)[i] = q[i - 1]
    OBVIOUS
  <2>1. /\ i - at \in 1..(Len(q) - at + 1) /\ at + (i - at) - 1 = i - 1
        /\ ~(i <= at) /\ i \in 1..(Len(q) + 1)
    BY <1>1
  <2>2. b[i - at] = q[i - 1]
    BY <1>3, <2>1
  <2>3. QED
    BY <1>6, <2>1, <2>2
<1>8. /\ (c \o b)[at] = x /\ \A i \in 1..(at - 1) : (c \o b)[i] = q[i]
  BY <1>1, <1>5, <1>6
<1>9. c \o b = InsertAt(q, at, x)
  BY DEF InsertAt, a, b, c
<1>10. QED
  BY <1>6, <1>7, <1>8, <1>9

\* The first of some slots or places is one of them.
LEMMA MinIsIn ==
  ASSUME NEW S \in SUBSET Nat, S # {}
  PROVE  Min(S) \in S /\ \A y \in S : Min(S) <= y
BY LeastNatural DEF Min

\* Who joins a queue is at its end; the others stay.
LEMMA AppendFacts ==
  ASSUME NEW T, NEW q \in Seq(T), NEW x \in T
  PROVE  LET r == Append(q, x)
         IN  /\ r \in Seq(T) /\ Len(q) \in Nat
             /\ DOMAIN q = 1..Len(q) /\ DOMAIN r = 1..(Len(q) + 1)
             /\ \A i \in DOMAIN q : r[i] = q[i]
             /\ r[Len(q) + 1] = x
             /\ \A i \in DOMAIN r : i \in DOMAIN q \/ i = Len(q) + 1
<1> DEFINE r == Append(q, x)
<1>1. /\ r \in Seq(T) /\ Len(r) = Len(q) + 1
      /\ \A i \in 1..Len(q) : r[i] = q[i]
      /\ r[Len(q) + 1] = x
      /\ Len(q) \in Nat /\ DOMAIN q = 1..Len(q)
  BY AppendProperties, LenProperties
<1> HIDE DEF r
<1>2. DOMAIN r = 1..(Len(q) + 1)
  BY <1>1, LenProperties
<1>3. QED
  BY <1>1, <1>2 DEF r

\* Who leaves a queue leaves it at its front; the others move up.
LEMMA TailFacts ==
  ASSUME NEW T, NEW q \in Seq(T), q # <<>>
  PROVE  LET r == Tail(q)
         IN  /\ r \in Seq(T) /\ Head(q) \in T
             /\ 1 \in DOMAIN q /\ Head(q) = q[1]
             /\ \A i \in DOMAIN r : i \in Nat /\ i + 1 \in DOMAIN q /\ i + 1 # 1 /\ r[i] = q[i + 1]
             /\ \A i \in DOMAIN q : i # 1 => i - 1 \in DOMAIN r /\ r[i - 1] = q[i]
             /\ \A i \in DOMAIN q : i \in Nat \ {0}
<1> DEFINE r == Tail(q)
<1>1. /\ r \in Seq(T) /\ Head(q) \in T /\ Len(r) = Len(q) - 1
      /\ \A i \in 1..Len(r) : r[i] = q[i + 1]
      /\ Len(q) \in Nat \ {0} /\ DOMAIN q = 1..Len(q) /\ Head(q) = q[1]
  BY HeadTailProperties, LenProperties, EmptySeq
<1> HIDE DEF r
<1>2. DOMAIN r = 1..(Len(q) - 1)
  BY <1>1, LenProperties
<1>3. QED
  BY <1>1, <1>2 DEF r

-----------------------------------------------------------------------------
(* Sequences of numbers. *)

LEMMA Regrouped == \A a, b, c \in Seq(Nat) : (a \o b) \o c = a \o (b \o c)
<1> SUFFICES ASSUME NEW a \in Seq(Nat), NEW b \in Seq(Nat), NEW c \in Seq(Nat)
             PROVE  (a \o b) \o c = a \o (b \o c)
  OBVIOUS
<1>1. QED
  BY ConcatAssociative

\* The first element of a sequence moves to the end of the one before it.
LEMMA HandsOn ==
  ASSUME NEW s \in Seq(Nat), NEW t \in Seq(Nat), t # <<>>
  PROVE  Append(s, Head(t)) \o Tail(t) = s \o t
<1>1. /\ Head(t) \in Nat /\ Tail(t) \in Seq(Nat) /\ Len(Tail(t)) = Len(t) - 1
      /\ Head(t) = t[1] /\ Len(t) \in Nat \ {0}
      /\ \A i \in 1..Len(Tail(t)) : Tail(t)[i] = t[i + 1]
  BY HeadTailProperties, LenProperties, EmptySeq
<1>2. PICK a \in Seq(Nat) : a = <<Head(t)>> /\ Len(a) = 1 /\ a[1] = t[1]
  <2>1. \A x \in Nat : <<x>> \in Seq(Nat) /\ Len(<<x>>) = 1 /\ <<x>>[1] = x
    OBVIOUS
  <2>2. QED
    BY <1>1, <2>1
<1>3. PICK b \in Seq(Nat), k \in Nat \ {0} :
        /\ b = Tail(t) /\ k = Len(t) /\ Len(b) = k - 1
        /\ \A i \in 1..(k - 1) : b[i] = t[i + 1]
  BY <1>1
<1>4. PICK u \in Seq(Nat) :
        /\ u = a \o b /\ Len(u) = k
        /\ \A i \in 1..k : u[i] = IF i <= 1 THEN a[i] ELSE b[i - 1]
  <2>1. /\ a \o b \in Seq(Nat) /\ Len(a \o b) = 1 + (k - 1)
        /\ \A i \in 1..(1 + (k - 1)) : (a \o b)[i] = IF i <= 1 THEN a[i] ELSE b[i - 1]
    BY <1>2, <1>3, ConcatProperties
  <2>2. 1 + (k - 1) = k
    OBVIOUS
  <2>3. QED
    BY <2>1, <2>2
<1>5. ASSUME NEW i \in 1..k PROVE u[i] = t[i]
  <2>1. CASE i = 1
    BY <1>2, <1>4, <2>1
  <2>2. CASE i # 1
    <3>1. i - 1 \in 1..(k - 1) /\ (i - 1) + 1 = i /\ ~(i <= 1)
      BY <2>2
    <3>2. b[i - 1] = t[i]
      BY <1>3, <3>1
    <3>3. QED
      BY <1>4, <3>1, <3>2
  <2>3. QED
    BY <2>1, <2>2
<1>6. u = t
  BY <1>3, <1>4, <1>5, SeqEqual
<1>7. (s \o a) \o b = s \o (a \o b)
  BY Regrouped
<1>8. Append(s, Head(t)) = s \o a
  BY <1>1, <1>2, AppendIsConcat
<1>9. QED
  BY <1>3, <1>4, <1>6, <1>7, <1>8

LEMMA JoinsEnd ==
  ASSUME NEW s \in Seq(Nat), NEW t \in Seq(Nat), NEW x \in Nat
  PROVE  s \o Append(t, x) = Append(s \o t, x)
<1>1. <<x>> \in Seq(Nat) /\ s \o t \in Seq(Nat)
  BY ConcatProperties
<1>2. Append(t, x) = t \o <<x>> /\ Append(s \o t, x) = (s \o t) \o <<x>>
  BY <1>1, AppendIsConcat
<1>3. (s \o t) \o <<x>> = s \o (t \o <<x>>)
  BY <1>1, ConcatAssociative
<1>4. QED
  BY <1>2, <1>3
==============================================================================
