---------------------------- MODULE ConsoleProofs ----------------------------
(***************************************************************************)
(* No character is lost, read twice or moved by more than its burst on its *)
(* way to the reader, proved for rings and bursts of any size, as long as  *)
(* the rings hold what is typed ahead of the reader (RingsHold).           *)
(*                                                                         *)
(* Two of the four queues are rings.  Contents(r) is what a ring holds, as *)
(* a sequence, and Path the sequence of all characters on their way, those *)
(* read first.  Most steps leave Path as it is, and only the interrupt of  *)
(* a burst permutes it: so the properties are those of one sequence.       *)
(***************************************************************************)
EXTENDS ConsoleInput, QueueLemmas

\* The rings hold all characters that may be typed ahead of the reader: the code
\* does not check, and a ring that is written beyond its size loses some.
RingsHold == MaxUnread <= EventSlots /\ MaxUnread <= QUEUELENGTH

\* A ring of n slots, and what it holds, the oldest first.
RingOK(r, n) ==
  /\ r \in [q : [0..(n - 1) -> Nat], head : 0..(n - 1), tail : 0..(n - 1), len : 0..n]
  /\ r.tail = (r.head + r.len) % n
Contents(r) == [k \in 1..r.len |-> r.q[(r.head + k - 1) % Cardinality(DOMAIN r.q)]]

Holds == IF notifier.at \in {"holds", "sends"} THEN <<notifier.ch>> ELSE <<>>

\* What was read or is still to be read, and the part of it that has left the UART.
Drained == got \o Contents(interrupts) \o Holds \o Contents(event_q)
Path == Drained \o rx_fifo

ConsoleTypeOK ==
  /\ typed \in 0..MaxChars
  /\ rx_fifo \in Seq(Nat) /\ got \in Seq(Nat) /\ Len(rx_fifo) <= RxFifo
  /\ RingOK(event_q, EventSlots) /\ RingOK(interrupts, QUEUELENGTH)
  /\ notifier \in [at : {"calls", "awaits", "holds", "sends"}, ch : Nat]
  /\ registered \in BOOLEAN
  /\ inbox \in Seq({"RXIC", "getc", "poll"})
  /\ dropped \in SUBSET Nat
  /\ burst \in [Chars -> SUBSET Nat]

\* The server has the notifier's message while the notifier waits for its answer.
NotifierInv ==
  /\ notifier.at \in {"calls", "awaits"} => notifier.ch = NoChar
  /\ notifier.at = "awaits" => event_q.len = 0
  /\ \A i, j \in DOMAIN inbox : inbox[i] = "RXIC" => notifier.at = "sends" /\ (inbox[j] = "RXIC" => i = j)
  /\ ~registered => inbox = <<>> /\ got = <<>> /\ interrupts.len = 0 /\ notifier.at # "sends"

\* Nothing is on the path twice, and all that was typed is there or was dropped.
PathInv ==
  /\ Distinct(Path)
  /\ Range(Path) \cap dropped = {}
  /\ Range(Path) \cup dropped = 1..typed
  /\ Len(Path) + Cardinality(dropped) = typed
  /\ Len(Path) - Len(got) <= MaxUnread

\* What has not been drained is in order, and a drained character is ahead of an
\* older one only if that was the first of an interrupt that drained both.
InOrder(p, m, b) ==
  \A i, j \in DOMAIN p :
    i < j /\ p[i] > p[j] => j <= m /\ p[i] \in b[p[j]] /\ \A c \in b[p[j]] : p[j] <= c
OrderInv == InOrder(Path, Len(Drained), burst)

ConsoleInv == ConsoleTypeOK /\ NotifierInv /\ PathInv /\ OrderInv

-----------------------------------------------------------------------------
(* Rings. *)

LEMMA Wraps ==
  ASSUME NEW n \in Nat \ {0}
  PROVE  /\ \A a \in 0..(n - 1) : a % n = a /\ (a + n) % n = a /\ (a - n) % n = a
         /\ \A a \in Int : a % n \in 0..(n - 1)
OBVIOUS

\* The place that is k slots after h; and how far i is behind h.
LEMMA GoesRound ==
  ASSUME NEW n \in Nat \ {0}, NEW h \in 0..(n - 1)
  PROVE  /\ \A k \in 0..n : (h + k) % n = IF h + k < n THEN h + k ELSE (h + k) - n
         /\ \A i \in 0..(n - 1) : (i - h) % n = IF h <= i THEN i - h ELSE (i - h) + n
<1>1. ASSUME NEW k \in 0..n PROVE (h + k) % n = IF h + k < n THEN h + k ELSE (h + k) - n
  <2>1. CASE h + k < n
    <3>1. h + k \in 0..(n - 1)
      BY <2>1
    <3>2. QED
      BY <3>1, <2>1, Wraps
  <2>2. CASE ~(h + k < n)
    <3> DEFINE a == (h + k) - n
    <3>1. a \in 0..(n - 1) /\ a + n = h + k
      BY <2>2
    <3>2. (a + n) % n = a
      BY <3>1, Wraps
    <3>3. QED
      BY <3>1, <3>2, <2>2
  <2>3. QED
    BY <2>1, <2>2
<1>2. ASSUME NEW i \in 0..(n - 1)
      PROVE  (i - h) % n = IF h <= i THEN i - h ELSE (i - h) + n
  <2>1. CASE h <= i
    <3>1. i - h \in 0..(n - 1)
      BY <2>1
    <3>2. QED
      BY <3>1, <2>1, Wraps
  <2>2. CASE ~(h <= i)
    <3> DEFINE a == (i - h) + n
    <3>1. a \in 0..(n - 1) /\ a - n = i - h
      BY <2>2
    <3>2. (a - n) % n = a
      BY <3>1, Wraps
    <3>3. QED
      BY <3>1, <3>2, <2>2
  <2>3. QED
    BY <2>1, <2>2
<1>3. QED
  BY <1>1, <1>2

\* Slot(h, k, n) is the kth of a ring of n slots whose head is h.
Slot(h, k, n) == IF h + (k - 1) < n THEN h + (k - 1) ELSE (h + (k - 1)) - n

LEMMA SlotFacts ==
  ASSUME NEW n \in Nat \ {0}, NEW h \in 0..(n - 1), NEW k \in 1..n
  PROVE  Slot(h, k, n) \in 0..(n - 1)
BY DEF Slot

\* How far the slots of a ring are behind its tail t; l of them are in use.
LEMMA BehindTail ==
  ASSUME NEW n \in Nat \ {0}, NEW h \in 0..(n - 1), NEW l \in 0..n, NEW t \in 0..(n - 1),
         t = Slot(h, l + 1, n)
  PROVE  /\ \A i \in 0..(n - 1) : ((i - t) % n) + 1 \in 1..n
         /\ \A k \in 1..n : ((Slot(h, k, n) - t) % n) + 1 = IF k <= l THEN (k - l) + n ELSE k - l
<1>0. t = IF h + l < n THEN h + l ELSE (h + l) - n
  BY DEF Slot
<1>1. ASSUME NEW i \in 0..(n - 1) PROVE ((i - t) % n) + 1 \in 1..n
  <2>1. i - t \in Int
    OBVIOUS
  <2>2. (i - t) % n \in 0..(n - 1)
    BY <2>1, Wraps
  <2>3. QED
    BY <2>2
<1>2. ASSUME NEW k \in 1..n
      PROVE  ((Slot(h, k, n) - t) % n) + 1 = IF k <= l THEN (k - l) + n ELSE k - l
  <2>1. PICK a \in 0..(n - 1) : a = Slot(h, k, n)
    BY SlotFacts
  <2>2. PICK d : d = (a - t) % n
    OBVIOUS
  <2>3. d = IF t <= a THEN a - t ELSE (a - t) + n
    BY <2>2, GoesRound
  <2>4. a = IF h + (k - 1) < n THEN h + (k - 1) ELSE (h + (k - 1)) - n
    BY <2>1 DEF Slot
  <2>5. d + 1 = IF k <= l THEN (k - l) + n ELSE k - l
    <3>1. CASE k <= l
      BY <1>0, <2>3, <2>4, <3>1
    <3>2. CASE ~(k <= l)
      BY <1>0, <2>3, <2>4, <3>2
    <3>3. QED
      BY <3>1, <3>2
  <2>6. QED
    BY <2>1, <2>2, <2>5
<1>3. QED
  BY <1>1, <1>2

\* Where the tail is after m more.
LEMMA TailMoves ==
  ASSUME NEW n \in Nat \ {0}, NEW h \in 0..(n - 1), NEW l \in 0..n, NEW t \in 0..(n - 1),
         t = Slot(h, l + 1, n), NEW m \in 0..n, l + m <= n
  PROVE  (t + m) % n \in 0..(n - 1) /\ (t + m) % n = (h + (l + m)) % n
<1>1. l + m \in 0..n
  OBVIOUS
<1>2. (t + m) % n = IF t + m < n THEN t + m ELSE (t + m) - n
  BY GoesRound
<1>3. (h + (l + m)) % n = IF h + (l + m) < n THEN h + (l + m) ELSE (h + (l + m)) - n
  BY <1>1, GoesRound
<1>4. t = IF h + l < n THEN h + l ELSE (h + l) - n
  BY DEF Slot
<1>5. QED
  BY <1>2, <1>3, <1>4

LEMMA RingFacts ==
  ASSUME NEW n \in Nat \ {0}, NEW r, RingOK(r, n)
  PROVE  /\ DOMAIN r.q = 0..(n - 1) /\ Cardinality(DOMAIN r.q) = n
         /\ r.head \in 0..(n - 1) /\ r.tail \in 0..(n - 1) /\ r.len \in 0..n
         /\ r.tail = IF r.head + r.len < n THEN r.head + r.len ELSE (r.head + r.len) - n
         /\ \A i \in 0..(n - 1) : r.q[i] \in Nat
<1>1. /\ r.q \in [0..(n - 1) -> Nat]
      /\ r.head \in 0..(n - 1) /\ r.tail \in 0..(n - 1) /\ r.len \in 0..n
      /\ r.tail = (r.head + r.len) % n
  BY DEF RingOK
<1>2. DOMAIN r.q = 0..(n - 1) /\ \A i \in 0..(n - 1) : r.q[i] \in Nat
  BY <1>1
<1>3. Cardinality(0..(n - 1)) = n
  BY FS_Interval
<1>4. r.tail = IF r.head + r.len < n THEN r.head + r.len ELSE (r.head + r.len) - n
  BY <1>1, GoesRound
<1>5. QED
  BY <1>1, <1>2, <1>3, <1>4

\* What a ring holds, the kth in the slot k - 1 behind the head.
LEMMA ContentsFacts ==
  ASSUME NEW n \in Nat \ {0}, NEW r, RingOK(r, n)
  PROVE  /\ Contents(r) \in Seq(Nat) /\ Len(Contents(r)) = r.len
         /\ DOMAIN Contents(r) = 1..r.len
         /\ \A k \in 1..r.len : Contents(r)[k] = r.q[Slot(r.head, k, n)]
<1>1. ASSUME NEW k \in 1..r.len
      PROVE  Slot(r.head, k, n) \in 0..(n - 1) /\ (r.head + k - 1) % n = Slot(r.head, k, n)
  <2>1. k - 1 \in 0..n /\ k \in 1..n /\ r.head \in 0..(n - 1) /\ r.head + k - 1 = r.head + (k - 1)
    BY RingFacts
  <2>2. (r.head + (k - 1)) % n = Slot(r.head, k, n)
    BY <2>1, GoesRound DEF Slot
  <2>3. QED
    BY <2>1, <2>2, SlotFacts
<1>2. Contents(r) = [k \in 1..r.len |-> r.q[Slot(r.head, k, n)]]
  BY <1>1, RingFacts DEF Contents
<1>3. r.len \in Nat /\ \A k \in 1..r.len : r.q[Slot(r.head, k, n)] \in Nat
  BY <1>1, RingFacts
<1>4. Contents(r) \in Seq(Nat) /\ Len(Contents(r)) = r.len
  BY <1>2, <1>3, IsASeq, LenProperties
<1>5. DOMAIN Contents(r) = 1..r.len /\ \A k \in 1..r.len : Contents(r)[k] = r.q[Slot(r.head, k, n)]
  BY <1>2
<1>6. QED
  BY <1>4, <1>5

\* A new ring holds nothing.
LEMMA EmptyRingFacts ==
  ASSUME NEW n \in Nat \ {0}
  PROVE  RingOK(EmptyRing(n), n) /\ Contents(EmptyRing(n)) = <<>>
<1> DEFINE r == EmptyRing(n)
<1>1. /\ r = [q |-> [i \in 0..(n - 1) |-> 0], head |-> 0, tail |-> 0, len |-> 0]
      /\ r.head = 0 /\ r.tail = 0 /\ r.len = 0
  BY DEF EmptyRing, NoChar
<1>2. 0 \in 0..(n - 1) /\ 0 % n = 0 /\ 0 + 0 = 0
  BY Wraps
<1>3. r \in [q : [0..(n - 1) -> Nat], head : 0..(n - 1), tail : 0..(n - 1), len : 0..n]
  BY <1>1, <1>2
<1>4. RingOK(r, n)
  BY <1>1, <1>2, <1>3 DEF RingOK
<1>5. Contents(r) \in Seq(Nat) /\ Len(Contents(r)) = 0
  BY <1>1, <1>4, ContentsFacts
<1>6. QED
  BY <1>4, <1>5, EmptySeq

\* Writing to a ring with room for it: all slots in use keep what they hold.
LEMMA PutAllJoins ==
  ASSUME NEW n \in Nat \ {0}, NEW r, RingOK(r, n), NEW cs \in Seq(Nat), r.len + Len(cs) <= n
  PROVE  RingOK(PutAll(r, cs), n) /\ Contents(PutAll(r, cs)) = Contents(r) \o cs
<1> DEFINE p == PutAll(r, cs)
<1>1. /\ DOMAIN r.q = 0..(n - 1) /\ Cardinality(DOMAIN r.q) = n
      /\ r.head \in 0..(n - 1) /\ r.tail \in 0..(n - 1) /\ r.len \in 0..n
      /\ r.tail = IF r.head + r.len < n THEN r.head + r.len ELSE (r.head + r.len) - n
      /\ \A i \in 0..(n - 1) : r.q[i] \in Nat
  BY RingFacts
<1>2. PICK m \in 0..n : m = Len(cs)
  BY <1>1, LenProperties
<1>3. PICK l \in 0..n : l = r.len
  BY <1>1
<1>4. /\ m \in 0..n /\ l + m \in 0..n /\ l + m <= n
      /\ \A k \in 1..m : cs[k] \in Nat
  <2>1. l + m <= n
    BY <1>2, <1>3
  <2>2. l + m \in 0..n
    BY <2>1
  <2>3. \A k \in 1..m : cs[k] \in Nat
    BY <1>2, ElementOfSeq
  <2>4. QED
    BY <2>1, <2>2, <2>3
<1>5. PICK nth : nth = [i \in 0..(n - 1) |-> ((i - r.tail) % n) + 1]
  OBVIOUS
<1>6. /\ \A i \in 0..(n - 1) : nth[i] \in 1..n /\ nth[i] = ((i - r.tail) % n) + 1
      /\ \A k \in 1..n : nth[Slot(r.head, k, n)] = IF k <= l THEN (k - l) + n ELSE k - l
      /\ (r.tail + m) % n \in 0..(n - 1) /\ (r.tail + m) % n = (r.head + (l + m)) % n
  <2>1. /\ \A i \in 0..(n - 1) : ((i - r.tail) % n) + 1 \in 1..n
        /\ \A k \in 1..n : ((Slot(r.head, k, n) - r.tail) % n) + 1
                             = IF k <= l THEN (k - l) + n ELSE k - l
        /\ (r.tail + m) % n \in 0..(n - 1) /\ (r.tail + m) % n = (r.head + (l + m)) % n
    <3>1. PICK h \in 0..(n - 1), t \in 0..(n - 1) : h = r.head /\ t = r.tail
      BY <1>1
    <3>2. t = Slot(h, l + 1, n)
      BY <1>1, <1>3, <3>1 DEF Slot
    <3>3. /\ \A i \in 0..(n - 1) : ((i - t) % n) + 1 \in 1..n
          /\ \A k \in 1..n : ((Slot(h, k, n) - t) % n) + 1
                               = IF k <= l THEN (k - l) + n ELSE k - l
      <4>1. \A i \in 0..(n - 1) : ((i - t) % n) + 1 \in 1..n
        BY <3>2, BehindTail, Zenon
      <4>2. \A k \in 1..n : ((Slot(h, k, n) - t) % n) + 1
                               = IF k <= l THEN (k - l) + n ELSE k - l
        BY <3>2, BehindTail
      <4>3. QED
        BY <4>1, <4>2, Zenon
    <3>5. (t + m) % n \in 0..(n - 1) /\ (t + m) % n = (h + (l + m)) % n
      <4>1. m \in 0..n /\ l + m <= n
        BY <1>4
      <4>2. QED
        BY <4>1, <3>2, TailMoves
    <3>4. QED
      BY <3>1, <3>3, <3>5, Zenon
  <2>2. \A k \in 1..n : Slot(r.head, k, n) \in 0..(n - 1)
    BY <1>1, SlotFacts
  <2>3. QED
    BY <1>5, <2>1, <2>2
<1>7. PICK q : q = [i \in 0..(n - 1) |-> IF nth[i] <= m THEN cs[nth[i]] ELSE r.q[i]]
  OBVIOUS
<1>8. p = [q |-> q, head |-> r.head, tail |-> (r.tail + m) % n, len |-> l + m]
  BY <1>1, <1>2, <1>3, <1>6, <1>7 DEF PutAll
<1>9. q \in [0..(n - 1) -> Nat]
  <2>1. ASSUME NEW i \in 0..(n - 1) PROVE (IF nth[i] <= m THEN cs[nth[i]] ELSE r.q[i]) \in Nat
    <3>1. nth[i] \in 1..n
      BY <1>6
    <3>2. nth[i] <= m => nth[i] \in 1..m
      BY <1>4, <3>1
    <3>3. QED
      BY <1>1, <1>4, <3>2
  <2>2. QED
    BY <1>7, <2>1
<1>10. /\ p.q = q /\ p.head = r.head /\ p.len = l + m
       /\ p \in [q : [0..(n - 1) -> Nat], head : 0..(n - 1), tail : 0..(n - 1), len : 0..n]
       /\ p.tail = (p.head + p.len) % n
  <2>1. p.q = q /\ p.head = r.head /\ p.len = l + m /\ p.tail = (r.tail + m) % n
    BY <1>8
  <2>2. p \in [q : [0..(n - 1) -> Nat], head : 0..(n - 1), tail : 0..(n - 1), len : 0..n]
    <3>1. PICK t \in 0..(n - 1) : t = (r.tail + m) % n
      BY <1>6
    <3>2. p = [q |-> q, head |-> r.head, tail |-> t, len |-> l + m]
      BY <1>8, <3>1
    <3> HIDE DEF p
    <3>3. QED
      BY <1>1, <1>4, <1>9, <3>2
  <2> HIDE DEF p
  <2>3. p.tail = (p.head + p.len) % n
    BY <1>6, <2>1
  <2>4. QED
    BY <2>1, <2>2, <2>3
<1>11. RingOK(p, n)
  BY <1>10 DEF RingOK
<1> HIDE DEF p
<1> DEFINE S == Contents(r) \o cs
<1>12. /\ Contents(r) \in Seq(Nat) /\ Len(Contents(r)) = l
       /\ \A k \in 1..l : Contents(r)[k] = r.q[Slot(r.head, k, n)]
  BY <1>3, ContentsFacts
<1>13. /\ Contents(p) \in Seq(Nat) /\ Len(Contents(p)) = l + m
       /\ \A k \in 1..(l + m) : Contents(p)[k] = q[Slot(r.head, k, n)]
  <2>1. /\ Contents(p) \in Seq(Nat) /\ Len(Contents(p)) = p.len
        /\ \A k \in 1..p.len : Contents(p)[k] = p.q[Slot(p.head, k, n)]
    BY <1>11, ContentsFacts
  <2>2. QED
    BY <1>10, <2>1
<1>14. /\ S \in Seq(Nat) /\ Len(S) = l + m
       /\ \A k \in 1..(l + m) : S[k] = IF k <= l THEN Contents(r)[k] ELSE cs[k - l]
  BY <1>2, <1>12, ConcatProperties
<1>15. ASSUME NEW k \in 1..(l + m) PROVE Contents(p)[k] = S[k]
  <2>1. k \in 1..n
    BY <1>4
  <2>2. PICK i \in 0..(n - 1) : i = Slot(r.head, k, n)
    BY <1>1, <2>1, SlotFacts
  <2>3. /\ Contents(p)[k] = IF nth[i] <= m THEN cs[nth[i]] ELSE r.q[i]
        /\ nth[i] = IF k <= l THEN (k - l) + n ELSE k - l
    BY <1>6, <1>7, <1>13, <2>1, <2>2
  <2>4. CASE k <= l
    <3>1. nth[i] = (k - l) + n
      BY <2>3, <2>4
    <3>2. ~((k - l) + n <= m) /\ k \in 1..l
      BY <1>4, <2>4
    <3>3. QED
      BY <2>2, <2>3, <2>4, <3>1, <3>2, <1>12, <1>14
  <2>5. CASE ~(k <= l)
    <3>1. nth[i] = k - l
      BY <2>3, <2>5
    <3>2. k - l <= m
      BY <1>4
    <3>3. QED
      BY <2>3, <2>5, <3>1, <3>2, <1>14
  <2>6. QED
    BY <2>4, <2>5
<1>16. Contents(p) = S
  BY <1>13, <1>14, <1>15, SeqEqual
<1>17. QED
  BY <1>11, <1>16 DEF p

LEMMA PutJoins ==
  ASSUME NEW n \in Nat \ {0}, NEW r, RingOK(r, n), NEW c \in Nat, r.len < n
  PROVE  RingOK(Put(r, c), n) /\ Contents(Put(r, c)) = Contents(r) \o <<c>>
<1>1. /\ DOMAIN r.q = 0..(n - 1) /\ Cardinality(DOMAIN r.q) = n
      /\ r.head \in 0..(n - 1) /\ r.tail \in 0..(n - 1) /\ r.len \in 0..n
  BY RingFacts
<1>2. <<c>> \in Seq(Nat) /\ Len(<<c>>) = 1 /\ <<c>>[1] = c
  OBVIOUS
<1>3. [r.q EXCEPT ![r.tail] = c] =
        [i \in 0..(n - 1) |-> IF ((i - r.tail) % n) + 1 <= 1
                              THEN <<c>>[((i - r.tail) % n) + 1] ELSE r.q[i]]
  <2>1. [r.q EXCEPT ![r.tail] = c] = [i \in 0..(n - 1) |-> IF i = r.tail THEN c ELSE r.q[i]]
    BY <1>1
  <2>2. ASSUME NEW i \in 0..(n - 1)
        PROVE  /\ i = r.tail => ((i - r.tail) % n) + 1 = 1
               /\ i # r.tail => ~(((i - r.tail) % n) + 1 <= 1)
    <3>1. PICK t \in 0..(n - 1) : t = r.tail
      BY <1>1
    <3>2. PICK d : d = (i - t) % n
      OBVIOUS
    <3>3. d = IF t <= i THEN i - t ELSE (i - t) + n
      BY <3>2, GoesRound
    <3>4. (i = t => d + 1 = 1) /\ (i # t => ~(d + 1 <= 1))
      BY <3>3
    <3>5. QED
      BY <3>1, <3>2, <3>4
  <2>3. ASSUME NEW i \in 0..(n - 1)
        PROVE  (IF i = r.tail THEN c ELSE r.q[i])
                 = IF ((i - r.tail) % n) + 1 <= 1 THEN <<c>>[((i - r.tail) % n) + 1] ELSE r.q[i]
    <3>1. CASE i = r.tail
      <4>1. ((i - r.tail) % n) + 1 = 1
        BY <2>2, <3>1
      <4>2. QED
        BY <3>1, <4>1, <1>2
    <3>2. CASE i # r.tail
      BY <2>2, <3>2
    <3>3. QED
      BY <3>1, <3>2
  <2>4. QED
    BY <2>1, <2>3, Zenon
<1>4. Put(r, c) = PutAll(r, <<c>>)
  BY <1>1, <1>2, <1>3 DEF Put, PutAll
<1>5. r.len + Len(<<c>>) <= n
  BY <1>1, <1>2
<1>6. QED
  BY <1>2, <1>4, <1>5, PutAllJoins

\* Taking the oldest from a ring that holds something.
LEMMA TakeLeaves ==
  ASSUME NEW n \in Nat \ {0}, NEW r, RingOK(r, n), r.len > 0
  PROVE  /\ RingOK(Take(r), n) /\ First(r) \in Nat
         /\ Contents(r) = <<First(r)>> \o Contents(Take(r))
         /\ Take(r).len = r.len - 1
<1> DEFINE p == Take(r)
<1>1. /\ DOMAIN r.q = 0..(n - 1) /\ Cardinality(DOMAIN r.q) = n
      /\ r.head \in 0..(n - 1) /\ r.tail \in 0..(n - 1) /\ r.len \in 0..n
      /\ r.tail = IF r.head + r.len < n THEN r.head + r.len ELSE (r.head + r.len) - n
      /\ \A i \in 0..(n - 1) : r.q[i] \in Nat
  BY RingFacts
<1>2. r \in [q : [0..(n - 1) -> Nat], head : 0..(n - 1), tail : 0..(n - 1), len : 0..n]
  BY DEF RingOK
<1>3. /\ p = [r EXCEPT !.head = (@ + 1) % n, !.len = @ - 1]
      /\ p.q = r.q /\ p.head = (r.head + 1) % n /\ p.tail = r.tail /\ p.len = r.len - 1
  BY <1>1, <1>2 DEF Take
<1>4. (r.head + 1) % n = IF r.head + 1 < n THEN r.head + 1 ELSE (r.head + 1) - n
  <2>1. PICK h \in 0..(n - 1) : h = r.head
    BY <1>1
  <2>2. 1 \in 0..n
    OBVIOUS
  <2>3. (h + 1) % n = IF h + 1 < n THEN h + 1 ELSE (h + 1) - n
    BY <2>2, GoesRound
  <2>4. QED
    BY <2>1, <2>3
<1>5. p.head \in 0..(n - 1) /\ r.len - 1 \in 0..n
  <2>1. r.len - 1 \in 0..n
    BY <1>1
  <2>2. PICK h \in 0..(n - 1) : h = r.head
    BY <1>1
  <2>3. (IF h + 1 < n THEN h + 1 ELSE (h + 1) - n) \in 0..(n - 1)
    OBVIOUS
  <2>4. QED
    BY <1>3, <1>4, <2>1, <2>2, <2>3
<1> HIDE DEF p
<1>6. PICK h \in 0..(n - 1), g \in 0..(n - 1), t \in 0..(n - 1), l \in 1..n :
        h = r.head /\ g = p.head /\ t = r.tail /\ l = r.len
  BY <1>1, <1>5
<1>7. p.tail = (p.head + p.len) % n
  <2>1. g = IF h + 1 < n THEN h + 1 ELSE (h + 1) - n
    BY <1>3, <1>4, <1>6
  <2>2. t = IF h + l < n THEN h + l ELSE (h + l) - n
    BY <1>1, <1>6
  <2>3. PICK k \in 0..n : k = l - 1
    OBVIOUS
  <2>4. (g + k) % n = IF g + k < n THEN g + k ELSE (g + k) - n
    BY GoesRound
  <2>5. t = (g + k) % n
    BY <2>1, <2>2, <2>3, <2>4
  <2>6. QED
    BY <1>3, <1>6, <2>3, <2>5
<1>8. RingOK(p, n)
  <2>1. p \in [q : [0..(n - 1) -> Nat], head : 0..(n - 1), tail : 0..(n - 1), len : 0..n]
    BY <1>2, <1>3, <1>5
  <2>2. QED
    BY <2>1, <1>7 DEF RingOK
<1> DEFINE S == <<First(r)>> \o Contents(p)
<1> HIDE DEF p
<1>9. /\ Contents(r) \in Seq(Nat) /\ Len(Contents(r)) = r.len
      /\ \A k \in 1..r.len : Contents(r)[k] = r.q[Slot(r.head, k, n)]
  BY ContentsFacts
<1>10. /\ Contents(p) \in Seq(Nat) /\ Len(Contents(p)) = r.len - 1
       /\ \A k \in 1..(r.len - 1) : Contents(p)[k] = r.q[Slot(p.head, k, n)]
  <2>1. /\ Contents(p) \in Seq(Nat) /\ Len(Contents(p)) = p.len
        /\ \A k \in 1..p.len : Contents(p)[k] = p.q[Slot(p.head, k, n)]
    BY <1>8, ContentsFacts
  <2>2. p.len = r.len - 1 /\ p.q = r.q
    BY <1>3
  <2>3. QED
    BY <2>1, <2>2
<1>11. First(r) \in Nat /\ First(r) = r.q[Slot(r.head, 1, n)]
  BY <1>1 DEF First, Slot
<1>12. /\ <<First(r)>> \in Seq(Nat) /\ Len(<<First(r)>>) = 1 /\ <<First(r)>>[1] = First(r)
  BY <1>11
<1>13. /\ S \in Seq(Nat) /\ Len(S) = r.len
       /\ \A k \in 1..r.len : S[k] = IF k <= 1 THEN First(r) ELSE Contents(p)[k - 1]
  <2>1. 1 + (r.len - 1) = r.len
    BY <1>1
  <2>2. /\ S \in Seq(Nat) /\ Len(S) = r.len
        /\ \A k \in 1..r.len : S[k] = IF k <= 1 THEN <<First(r)>>[k] ELSE Contents(p)[k - 1]
    BY <1>10, <1>12, <2>1, ConcatProperties
  <2>3. \A k \in 1..r.len : k <= 1 => k = 1
    OBVIOUS
  <2>4. QED
    BY <2>2, <2>3, <1>12
<1>14. ASSUME NEW k \in 1..r.len PROVE Contents(r)[k] = S[k]
  <2>1. CASE k = 1
    BY <1>9, <1>11, <1>13, <2>1
  <2>2. CASE k # 1
    <3>1. k - 1 \in 1..(r.len - 1) /\ ~(k <= 1)
      BY <1>1, <2>2
    <3>2. Slot(p.head, k - 1, n) = Slot(r.head, k, n)
      <4>1. PICK x \in 0..(n - 1), y \in 0..(n - 1) : x = r.head /\ y = p.head
        BY <1>1, <1>5
      <4>2. y = IF x + 1 < n THEN x + 1 ELSE (x + 1) - n
        BY <1>3, <1>4, <4>1
      <4>3. k \in 2..n
        BY <1>1, <2>2
      <4>4. Slot(y, k - 1, n) = Slot(x, k, n)
        BY <4>2, <4>3 DEF Slot
      <4>5. QED
        BY <4>1, <4>4
    <3>3. QED
      BY <1>9, <1>10, <1>13, <3>1, <3>2
  <2>3. QED
    BY <2>1, <2>2
<1>15. Contents(r) = S
  BY <1>9, <1>13, <1>14, SeqEqual
<1>16. QED
  BY <1>3, <1>8, <1>11, <1>15 DEF p

\* A character in a ring is in one slot of it, that of its place.
LEMMA RingPlaces ==
  ASSUME NEW n \in Nat \ {0}, NEW r, RingOK(r, n), NEW c
  PROVE  LET found == {j \in Positions(r) : r.q[j] = c}
         IN  /\ c \notin Range(Contents(r)) => found = {}
             /\ \A k \in 1..r.len : Distinct(Contents(r)) /\ Contents(r)[k] = c =>
                  found = {Slot(r.head, k, n)}
<1>1. /\ DOMAIN r.q = 0..(n - 1) /\ Cardinality(DOMAIN r.q) = n
      /\ r.head \in 0..(n - 1) /\ r.len \in 0..n
  BY RingFacts
<1>2. PICK h \in 0..(n - 1), l \in 0..n : h = r.head /\ l = r.len
  BY <1>1
<1>3. Positions(r) = {j \in 0..(n - 1) : (j - h) % n < l}
  BY <1>1, <1>2 DEF Positions
<1>4. ASSUME NEW j \in 0..(n - 1), (j - h) % n < l
      PROVE  \E k \in 1..l : j = Slot(h, k, n)
  <2>1. PICK d : d = (j - h) % n
    OBVIOUS
  <2>2. d = IF h <= j THEN j - h ELSE (j - h) + n
    BY <2>1, GoesRound
  <2>3. d + 1 \in 1..l
    BY <1>4, <2>1, <2>2
  <2>4. Slot(h, d + 1, n) = j
    BY <2>2 DEF Slot
  <2>5. QED
    BY <2>3, <2>4
<1>5. ASSUME NEW k \in 1..l
      PROVE  Slot(h, k, n) \in 0..(n - 1) /\ (Slot(h, k, n) - h) % n < l
  <2>1. k \in 1..n
    OBVIOUS
  <2>2. PICK j \in 0..(n - 1) : j = Slot(h, k, n)
    BY <2>1, SlotFacts
  <2>3. PICK d : d = (j - h) % n
    OBVIOUS
  <2>4. d = IF h <= j THEN j - h ELSE (j - h) + n
    BY <2>3, GoesRound
  <2>5. d < l
    BY <2>2, <2>4 DEF Slot
  <2>6. QED
    BY <2>2, <2>3, <2>5
<1>6. DOMAIN Contents(r) = 1..l /\ \A k \in 1..l : Contents(r)[k] = r.q[Slot(h, k, n)]
  BY <1>2, ContentsFacts
<1>7. \A j \in Positions(r) : \E k \in 1..l : j = Slot(h, k, n) /\ Contents(r)[k] = r.q[j]
  BY <1>3, <1>4, <1>6
<1>8. \A k \in 1..l : Slot(h, k, n) \in Positions(r)
  BY <1>3, <1>5
<1>9. c \notin Range(Contents(r)) => {j \in Positions(r) : r.q[j] = c} = {}
  BY <1>6, <1>7 DEF Range
<1>10. ASSUME NEW k \in 1..l, Distinct(Contents(r)), Contents(r)[k] = c
       PROVE  {j \in Positions(r) : r.q[j] = c} = {Slot(h, k, n)}
  <2>1. ASSUME NEW j \in Positions(r), r.q[j] = c PROVE j = Slot(h, k, n)
    <3>1. PICK x \in 1..l : j = Slot(h, x, n) /\ Contents(r)[x] = r.q[j]
      BY <1>7
    <3>2. x = k
      BY <1>6, <1>10, <2>1, <3>1 DEF Distinct
    <3>3. QED
      BY <3>1, <3>2
  <2>2. Slot(h, k, n) \in Positions(r) /\ r.q[Slot(h, k, n)] = c
    BY <1>6, <1>8, <1>10
  <2>3. QED
    BY <2>1, <2>2
<1>11. QED
  BY <1>2, <1>9, <1>10

-----------------------------------------------------------------------------
(* Sequences. *)

LEMMA Joined ==
  ASSUME NEW s \in Seq(Nat), NEW t \in Seq(Nat)
  PROVE  LET u == s \o t
         IN  /\ u \in Seq(Nat) /\ Len(u) = Len(s) + Len(t) /\ Len(s) \in Nat /\ Len(t) \in Nat
             /\ DOMAIN u = 1..(Len(s) + Len(t)) /\ DOMAIN s = 1..Len(s) /\ DOMAIN t = 1..Len(t)
             /\ \A i \in 1..Len(s) : u[i] = s[i] /\ u[i] \in Nat
             /\ \A i \in 1..Len(t) : u[Len(s) + i] = t[i] /\ u[Len(s) + i] \in Nat
             /\ \A i \in 1..(Len(s) + Len(t)) : i \in 1..Len(s) \/ \E k \in 1..Len(t) : i = Len(s) + k
             /\ Range(u) = Range(s) \cup Range(t)
             /\ Distinct(u) => Distinct(s) /\ Distinct(t) /\ Range(s) \cap Range(t) = {}
<1> DEFINE u == s \o t
<1>1. PICK m \in Nat, n \in Nat : m = Len(s) /\ n = Len(t)
  BY LenProperties
<1>2. /\ u \in Seq(Nat) /\ Len(u) = m + n
      /\ \A i \in 1..(m + n) : u[i] = IF i <= m THEN s[i] ELSE t[i - m]
  BY <1>1, ConcatProperties
<1>3. DOMAIN u = 1..(m + n) /\ DOMAIN s = 1..m /\ DOMAIN t = 1..n
  BY <1>1, <1>2, LenProperties
<1>4. \A i \in 1..(m + n) : u[i] \in Nat
  BY <1>2, ElementOfSeq
<1> HIDE DEF u
<1>5. \A i \in 1..m : u[i] = s[i] /\ u[i] \in Nat
  BY <1>2, <1>4
<1>6. ASSUME NEW i \in 1..n PROVE u[m + i] = t[i] /\ u[m + i] \in Nat
  <2>1. m + i \in 1..(m + n) /\ ~(m + i <= m) /\ (m + i) - m = i
    OBVIOUS
  <2>2. QED
    BY <1>2, <1>4, <2>1
<1>7. ASSUME NEW i \in 1..(m + n) PROVE i \in 1..m \/ \E k \in 1..n : i = m + k
  <2>1. CASE i <= m
    BY <2>1
  <2>2. CASE ~(i <= m)
    <3>1. i - m \in 1..n /\ i = m + (i - m)
      BY <2>2
    <3>2. QED
      BY <3>1
  <2>3. QED
    BY <2>1, <2>2
<1>8. Range(u) = Range(s) \cup Range(t)
  BY RangeConcatenation DEF u
<1>9. ASSUME Distinct(u) PROVE Distinct(s) /\ Distinct(t) /\ Range(s) \cap Range(t) = {}
  <2>1. \A i, j \in 1..m : s[i] = s[j] => i = j
    <3>1. \A i \in 1..m : i \in 1..(m + n)
      OBVIOUS
    <3>2. QED
      BY <1>3, <1>5, <1>9, <3>1 DEF Distinct
  <2>2. \A i, j \in 1..n : t[i] = t[j] => i = j
    <3>1. \A i \in 1..n : m + i \in 1..(m + n)
      OBVIOUS
    <3>2. \A i, j \in 1..n : t[i] = t[j] => m + i = m + j
      BY <1>3, <1>6, <1>9, <3>1 DEF Distinct
    <3>3. \A i, j \in 1..n : m + i = m + j => i = j
      OBVIOUS
    <3>4. QED
      BY <3>2, <3>3
  <2>3. \A i \in 1..m, j \in 1..n : s[i] # t[j]
    <3> SUFFICES ASSUME NEW i \in 1..m, NEW j \in 1..n, s[i] = t[j] PROVE FALSE
      OBVIOUS
    <3>1. i \in 1..(m + n) /\ m + j \in 1..(m + n) /\ i # m + j
      OBVIOUS
    <3>2. u[i] = u[m + j]
      BY <1>5, <1>6
    <3>3. QED
      BY <1>3, <1>9, <3>1, <3>2 DEF Distinct
  <2>4. QED
    BY <1>3, <2>1, <2>2, <2>3 DEF Distinct, Range
<1>10. QED
  BY <1>1, <1>2, <1>3, <1>5, <1>6, <1>7, <1>8, <1>9 DEF u

\* The path and its parts.
LEMMA PathFacts ==
  ASSUME ConsoleTypeOK
  PROVE  /\ got \in Seq(Nat) /\ rx_fifo \in Seq(Nat) /\ Holds \in Seq(Nat)
         /\ Contents(interrupts) \in Seq(Nat) /\ Contents(event_q) \in Seq(Nat)
         /\ got \o Contents(interrupts) \in Seq(Nat)
         /\ got \o Contents(interrupts) \o Holds \in Seq(Nat)
         /\ Drained \in Seq(Nat) /\ Path \in Seq(Nat)
<1>1. EventSlots \in Nat \ {0} /\ QUEUELENGTH \in Nat \ {0}
  BY ConsoleAssumption
<1>2. Contents(interrupts) \in Seq(Nat) /\ Contents(event_q) \in Seq(Nat)
  BY <1>1, ContentsFacts DEF ConsoleTypeOK
<1>3. Holds \in Seq(Nat)
  <2>1. notifier.ch \in Nat
    BY DEF ConsoleTypeOK
  <2>2. <<notifier.ch>> \in Seq(Nat) /\ <<>> \in Seq(Nat)
    BY <2>1
  <2>3. QED
    BY <2>2 DEF Holds
<1>4. got \in Seq(Nat) /\ rx_fifo \in Seq(Nat)
  BY DEF ConsoleTypeOK
<1>5. got \o Contents(interrupts) \in Seq(Nat)
  BY <1>2, <1>4, ConcatProperties
<1>6. got \o Contents(interrupts) \o Holds \in Seq(Nat)
  BY <1>3, <1>5, ConcatProperties
<1>7. Drained \in Seq(Nat)
  BY <1>2, <1>6, ConcatProperties DEF Drained
<1>8. Path \in Seq(Nat)
  BY <1>4, <1>7, ConcatProperties DEF Path
<1>9. QED
  BY <1>2, <1>3, <1>4, <1>5, <1>6, <1>7, <1>8

\* A newer character at the end; and the oldest leaves.
LEMMA OrderGrows ==
  ASSUME NEW p \in Seq(Nat), NEW m, NEW b, NEW x \in Nat, \A c \in Range(p) : c < x, InOrder(p, m, b)
  PROVE  InOrder(p \o <<x>>, m, b)
<1> DEFINE u == p \o <<x>>
<1>1. <<x>> \in Seq(Nat) /\ Len(<<x>>) = 1 /\ <<x>>[1] = x
  OBVIOUS
<1>2. PICK n \in Nat : n = Len(p)
  BY LenProperties
<1>3. /\ DOMAIN u = 1..(n + 1) /\ DOMAIN p = 1..n
      /\ \A i \in 1..n : u[i] = p[i]
      /\ u[n + 1] = x
  <2>1. 1 \in 1..Len(<<x>>)
    BY <1>1
  <2>2. QED
    BY <1>1, <1>2, <2>1, Joined
<1> HIDE DEF u
<1>4. ASSUME NEW i \in 1..(n + 1), NEW j \in 1..(n + 1), i < j, u[i] > u[j]
      PROVE  j <= m /\ u[i] \in b[u[j]] /\ \A c \in b[u[j]] : u[j] <= c
  <2>1. i \in 1..n
    BY <1>4
  <2>2. p[i] < x /\ p[i] \in Nat
    BY <1>3, <2>1, ElementOfSeq DEF Range
  <2>3. j \in 1..n
    BY <1>3, <1>4, <2>1, <2>2
  <2>4. u[i] = p[i] /\ u[j] = p[j]
    BY <1>3, <2>1, <2>3
  <2>5. QED
    BY <1>3, <1>4, <2>1, <2>3, <2>4 DEF InOrder
<1>5. QED
  BY <1>3, <1>4 DEF InOrder, u

LEMMA OrderLeaves ==
  ASSUME NEW p \in Seq(Nat), NEW m \in Nat, NEW b, NEW x \in Nat, InOrder(<<x>> \o p, m + 1, b)
  PROVE  InOrder(p, m, b)
<1> DEFINE u == <<x>> \o p
<1>1. <<x>> \in Seq(Nat) /\ Len(<<x>>) = 1
  OBVIOUS
<1>2. PICK n \in Nat : n = Len(p)
  BY LenProperties
<1>3. /\ DOMAIN u = 1..(1 + n) /\ DOMAIN p = 1..n
      /\ \A i \in 1..n : u[1 + i] = p[i]
  BY <1>1, <1>2, Joined
<1> HIDE DEF u
<1>4. ASSUME NEW i \in 1..n, NEW j \in 1..n, i < j, p[i] > p[j]
      PROVE  j <= m /\ p[i] \in b[p[j]] /\ \A c \in b[p[j]] : p[j] <= c
  <2>1. 1 + i \in 1..(1 + n) /\ 1 + j \in 1..(1 + n) /\ 1 + i < 1 + j
    BY <1>4
  <2>2. u[1 + i] = p[i] /\ u[1 + j] = p[j]
    BY <1>3
  <2>3. 1 + j <= m + 1 /\ p[i] \in b[p[j]] /\ \A c \in b[p[j]] : p[j] <= c
    BY <1>3, <1>4, <2>1, <2>2 DEF InOrder, u
  <2>4. QED
    BY <2>3
<1>5. QED
  BY <1>3, <1>4 DEF InOrder

\* What an interrupt drains: q is what the FIFO held, or that with its first at the end.
LEMMA OrderOfBurst ==
  ASSUME NEW p \in Seq(Nat), NEW q \in Seq(Nat), q # <<>>, NEW b \in [Chars -> SUBSET Nat],
         Distinct(p \o q), Range(p \o q) \subseteq Chars, InOrder(p \o q, Len(p), b),
         NEW r \in {q, Tail(q) \o <<Head(q)>>}
  PROVE  LET drained == [c \in Chars |-> IF c \in Range(q) THEN Range(q) ELSE b[c]]
         IN  /\ InOrder(p \o r, Len(p) + Len(q), drained)
             /\ Distinct(p \o r) /\ Range(p \o r) = Range(p \o q) /\ Len(p \o r) = Len(p \o q)
<1> DEFINE u == p \o q
           v == p \o r
           d == [c \in Chars |-> IF c \in Range(q) THEN Range(q) ELSE b[c]]
<1>1. PICK m \in Nat, n \in Nat \ {0} : m = Len(p) /\ n = Len(q)
  BY LenProperties, EmptySeq
<1>2. /\ r \in Seq(Nat) /\ Len(r) = n
      /\ \A i \in 1..n : r[i] = IF r = q THEN q[i] ELSE IF i < n THEN q[i + 1] ELSE q[1]
  <2>1. CASE r = q
    BY <1>1, <2>1
  <2>2. CASE r = Tail(q) \o <<Head(q)>> /\ r # q
    <3>1. Tail(q) \in Seq(Nat) /\ Len(Tail(q)) = n - 1 /\ Head(q) \in Nat /\ Head(q) = q[1]
          /\ \A i \in 1..(n - 1) : Tail(q)[i] = q[i + 1]
      BY <1>1, HeadTailProperties, LenProperties, ElementOfSeq
    <3>2. <<Head(q)>> \in Seq(Nat) /\ Len(<<Head(q)>>) = 1 /\ <<Head(q)>>[1] = q[1]
      BY <3>1
    <3>3. /\ r \in Seq(Nat) /\ Len(r) = (n - 1) + 1
          /\ \A i \in 1..(n - 1) : r[i] = Tail(q)[i]
          /\ \A i \in 1..1 : r[(n - 1) + i] = <<Head(q)>>[i]
      <4>1. PICK s \in Seq(Nat), h \in Seq(Nat) : s = Tail(q) /\ h = <<Head(q)>>
        BY <3>1, <3>2
      <4>2. /\ s \o h \in Seq(Nat) /\ Len(s \o h) = Len(s) + Len(h)
            /\ \A i \in 1..Len(s) : (s \o h)[i] = s[i]
            /\ \A i \in 1..Len(h) : (s \o h)[Len(s) + i] = h[i]
        BY Joined
      <4>3. r = s \o h /\ Len(s) = n - 1 /\ Len(h) = 1
        BY <2>2, <3>1, <3>2, <4>1
      <4>4. QED
        BY <4>1, <4>2, <4>3
    <3>4. r[n] = q[1]
      <4>1. (n - 1) + 1 = n /\ 1 \in 1..1
        OBVIOUS
      <4>2. QED
        BY <3>2, <3>3, <4>1
    <3>5. ASSUME NEW i \in 1..n PROVE r[i] = IF i < n THEN q[i + 1] ELSE q[1]
      <4>1. CASE i < n
        BY <3>1, <3>3, <4>1
      <4>2. CASE ~(i < n)
        <5>1. i = n
          BY <4>2
        <5>2. QED
          BY <3>4, <4>2, <5>1
      <4>3. QED
        BY <4>1, <4>2
    <3>6. QED
      BY <2>2, <3>3, <3>5
  <2>3. QED
    BY <2>1, <2>2
<1>3. PICK turn \in [1..n -> 1..n] :
        /\ \A i \in 1..n : r[i] = q[turn[i]]
        /\ \A i, j \in 1..n : turn[i] = turn[j] => i = j
        /\ \A k \in 1..n : \E i \in 1..n : turn[i] = k
        /\ \A i, j \in 1..n : i < j => turn[i] < turn[j] \/ turn[j] = 1
  <2>1. CASE r = q
    <3> DEFINE f == [i \in 1..n |-> i]
    <3>1. f \in [1..n -> 1..n] /\ \A i \in 1..n : f[i] = i
      OBVIOUS
    <3> HIDE DEF f
    <3>2. \A i \in 1..n : r[i] = q[f[i]]
      BY <2>1, <3>1
    <3>3. \A k \in 1..n : \E i \in 1..n : f[i] = k
      BY <3>1
    <3>4. \A i, j \in 1..n : i < j => f[i] < f[j] \/ f[j] = 1
      BY <3>1
    <3>5. \A i, j \in 1..n : f[i] = f[j] => i = j
      BY <3>1
    <3>6. QED
      BY <3>1, <3>2, <3>3, <3>4, <3>5
  <2>2. CASE r # q
    <3> DEFINE f == [i \in 1..n |-> IF i < n THEN i + 1 ELSE 1]
    <3>1. f \in [1..n -> 1..n] /\ \A i \in 1..n : f[i] = IF i < n THEN i + 1 ELSE 1
      OBVIOUS
    <3> HIDE DEF f
    <3>2. \A i \in 1..n : r[i] = q[f[i]]
      BY <1>2, <2>2, <3>1
    <3>3. ASSUME NEW k \in 1..n PROVE \E i \in 1..n : f[i] = k
      <4>1. CASE k = 1
        <5>1. n \in 1..n /\ f[n] = 1
          BY <3>1
        <5>2. QED
          BY <4>1, <5>1
      <4>2. CASE k # 1
        <5>1. k - 1 \in 1..n /\ k - 1 < n /\ (k - 1) + 1 = k
          BY <4>2
        <5>2. QED
          BY <3>1, <5>1
      <4>3. QED
        BY <4>1, <4>2
    <3>4. ASSUME NEW i \in 1..n, NEW j \in 1..n, i < j PROVE f[i] < f[j] \/ f[j] = 1
      <4>1. i < n /\ f[i] = i + 1
        BY <3>1, <3>4
      <4>2. f[j] = IF j < n THEN j + 1 ELSE 1
        BY <3>1
      <4>3. QED
        BY <4>1, <4>2, <3>4
    <3>5. ASSUME NEW i \in 1..n, NEW j \in 1..n, f[i] = f[j] PROVE i = j
      <4>1. f[i] = (IF i < n THEN i + 1 ELSE 1) /\ f[j] = (IF j < n THEN j + 1 ELSE 1)
        BY <3>1
      <4>2. QED
        BY <4>1, <3>5
    <3>6. QED
      BY <3>1, <3>2, <3>3, <3>4, <3>5
  <2>3. QED
    BY <2>1, <2>2
<1> HIDE DEF u, v, d
<1>4. /\ DOMAIN u = 1..(m + n) /\ u \in Seq(Nat)
      /\ \A i \in 1..m : u[i] = p[i]
      /\ \A i \in 1..n : u[m + i] = q[i]
      /\ \A i \in 1..(m + n) : i \in 1..m \/ \E k \in 1..n : i = m + k
      /\ Range(u) = Range(p) \cup Range(q)
      /\ Len(u) = m + n
      /\ Distinct(q) /\ Range(p) \cap Range(q) = {}
      /\ DOMAIN p = 1..m /\ DOMAIN q = 1..n
  BY <1>1, Joined DEF u
<1>5. /\ DOMAIN v = 1..(m + n) /\ v \in Seq(Nat)
      /\ \A i \in 1..m : v[i] = p[i]
      /\ \A i \in 1..n : v[m + i] = r[i]
      /\ \A i \in 1..(m + n) : i \in 1..m \/ \E k \in 1..n : i = m + k
      /\ Range(v) = Range(p) \cup Range(r)
      /\ Len(v) = m + n
      /\ DOMAIN r = 1..n
  <2>1. PICK s \in Seq(Nat) : s = r
    BY <1>2
  <2>2. Len(s) = n /\ Len(p) = m
    BY <1>1, <1>2, <2>1
  <2>3. /\ DOMAIN (p \o s) = 1..(m + n) /\ p \o s \in Seq(Nat)
        /\ \A i \in 1..m : (p \o s)[i] = p[i]
        /\ \A i \in 1..n : (p \o s)[m + i] = s[i]
        /\ \A i \in 1..(m + n) : i \in 1..m \/ \E k \in 1..n : i = m + k
        /\ Range(p \o s) = Range(p) \cup Range(s)
        /\ Len(p \o s) = m + n
        /\ DOMAIN s = 1..n
    <3>1. LET w == p \o s
          IN  /\ w \in Seq(Nat) /\ Len(w) = Len(p) + Len(s) /\ Len(p) \in Nat /\ Len(s) \in Nat
              /\ DOMAIN w = 1..(Len(p) + Len(s)) /\ DOMAIN p = 1..Len(p) /\ DOMAIN s = 1..Len(s)
              /\ \A i \in 1..Len(p) : w[i] = p[i] /\ w[i] \in Nat
              /\ \A i \in 1..Len(s) : w[Len(p) + i] = s[i] /\ w[Len(p) + i] \in Nat
              /\ \A i \in 1..(Len(p) + Len(s)) :
                   i \in 1..Len(p) \/ \E k \in 1..Len(s) : i = Len(p) + k
              /\ Range(w) = Range(p) \cup Range(s)
              /\ Distinct(w) => Distinct(p) /\ Distinct(s) /\ Range(p) \cap Range(s) = {}
      BY Joined
    <3>2. QED
      BY <2>2, <3>1
  <2>4. QED
    BY <2>1, <2>3 DEF v
<1>6. Range(r) = Range(q)
  <2>1. \A i \in 1..n : r[i] \in Range(q)
    <3> SUFFICES ASSUME NEW i \in 1..n PROVE r[i] \in Range(q)
      OBVIOUS
    <3>1. r[i] = q[turn[i]] /\ turn[i] \in DOMAIN q
      BY <1>3, <1>4
    <3>2. QED
      BY <3>1 DEF Range
  <2>2. \A k \in 1..n : q[k] \in Range(r)
    <3> SUFFICES ASSUME NEW k \in 1..n PROVE q[k] \in Range(r)
      OBVIOUS
    <3>1. PICK i \in 1..n : turn[i] = k
      BY <1>3
    <3>2. r[i] = q[k]
      BY <1>3, <3>1
    <3>3. QED
      BY <1>5, <3>2 DEF Range
  <2>3. Range(r) \subseteq Range(q)
    BY <1>5, <2>1 DEF Range
  <2>4. Range(q) \subseteq Range(r)
    BY <1>4, <2>2 DEF Range
  <2>5. QED
    BY <2>3, <2>4
<1>7. \A i \in 1..(m + n) : v[i] \in Chars /\ u[i] \in Chars /\ v[i] \in Nat /\ u[i] \in Nat
  <2>1. Range(u) \subseteq Chars /\ Range(v) \subseteq Chars
    BY <1>4, <1>5, <1>6 DEF u
  <2>2. \A i \in 1..(m + n) : v[i] \in Range(v) /\ u[i] \in Range(u)
    BY <1>4, <1>5 DEF Range
  <2>3. Chars \subseteq Nat
    BY DEF Chars
  <2>4. QED
    BY <2>1, <2>2, <2>3
<1>8. \A i \in 1..n : m + i \in 1..(m + n)
  OBVIOUS
<1>9. \A i \in 1..m : i \in 1..(m + n)
  OBVIOUS
<1>10. Distinct(v)
  <2>0. \A i, j \in 1..(m + n) : u[i] = u[j] => i = j
    BY <1>4 DEF Distinct, u
  <2>1. \A i, j \in 1..m : v[i] = v[j] => i = j
    BY <1>4, <1>5, <1>9, <2>0
  <2>2. \A i \in 1..m, k \in 1..n : v[i] # v[m + k]
    BY <1>4, <1>5, <1>6 DEF Range
  <2>3. \A k, l \in 1..n : v[m + k] = v[m + l] => k = l
    <3> SUFFICES ASSUME NEW k \in 1..n, NEW l \in 1..n, v[m + k] = v[m + l] PROVE k = l
      OBVIOUS
    <3>1. v[m + k] = r[k] /\ v[m + l] = r[l] /\ r[k] = q[turn[k]] /\ r[l] = q[turn[l]]
      BY <1>3, <1>5
    <3>2. turn[k] \in 1..n /\ turn[l] \in 1..n
      BY <1>3
    <3>3. turn[k] = turn[l]
      <4>1. q[turn[k]] = q[turn[l]]
        BY <3>1
      <4>2. \A i, j \in 1..n : q[i] = q[j] => i = j
        BY <1>4 DEF Distinct
      <4>3. QED
        BY <3>2, <4>1, <4>2
    <3>4. QED
      BY <1>3, <3>3
  <2>4. ASSUME NEW i \in 1..(m + n), NEW j \in 1..(m + n), v[i] = v[j] PROVE i = j
    <3>1. i \in 1..m \/ \E k \in 1..n : i = m + k
      BY <1>5
    <3>2. j \in 1..m \/ \E k \in 1..n : j = m + k
      BY <1>5
    <3>3. CASE i \in 1..m /\ j \in 1..m
      BY <2>1, <2>4, <3>3
    <3>4. ASSUME NEW k \in 1..n, i = m + k, j \in 1..m PROVE FALSE
      BY <2>2, <2>4, <3>4
    <3>5. ASSUME NEW k \in 1..n, j = m + k, i \in 1..m PROVE FALSE
      BY <2>2, <2>4, <3>5
    <3>6. ASSUME NEW k \in 1..n, NEW l \in 1..n, i = m + k, j = m + l PROVE i = j
      BY <2>3, <2>4, <3>6
    <3>7. QED
      BY <3>1, <3>2, <3>3, <3>4, <3>5, <3>6
  <2>5. QED
    BY <1>5, <2>4 DEF Distinct
<1>11. \A i, j \in 1..n : i < j => q[i] < q[j]
  <2> SUFFICES ASSUME NEW i \in 1..n, NEW j \in 1..n, i < j, ~(q[i] < q[j]) PROVE FALSE
    OBVIOUS
  <2>1. /\ m + i \in 1..(m + n) /\ m + j \in 1..(m + n) /\ m + i < m + j
        /\ ~(m + j <= m)
    OBVIOUS
  <2>2. u[m + i] = q[i] /\ u[m + j] = q[j] /\ q[i] \in Nat /\ q[j] \in Nat
    BY <1>4, <1>7, <2>1
  <2>3. q[i] # q[j]
    <3>1. i # j
      OBVIOUS
    <3>2. QED
      BY <1>4, <3>1 DEF Distinct
  <2>4. u[m + i] > u[m + j]
    <3>1. PICK x \in Nat, y \in Nat : x = q[i] /\ y = q[j]
      BY <2>2
    <3>2. ~(x < y) /\ x # y
      BY <2>3, <3>1
    <3>3. x > y
      BY <3>2
    <3>4. QED
      BY <2>2, <3>1, <3>3
  <2>5. QED
    BY <1>1, <1>4, <2>1, <2>4 DEF InOrder, u
<1>12. ASSUME NEW i \in 1..(m + n), NEW j \in 1..(m + n), i < j, v[i] > v[j]
       PROVE  v[i] \in d[v[j]] /\ \A c \in d[v[j]] : v[j] <= c
  <2>1. CASE j \in 1..m
    <3>1. i \in 1..m
      BY <1>12, <2>1
    <3>2. v[i] = u[i] /\ v[j] = u[j]
      BY <1>4, <1>5, <2>1, <3>1
    <3>3. u[i] \in b[u[j]] /\ \A c \in b[u[j]] : u[j] <= c
      BY <1>4, <1>12, <3>2 DEF InOrder, u
    <3>4. u[j] \notin Range(q) /\ u[j] \in Chars
      BY <1>4, <1>7, <2>1 DEF Range
    <3>5. QED
      BY <3>2, <3>3, <3>4 DEF d
  <2>2. ASSUME NEW l \in 1..n, j = m + l PROVE v[i] \in d[v[j]] /\ \A c \in d[v[j]] : v[j] <= c
    <3>1. v[j] = q[turn[l]] /\ turn[l] \in 1..n /\ u[m + turn[l]] = q[turn[l]]
          /\ m + turn[l] \in 1..(m + n)
      BY <1>3, <1>4, <1>5, <1>8, <2>2
    <3>2. ASSUME NEW k \in 1..n, i = m + k
          PROVE  v[i] \in d[v[j]] /\ \A c \in d[v[j]] : v[j] <= c
      <4>1. v[i] = q[turn[k]] /\ turn[k] \in 1..n
        BY <1>3, <1>5, <3>2
      <4>2. k < l
        BY <1>12, <2>2, <3>2
      <4>3. turn[l] = 1
        <5>1. turn[k] < turn[l] => q[turn[k]] < q[turn[l]]
          BY <1>11, <3>1, <4>1
        <5>2. ~(q[turn[k]] < q[turn[l]])
          <6>1. PICK x \in Nat, y \in Nat : x = v[i] /\ y = v[j]
            BY <1>7
          <6>2. ~(x < y)
            <7>1. x > y
              BY <1>12, <6>1
            <7>2. QED
              BY <7>1
          <6>3. QED
            BY <3>1, <4>1, <6>1, <6>2
        <5>3. QED
          BY <1>3, <4>2, <5>1, <5>2
      <4>4. 1 \in 1..n
        OBVIOUS
      <4>5. v[i] \in Range(q) /\ v[j] \in Range(q) /\ v[j] \in Chars
        <5>1. v[i] \in Range(q) /\ v[j] \in Range(q)
          <6>1. DOMAIN q = 1..n
            BY <1>4
          <6>2. QED
            BY <3>1, <4>1, <6>1 DEF Range
        <5>2. QED
          BY <1>7, <5>1
      <4>6. d[v[j]] = Range(q)
        BY <4>5 DEF d
      <4>7. \A k1 \in 1..n : q[1] <= q[k1]
        <5> SUFFICES ASSUME NEW k1 \in 1..n PROVE q[1] <= q[k1]
          OBVIOUS
        <5>1. q[1] \in Nat /\ q[k1] \in Nat
          BY <1>4, <4>4, ElementOfSeq, <1>1
        <5>2. CASE k1 = 1
          BY <5>1, <5>2
        <5>3. CASE k1 # 1
          <6>1. 1 < k1
            BY <5>3
          <6>2. q[1] < q[k1]
            BY <1>11, <4>4, <6>1
          <6>3. PICK x \in Nat, y \in Nat : x = q[1] /\ y = q[k1]
            BY <5>1
          <6>4. x < y
            BY <6>2, <6>3, Zenon
          <6>5. x <= y
            BY <6>4
          <6>6. QED
            BY <6>3, <6>5
        <5>4. QED
          BY <5>2, <5>3
      <4>8. v[j] = q[1]
        BY <3>1, <4>3
      <4>9. \A c \in Range(q) : v[j] <= c
        BY <1>4, <4>7, <4>8 DEF Range
      <4>10. QED
        BY <4>5, <4>6, <4>9
    <3>3. CASE i \in 1..m
      <4>1. v[i] = u[i] /\ v[j] = u[m + turn[l]]
        BY <1>4, <1>5, <3>1, <3>3
      <4>2. i < m + turn[l] /\ ~(m + turn[l] <= m)
        <5>1. PICK t \in 1..n : t = turn[l]
          BY <3>1
        <5>2. i < m + t /\ ~(m + t <= m)
          BY <3>3
        <5>3. QED
          BY <5>1, <5>2
      <4>3. FALSE
        BY <1>1, <1>4, <1>9, <1>12, <3>1, <3>3, <4>1, <4>2 DEF InOrder, u
      <4>4. QED
        BY <4>3
    <3>4. QED
      BY <1>5, <3>2, <3>3
  <2>3. QED
    BY <1>5, <2>1, <2>2
<1>13. InOrder(v, m + n, d)
  <2>1. \A j \in 1..(m + n) : j <= m + n
    OBVIOUS
  <2>2. QED
    BY <1>5, <1>12, <2>1 DEF InOrder
<1>14. Range(v) = Range(u) /\ Len(v) = Len(u)
  BY <1>4, <1>5, <1>6
<1>15. InOrder(v, Len(p) + Len(q), d)
  BY <1>1, <1>13
<1>16. QED
  BY <1>10, <1>14, <1>15 DEF u, v, d

-----------------------------------------------------------------------------
(* The invariant. *)

LEMMA ConsoleInitially == CInit => ConsoleInv
<1> SUFFICES ASSUME CInit PROVE ConsoleInv
  OBVIOUS
<1> USE DEF CInit
<1>1. EventSlots \in Nat \ {0} /\ QUEUELENGTH \in Nat \ {0} /\ RxFifo \in Nat
      /\ MaxChars \in Nat /\ MaxUnread \in Nat
  BY ConsoleAssumption
<1>2. /\ RingOK(event_q, EventSlots) /\ Contents(event_q) = <<>>
      /\ RingOK(interrupts, QUEUELENGTH) /\ Contents(interrupts) = <<>>
  BY <1>1, EmptyRingFacts
<1>3. event_q.len = 0 /\ interrupts.len = 0
  BY DEF EmptyRing
<1>4. Holds = <<>>
  BY DEF Holds
<1>5. Drained = <<>> /\ Path = <<>>
  <2>1. <<>> \in Seq(Nat)
    OBVIOUS
  <2>2. <<>> \o <<>> = <<>>
    BY <2>1, ConcatEmptySeq
  <2>3. QED
    BY <1>2, <1>4, <2>2 DEF Drained, Path
<1>6. ConsoleTypeOK
  <2>1. typed \in 0..MaxChars /\ rx_fifo \in Seq(Nat) /\ got \in Seq(Nat) /\ Len(rx_fifo) <= RxFifo
    BY <1>1
  <2>2. notifier \in [at : {"calls", "awaits", "holds", "sends"}, ch : Nat]
    BY DEF NoChar
  <2>3. registered \in BOOLEAN /\ inbox \in Seq({"RXIC", "getc", "poll"}) /\ dropped \in SUBSET Nat
    <3>1. \A S : <<>> \in Seq(S)
      BY EmptySeq
    <3>2. inbox = <<>> /\ dropped = {} /\ registered = FALSE
      OBVIOUS
    <3>3. QED
      BY <3>1, <3>2
  <2>4. burst \in [Chars -> SUBSET Nat]
    OBVIOUS
  <2>5. QED
    BY <1>2, <2>1, <2>2, <2>3, <2>4 DEF ConsoleTypeOK
<1>7. NotifierInv
  BY <1>3 DEF NotifierInv
<1>8. PathInv
  <2>1. Distinct(Path) /\ Range(Path) = {} /\ Len(Path) = 0 /\ Len(got) = 0
    BY <1>5 DEF Distinct, Range
  <2>2. Cardinality({}) = 0
    BY FS_EmptySet
  <2>3. 1..0 = {}
    OBVIOUS
  <2>4. QED
    BY <1>1, <2>1, <2>2, <2>3 DEF PathInv
<1>9. OrderInv
  BY <1>5 DEF OrderInv, InOrder
<1>10. QED
  BY <1>6, <1>7, <1>8, <1>9 DEF ConsoleInv

\* The characters on the path, and how many there are.
LEMMA PathCounts ==
  ASSUME ConsoleTypeOK, PathInv
  PROVE  /\ Range(Path) \subseteq Chars /\ Range(Path) \subseteq 1..typed
         /\ IsFiniteSet(dropped) /\ Cardinality(dropped) \in Nat
         /\ Len(Path) \in Nat /\ Len(Path) = typed - Cardinality(dropped)
         /\ Len(Drained) \in Nat /\ Len(Path) = Len(Drained) + Len(rx_fifo)
         /\ Len(got) \in Nat /\ Len(rx_fifo) \in Nat
         /\ Len(Drained) = Len(got) + interrupts.len + Len(Holds) + event_q.len
         /\ Len(Holds) \in Nat /\ interrupts.len \in Nat /\ event_q.len \in Nat
<1>1. typed \in 0..MaxChars /\ MaxChars \in Nat
  BY ConsoleAssumption DEF ConsoleTypeOK
<1>2. Range(Path) \subseteq 1..typed /\ dropped \subseteq 1..typed
  BY DEF PathInv
<1>3. 1..typed \subseteq Chars
  BY <1>1 DEF Chars
<1>4. IsFiniteSet(dropped) /\ Cardinality(dropped) \in Nat
  <2>1. IsFiniteSet(1..typed)
    BY <1>1, FS_Interval
  <2>2. QED
    BY <1>2, <2>1, FS_Subset, FS_CardinalityType
<1>5. EventSlots \in Nat \ {0} /\ QUEUELENGTH \in Nat \ {0}
  BY ConsoleAssumption
<1>6. /\ Len(Contents(interrupts)) = interrupts.len /\ interrupts.len \in Nat
      /\ Len(Contents(event_q)) = event_q.len /\ event_q.len \in Nat
  BY <1>5, ContentsFacts, RingFacts DEF ConsoleTypeOK
<1>7. /\ Len(got \o Contents(interrupts)) = Len(got) + Len(Contents(interrupts))
      /\ Len(got \o Contents(interrupts) \o Holds) = Len(got \o Contents(interrupts)) + Len(Holds)
      /\ Len(Drained) = Len(got \o Contents(interrupts) \o Holds) + Len(Contents(event_q))
      /\ Len(Path) = Len(Drained) + Len(rx_fifo)
  BY PathFacts, ConcatProperties DEF Drained, Path
<1>8. /\ Len(got) \in Nat /\ Len(rx_fifo) \in Nat /\ Len(Holds) \in Nat
      /\ Len(Drained) \in Nat /\ Len(Path) \in Nat
  BY PathFacts, LenProperties
<1>9. Len(Path) = typed - Cardinality(dropped)
  BY <1>1, <1>4, <1>8 DEF PathInv
<1>10. QED
  BY <1>2, <1>3, <1>4, <1>6, <1>7, <1>8, <1>9

\* Each ring has room for all that is unread.
LEMMA Fits ==
  ASSUME RingsHold, ConsoleTypeOK, PathInv
  PROVE  LET unread == interrupts.len + Len(Holds) + event_q.len + Len(rx_fifo)
         IN  unread <= EventSlots /\ unread <= QUEUELENGTH
<1>1. PICK g \in Nat, i \in Nat, h \in Nat, e \in Nat, f \in Nat :
        /\ g = Len(got) /\ i = interrupts.len /\ h = Len(Holds)
        /\ e = event_q.len /\ f = Len(rx_fifo)
  BY PathCounts
<1>2. Len(Path) = (g + i + h + e) + f
  BY <1>1, PathCounts
<1>3. ((g + i + h + e) + f) - g <= MaxUnread
  BY <1>1, <1>2 DEF PathInv
<1>4. MaxUnread \in Nat /\ EventSlots \in Nat /\ QUEUELENGTH \in Nat
  BY ConsoleAssumption
<1>5. i + h + e + f <= MaxUnread
  BY <1>3, <1>4
<1>6. i + h + e + f <= EventSlots /\ i + h + e + f <= QUEUELENGTH
  BY <1>4, <1>5 DEF RingsHold
<1>7. QED
  BY <1>1, <1>6

\* A step that moves characters along the path does not change it.
LEMMA PathStays ==
  ASSUME ConsoleTypeOK, PathInv, OrderInv, Drained' = Drained, rx_fifo' = rx_fifo,
         typed' = typed, dropped' = dropped, burst' = burst,
         Len(got') \in Nat, Len(got) <= Len(got')
  PROVE  PathInv' /\ OrderInv'
<1>1. Path' = Path
  BY DEF Path
<1>2. Len(Path) \in Nat /\ Len(got) \in Nat /\ MaxUnread \in Nat
  BY PathCounts, ConsoleAssumption
<1>3. Len(Path) - Len(got') <= MaxUnread
  BY <1>2 DEF PathInv
<1>4. PathInv'
  BY <1>1, <1>3 DEF PathInv
<1>5. OrderInv'
  BY <1>1 DEF OrderInv
<1>6. QED
  BY <1>4, <1>5

\* match_getc() moves at most one character, from the list to the reader.
LEMMA MatchKeeps ==
  ASSUME NEW list, RingOK(list, QUEUELENGTH), NEW n, match_getc(list, n), got \in Seq(Nat)
  PROVE  /\ RingOK(interrupts', QUEUELENGTH) /\ got' \in Seq(Nat)
         /\ got' \o Contents(interrupts') = got \o Contents(list)
         /\ Len(got') \in Nat /\ Len(got) <= Len(got')
<1>1. QUEUELENGTH \in Nat \ {0}
  BY ConsoleAssumption
<1>2. CASE n > 0 /\ list.len > 0
  <2>1. interrupts' = Take(list) /\ got' = Append(got, First(list))
    BY <1>2 DEF match_getc
  <2>2. /\ RingOK(Take(list), QUEUELENGTH) /\ First(list) \in Nat
        /\ Contents(list) = <<First(list)>> \o Contents(Take(list))
    BY <1>1, <1>2, TakeLeaves
  <2>3. PICK x \in Nat : x = First(list)
    BY <2>2
  <2>4. <<x>> \in Seq(Nat) /\ Contents(Take(list)) \in Seq(Nat)
    BY <1>1, <2>2, ContentsFacts
  <2>5. got' \in Seq(Nat) /\ got' = got \o <<x>> /\ Len(got') = Len(got) + 1
    BY <2>1, <2>3, AppendIsConcat, AppendProperties
  <2>6. (got \o <<x>>) \o Contents(Take(list)) = got \o (<<x>> \o Contents(Take(list)))
    BY <2>4, ConcatAssociative
  <2>7. Len(got) \in Nat
    BY LenProperties
  <2>8. QED
    BY <2>1, <2>2, <2>3, <2>5, <2>6, <2>7
<1>3. CASE ~(n > 0 /\ list.len > 0)
  <2>1. interrupts' = list /\ got' = got
    BY <1>3 DEF match_getc
  <2>2. Len(got) \in Nat
    BY LenProperties
  <2>3. QED
    BY <2>1, <2>2
<1>4. QED
  BY <1>2, <1>3

-----------------------------------------------------------------------------
(* The steps. *)

LEMMA TypeKeepsIt == RingsHold /\ ConsoleInv /\ Type => ConsoleInv'
<1> SUFFICES ASSUME RingsHold, ConsoleInv, Type PROVE ConsoleInv'
  OBVIOUS
<1> USE DEF ConsoleInv
<1>1. /\ typed < MaxChars /\ Len(rx_fifo) < RxFifo
      /\ typed - Len(got) - Cardinality(dropped) < MaxUnread
      /\ typed' = typed + 1 /\ rx_fifo' = Append(rx_fifo, typed + 1)
      /\ UNCHANGED <<event_q, notifier, registered, inbox, interrupts, got, dropped, burst>>
  BY DEF Type, consoleVars
<1>2. PICK x \in Nat : x = typed + 1
  BY DEF ConsoleTypeOK
<1>3. typed \in 0..MaxChars /\ typed \in Nat /\ MaxChars \in Nat /\ RxFifo \in Nat /\ MaxUnread \in Nat
  BY ConsoleAssumption DEF ConsoleTypeOK
<1>4. <<x>> \in Seq(Nat)
  OBVIOUS
<1>5. rx_fifo' = rx_fifo \o <<x>> /\ rx_fifo' \in Seq(Nat) /\ Len(rx_fifo') = Len(rx_fifo) + 1
  BY <1>1, <1>2, PathFacts, AppendIsConcat, AppendProperties
<1>6. Drained' = Drained
  BY <1>1 DEF Drained, Holds
<1>7. Path' = Path \o <<x>>
  <2>1. PICK a \in Seq(Nat), f \in Seq(Nat), y \in Seq(Nat) : a = Drained /\ f = rx_fifo /\ y = <<x>>
    BY <1>4, PathFacts
  <2>2. a \o (f \o y) = (a \o f) \o y
    BY Regrouped
  <2>3. Path' = a \o (f \o y)
    BY <1>5, <1>6, <2>1 DEF Path
  <2>4. Path = a \o f
    BY <2>1 DEF Path
  <2>5. QED
    BY <2>1, <2>2, <2>3, <2>4
<1>8. /\ Range(Path) \subseteq 1..typed /\ Cardinality(dropped) \in Nat
      /\ Len(Path) \in Nat /\ Len(Path) = typed - Cardinality(dropped)
      /\ Len(got) \in Nat /\ Len(rx_fifo) \in Nat
  BY PathCounts
<1>9. /\ Path' = Append(Path, x) /\ x \notin Range(Path)
      /\ Range(Path') = Range(Path) \cup {x} /\ Distinct(Path') /\ Len(Path') = Len(Path) + 1
  <2>1. x \notin 1..typed
    BY <1>2, <1>3
  <2>2. Path' = Append(Path, x)
    BY <1>7, PathFacts, AppendIsConcat
  <2>3. QED
    BY <1>8, <2>1, <2>2, PathFacts, AppendsTo, AppendProperties DEF PathInv
<1>10. PathInv'
  <2>1. dropped \subseteq 1..typed /\ Range(Path) \cup dropped = 1..typed
    BY DEF PathInv
  <2>2. 1..(typed + 1) = (1..typed) \cup {x} /\ x \notin 1..typed
    BY <1>2, <1>3
  <2>3. Range(Path') \cap dropped = {} /\ Range(Path') \cup dropped = 1..(typed + 1)
    BY <1>9, <2>1, <2>2 DEF PathInv
  <2>4. Len(Path') + Cardinality(dropped) = typed + 1
    BY <1>3, <1>8, <1>9
  <2>5. Len(Path') - Len(got) <= MaxUnread
    <3>1. PICK p \in Nat, g \in Nat, d \in Nat, t \in Nat :
            p = Len(Path) /\ g = Len(got) /\ d = Cardinality(dropped) /\ t = typed
      BY <1>3, <1>8
    <3>2. (t - g) - d < MaxUnread /\ p = t - d
      BY <1>1, <1>8, <3>1
    <3>3. (p + 1) - g <= MaxUnread
      BY <1>3, <3>2
    <3>4. QED
      BY <1>9, <3>1, <3>3
  <2>6. QED
    BY <1>1, <1>9, <2>3, <2>4, <2>5 DEF PathInv
<1>11. OrderInv'
  <2>1. \A c \in Range(Path) : c < x
    BY <1>2, <1>3, <1>8
  <2>2. InOrder(Path \o <<x>>, Len(Drained), burst)
    BY <2>1, PathFacts, OrderGrows DEF OrderInv
  <2>3. QED
    BY <1>1, <1>6, <1>7, <2>2 DEF OrderInv
<1>12. ConsoleTypeOK'
  <2>1. typed' \in 0..MaxChars /\ Len(rx_fifo') <= RxFifo
    BY <1>1, <1>3, <1>5, <1>8
  <2>2. QED
    BY <1>1, <1>5, <2>1 DEF ConsoleTypeOK
<1>13. NotifierInv'
  BY <1>1 DEF NotifierInv
<1>14. QED
  BY <1>10, <1>11, <1>12, <1>13

\* Steps that touch neither the path nor what NotifierInv says of the inbox.
LEMMA SamePath ==
  ASSUME ConsoleInv,
         UNCHANGED <<typed, rx_fifo, event_q, notifier, interrupts, got, dropped, burst>>
  PROVE  PathInv' /\ OrderInv'
<1>1. Drained' = Drained
  BY DEF Drained, Holds
<1>2. Len(got) \in Nat
  BY PathCounts DEF ConsoleInv
<1>3. Len(got') \in Nat /\ Len(got) <= Len(got')
  BY <1>2
<1>4. QED
  BY <1>1, <1>3, PathStays DEF ConsoleInv

LEMMA RegistersKeepsIt == ConsoleInv /\ ServerRegisters => ConsoleInv'
<1> SUFFICES ASSUME ConsoleInv, ServerRegisters PROVE ConsoleInv'
  OBVIOUS
<1>1. /\ registered' = TRUE
      /\ UNCHANGED <<typed, rx_fifo, event_q, notifier, inbox, interrupts, got, dropped, burst>>
  BY DEF ServerRegisters, kernelVars, consoleVars
<1>2. PathInv' /\ OrderInv'
  BY <1>1, SamePath
<1>3. ConsoleTypeOK' /\ NotifierInv'
  BY <1>1 DEF ConsoleInv, ConsoleTypeOK, NotifierInv
<1>4. QED
  BY <1>2, <1>3 DEF ConsoleInv

\* A request or a message joins the inbox.
LEMMA InboxGrows ==
  ASSUME ConsoleTypeOK, NEW msg \in {"RXIC", "getc", "poll"}, inbox' = Append(inbox, msg)
  PROVE  /\ inbox' \in Seq({"RXIC", "getc", "poll"})
         /\ \A i \in DOMAIN inbox' : (i \in DOMAIN inbox /\ inbox'[i] = inbox[i]) \/ inbox'[i] = msg
         /\ (\A i \in DOMAIN inbox : inbox[i] # msg) =>
              \A i, j \in DOMAIN inbox' : inbox'[i] = msg /\ inbox'[j] = msg => i = j
BY AppendFacts DEF ConsoleTypeOK

\* A message leaves the inbox.
LEMMA InboxShrinks ==
  ASSUME ConsoleTypeOK, inbox # <<>>, inbox' = Tail(inbox)
  PROVE  /\ inbox' \in Seq({"RXIC", "getc", "poll"})
         /\ 1 \in DOMAIN inbox /\ Head(inbox) = inbox[1]
         /\ \A i \in DOMAIN inbox' :
              i \in Nat /\ i + 1 \in DOMAIN inbox /\ i + 1 # 1 /\ inbox'[i] = inbox[i + 1]
BY TailFacts DEF ConsoleTypeOK

LEMMA AsksKeepsIt ==
  ASSUME ConsoleInv, NEW call, ReaderAsks(call)
  PROVE  ConsoleInv'
<1>1. /\ registered /\ call \in ReadBy /\ inbox' = Append(inbox, call)
      /\ UNCHANGED <<typed, rx_fifo, event_q, notifier, registered, interrupts, got, dropped, burst>>
  BY DEF ReaderAsks, kernelVars
<1>2. call \in {"getc", "poll"}
  BY <1>1, ConsoleAssumption
<1>3. /\ inbox' \in Seq({"RXIC", "getc", "poll"})
      /\ \A i \in DOMAIN inbox' : (i \in DOMAIN inbox /\ inbox'[i] = inbox[i]) \/ inbox'[i] = call
  BY <1>1, <1>2, InboxGrows DEF ConsoleInv
<1>4. PathInv' /\ OrderInv'
  BY <1>1, SamePath
<1>5. ConsoleTypeOK'
  BY <1>1, <1>3 DEF ConsoleInv, ConsoleTypeOK
<1>6. NotifierInv'
  <2>1. ASSUME NEW i \in DOMAIN inbox', NEW j \in DOMAIN inbox', inbox'[i] = "RXIC"
        PROVE  notifier'.at = "sends" /\ (inbox'[j] = "RXIC" => i = j)
    BY <1>1, <1>2, <1>3, <2>1 DEF ConsoleInv, NotifierInv
  <2>2. QED
    BY <1>1, <2>1 DEF ConsoleInv, NotifierInv
<1>7. QED
  BY <1>4, <1>5, <1>6 DEF ConsoleInv

LEMMA PeekKeepsIt == ConsoleInv /\ ServePeek => ConsoleInv'
<1> SUFFICES ASSUME ConsoleInv, ServePeek PROVE ConsoleInv'
  OBVIOUS
<1>1. /\ registered /\ inbox # <<>> /\ inbox' = Tail(inbox)
      /\ UNCHANGED <<typed, rx_fifo, event_q, notifier, registered, interrupts, got, dropped, burst>>
  BY DEF ServePeek, kernelVars
<1>2. /\ inbox' \in Seq({"RXIC", "getc", "poll"})
      /\ \A i \in DOMAIN inbox' : i \in Nat /\ i + 1 \in DOMAIN inbox /\ inbox'[i] = inbox[i + 1]
  BY <1>1, InboxShrinks DEF ConsoleInv
<1>3. PathInv' /\ OrderInv'
  BY <1>1, SamePath
<1>4. ConsoleTypeOK'
  BY <1>1, <1>2 DEF ConsoleInv, ConsoleTypeOK
<1>5. NotifierInv'
  <2>1. ASSUME NEW i \in DOMAIN inbox', NEW j \in DOMAIN inbox', inbox'[i] = "RXIC"
        PROVE  notifier'.at = "sends" /\ (inbox'[j] = "RXIC" => i = j)
    <3>1. inbox'[j] = "RXIC" => i + 1 = j + 1
      BY <1>2, <2>1 DEF ConsoleInv, NotifierInv
    <3>2. notifier.at = "sends"
      BY <1>2, <2>1 DEF ConsoleInv, NotifierInv
    <3>3. i \in Nat /\ j \in Nat
      BY <1>2
    <3>4. QED
      BY <1>1, <3>1, <3>2, <3>3
  <2>2. QED
    BY <1>1, <2>1 DEF ConsoleInv, NotifierInv
<1>6. QED
  BY <1>3, <1>4, <1>5 DEF ConsoleInv

LEMMA GetcKeepsIt == ConsoleInv /\ ServeGetc => ConsoleInv'
<1> SUFFICES ASSUME ConsoleInv, ServeGetc PROVE ConsoleInv'
  OBVIOUS
<1>1. /\ registered /\ inbox # <<>> /\ inbox' = Tail(inbox)
      /\ match_getc(interrupts, calls + 1)
      /\ UNCHANGED <<typed, rx_fifo, event_q, notifier, registered, dropped, burst>>
  BY DEF ServeGetc, kernelVars
<1>2. /\ inbox' \in Seq({"RXIC", "getc", "poll"})
      /\ \A i \in DOMAIN inbox' : i \in Nat /\ i + 1 \in DOMAIN inbox /\ inbox'[i] = inbox[i + 1]
  BY <1>1, InboxShrinks DEF ConsoleInv
<1>3. /\ RingOK(interrupts', QUEUELENGTH) /\ got' \in Seq(Nat)
      /\ got' \o Contents(interrupts') = got \o Contents(interrupts)
      /\ Len(got') \in Nat /\ Len(got) <= Len(got')
  <2>1. RingOK(interrupts, QUEUELENGTH) /\ got \in Seq(Nat)
    BY DEF ConsoleInv, ConsoleTypeOK
  <2>2. QED
    BY <1>1, <2>1, MatchKeeps
<1>4. Drained' = Drained
  BY <1>1, <1>3 DEF Drained, Holds
<1>5. PathInv' /\ OrderInv'
  BY <1>1, <1>3, <1>4, PathStays DEF ConsoleInv
<1>6. ConsoleTypeOK'
  BY <1>1, <1>2, <1>3 DEF ConsoleInv, ConsoleTypeOK
<1>7. NotifierInv'
  <2>1. ASSUME NEW i \in DOMAIN inbox', NEW j \in DOMAIN inbox', inbox'[i] = "RXIC"
        PROVE  notifier'.at = "sends" /\ (inbox'[j] = "RXIC" => i = j)
    <3>1. inbox'[j] = "RXIC" => i + 1 = j + 1
      BY <1>2, <2>1 DEF ConsoleInv, NotifierInv
    <3>2. notifier.at = "sends"
      BY <1>2, <2>1 DEF ConsoleInv, NotifierInv
    <3>3. i \in Nat /\ j \in Nat
      BY <1>2
    <3>4. QED
      BY <1>1, <3>1, <3>2, <3>3
  <2>2. QED
    BY <1>1, <2>1 DEF ConsoleInv, NotifierInv
<1>8. QED
  BY <1>5, <1>6, <1>7 DEF ConsoleInv

LEMMA RXICKeepsIt == RingsHold /\ ConsoleInv /\ ServeRXIC => ConsoleInv'
<1> SUFFICES ASSUME RingsHold, ConsoleInv, ServeRXIC PROVE ConsoleInv'
  OBVIOUS
<1>1. /\ registered /\ inbox # <<>> /\ Head(inbox) = "RXIC" /\ inbox' = Tail(inbox)
      /\ notifier' = [at |-> "calls", ch |-> NoChar]
      /\ match_getc(Put(interrupts, notifier.ch), calls)
      /\ UNCHANGED <<typed, rx_fifo, event_q, registered, dropped, burst>>
  BY DEF ServeRXIC, kernelVars
<1>2. /\ inbox' \in Seq({"RXIC", "getc", "poll"})
      /\ 1 \in DOMAIN inbox /\ inbox[1] = "RXIC"
      /\ \A i \in DOMAIN inbox' :
           i \in Nat /\ i + 1 \in DOMAIN inbox /\ i + 1 # 1 /\ inbox'[i] = inbox[i + 1]
  BY <1>1, InboxShrinks DEF ConsoleInv
<1>3. notifier.at = "sends" /\ \A i \in DOMAIN inbox : inbox[i] = "RXIC" => i = 1
  BY <1>2 DEF ConsoleInv, NotifierInv
<1>4. PICK x \in Nat : x = notifier.ch
  BY DEF ConsoleInv, ConsoleTypeOK
<1>5. Holds = <<x>> /\ Len(Holds) = 1 /\ <<x>> \in Seq(Nat)
  BY <1>3, <1>4 DEF Holds
<1>6. /\ RingOK(interrupts, QUEUELENGTH) /\ QUEUELENGTH \in Nat \ {0} /\ got \in Seq(Nat)
      /\ Contents(interrupts) \in Seq(Nat) /\ Contents(event_q) \in Seq(Nat)
  BY ConsoleAssumption, PathFacts DEF ConsoleInv, ConsoleTypeOK
<1>7. interrupts.len < QUEUELENGTH
  <2>1. interrupts.len + Len(Holds) + event_q.len + Len(rx_fifo) <= QUEUELENGTH
    BY Fits DEF ConsoleInv
  <2>2. interrupts.len \in Nat /\ event_q.len \in Nat /\ Len(rx_fifo) \in Nat
    BY PathCounts DEF ConsoleInv
  <2>3. QED
    BY <1>5, <1>6, <2>1, <2>2
<1>8. /\ RingOK(Put(interrupts, x), QUEUELENGTH)
      /\ Contents(Put(interrupts, x)) = Contents(interrupts) \o <<x>>
  BY <1>6, <1>7, PutJoins
<1>9. /\ RingOK(interrupts', QUEUELENGTH) /\ got' \in Seq(Nat)
      /\ got' \o Contents(interrupts') = got \o (Contents(interrupts) \o <<x>>)
      /\ Len(got') \in Nat /\ Len(got) <= Len(got')
  <2>1. match_getc(Put(interrupts, x), calls)
    BY <1>1, <1>4
  <2>2. QED
    BY <1>6, <1>8, <2>1, MatchKeeps
<1>10. Drained' = Drained
  <2>1. got \o (Contents(interrupts) \o <<x>>) = (got \o Contents(interrupts)) \o <<x>>
    BY <1>5, <1>6, ConcatAssociative
  <2>2. Holds' = <<>>
    BY <1>1 DEF Holds
  <2>3. (got' \o Contents(interrupts')) \o <<>> = got' \o Contents(interrupts')
    <3>1. got' \o Contents(interrupts') \in Seq(Nat)
      BY <1>5, <1>6, <1>9, <2>1, ConcatProperties
    <3>2. QED
      BY <3>1, ConcatEmptySeq
  <2>4. Drained' = (got' \o Contents(interrupts')) \o Contents(event_q)
    BY <1>1, <2>2, <2>3 DEF Drained
  <2>5. Drained = (got \o Contents(interrupts) \o <<x>>) \o Contents(event_q)
    BY <1>5 DEF Drained
  <2>6. QED
    BY <1>9, <2>1, <2>4, <2>5
<1>11. PathInv' /\ OrderInv'
  BY <1>1, <1>9, <1>10, PathStays DEF ConsoleInv
<1>12. ConsoleTypeOK'
  <2>1. notifier' \in [at : {"calls", "awaits", "holds", "sends"}, ch : Nat]
    BY <1>1 DEF NoChar
  <2>2. QED
    BY <1>1, <1>2, <1>9, <2>1 DEF ConsoleInv, ConsoleTypeOK
<1>13. NotifierInv'
  <2>1. \A i \in DOMAIN inbox' : inbox'[i] # "RXIC"
    BY <1>2, <1>3
  <2>2. notifier'.at = "calls" /\ notifier'.ch = NoChar
    BY <1>1
  <2>3. registered'
    BY <1>1
  <2>4. QED
    BY <2>1, <2>2, <2>3 DEF NotifierInv
<1>14. QED
  BY <1>11, <1>12, <1>13 DEF ConsoleInv

LEMMA AwaitsKeepsIt == ConsoleInv /\ NotifierAwaits => ConsoleInv'
<1> SUFFICES ASSUME ConsoleInv, NotifierAwaits PROVE ConsoleInv'
  OBVIOUS
<1>1. /\ notifier.at = "calls"
      /\ UNCHANGED <<typed, rx_fifo, burst, registered, inbox, interrupts, got, dropped>>
  BY DEF NotifierAwaits, consoleVars
<1>2. /\ RingOK(event_q, EventSlots) /\ EventSlots \in Nat \ {0} /\ event_q.len \in Nat
      /\ got \o Contents(interrupts) \in Seq(Nat) /\ Contents(event_q) \in Seq(Nat)
  BY ConsoleAssumption, PathFacts, PathCounts DEF ConsoleInv, ConsoleTypeOK
<1>3. Holds = <<>>
  BY <1>1 DEF Holds
<1>4. \A i \in DOMAIN inbox : inbox[i] # "RXIC"
  BY <1>1 DEF ConsoleInv, NotifierInv
<1>5. Len(got') \in Nat /\ Len(got) <= Len(got')
  <2>1. Len(got) \in Nat
    BY PathCounts DEF ConsoleInv
  <2>2. QED
    BY <1>1, <2>1
<1>6. CASE event_q.len # 0
  <2>1. /\ notifier' = [at |-> "holds", ch |-> First(event_q)]
        /\ event_q' = Take(event_q)
    BY <1>6 DEF NotifierAwaits
  <2>2. event_q.len > 0
    BY <1>2, <1>6
  <2>3. /\ RingOK(Take(event_q), EventSlots) /\ First(event_q) \in Nat
        /\ Contents(event_q) = <<First(event_q)>> \o Contents(Take(event_q))
    BY <1>2, <2>2, TakeLeaves
  <2>4. PICK x \in Nat : x = First(event_q)
    BY <2>3
  <2>5. Holds' = <<x>> /\ <<x>> \in Seq(Nat) /\ Contents(Take(event_q)) \in Seq(Nat)
    BY <1>2, <2>1, <2>3, <2>4, ContentsFacts DEF Holds
  <2>6. Drained' = Drained
    <3>1. PICK a \in Seq(Nat) : a = got \o Contents(interrupts)
      BY <1>2
    <3>2. Drained = (a \o <<>>) \o (<<x>> \o Contents(Take(event_q)))
      BY <1>3, <2>3, <2>4, <3>1 DEF Drained
    <3>3. Drained' = (a \o <<x>>) \o Contents(Take(event_q))
      BY <1>1, <2>1, <2>5, <3>1 DEF Drained
    <3>4. a \o <<>> = a
      BY ConcatEmptySeq
    <3>5. (a \o <<x>>) \o Contents(Take(event_q)) = a \o (<<x>> \o Contents(Take(event_q)))
      BY <2>5, ConcatAssociative
    <3>6. QED
      BY <3>2, <3>3, <3>4, <3>5
  <2>7. PathInv' /\ OrderInv'
    BY <1>1, <1>5, <2>6, PathStays DEF ConsoleInv
  <2>8. notifier' \in [at : {"calls", "awaits", "holds", "sends"}, ch : Nat]
    BY <2>1, <2>3
  <2>9. ConsoleTypeOK'
    BY <1>1, <2>1, <2>3, <2>8 DEF ConsoleInv, ConsoleTypeOK
  <2>10. NotifierInv'
    <3>1. notifier'.at = "holds"
      BY <2>1
    <3>2. QED
      BY <1>1, <1>4, <3>1 DEF ConsoleInv, NotifierInv
  <2>11. QED
    BY <2>7, <2>9, <2>10 DEF ConsoleInv
<1>7. CASE event_q.len = 0
  <2>1. notifier' = [at |-> "awaits", ch |-> NoChar] /\ event_q' = event_q
    BY <1>7 DEF NotifierAwaits
  <2>2. Holds' = <<>>
    BY <2>1 DEF Holds
  <2>3. Drained' = Drained
    BY <1>1, <1>3, <2>1, <2>2 DEF Drained
  <2>4. PathInv' /\ OrderInv'
    BY <1>1, <1>5, <2>3, PathStays DEF ConsoleInv
  <2>5. notifier' \in [at : {"calls", "awaits", "holds", "sends"}, ch : Nat]
    BY <2>1 DEF NoChar
  <2>6. ConsoleTypeOK'
    BY <1>1, <2>1, <2>5 DEF ConsoleInv, ConsoleTypeOK
  <2>7. NotifierInv'
    <3>1. notifier'.at = "awaits" /\ notifier'.ch = NoChar /\ event_q'.len = 0
      BY <1>7, <2>1
    <3>2. QED
      BY <1>1, <1>4, <3>1 DEF ConsoleInv, NotifierInv
  <2>8. QED
    BY <2>4, <2>6, <2>7 DEF ConsoleInv
<1>8. QED
  BY <1>6, <1>7

\* With a server the character stays with the notifier; without one it was the
\* first of the path, which it leaves.
LEMMA ForwardsKeepsIt == ConsoleInv /\ NotifierForwards => ConsoleInv'
<1> SUFFICES ASSUME ConsoleInv, NotifierForwards PROVE ConsoleInv'
  OBVIOUS
<1>1. /\ notifier.at = "holds"
      /\ UNCHANGED <<typed, rx_fifo, event_q, burst, registered, interrupts, got>>
  BY DEF NotifierForwards, kernelVars, consoleVars
<1>2. \A i \in DOMAIN inbox : inbox[i] # "RXIC"
  BY <1>1 DEF ConsoleInv, NotifierInv
<1>3. PICK x \in Nat : x = notifier.ch
  BY DEF ConsoleInv, ConsoleTypeOK
<1>4. Holds = <<x>> /\ <<x>> \in Seq(Nat)
  BY <1>1, <1>3 DEF Holds
<1>5. CASE registered
  <2>1. /\ notifier' = [notifier EXCEPT !.at = "sends"] /\ dropped' = dropped
        /\ inbox' = Append(inbox, "RXIC")
    BY <1>5 DEF NotifierForwards
  <2>2. /\ inbox' \in Seq({"RXIC", "getc", "poll"})
        /\ \A i, j \in DOMAIN inbox' : inbox'[i] = "RXIC" /\ inbox'[j] = "RXIC" => i = j
    BY <1>2, <2>1, InboxGrows DEF ConsoleInv
  <2>3. /\ notifier' \in [at : {"calls", "awaits", "holds", "sends"}, ch : Nat]
        /\ notifier'.at = "sends" /\ notifier'.ch = x
    BY <1>3, <2>1 DEF ConsoleInv, ConsoleTypeOK
  <2>4. Holds' = <<x>>
    BY <2>3 DEF Holds
  <2>5. Drained' = Drained
    BY <1>1, <1>4, <2>4 DEF Drained
  <2>6. Len(got') \in Nat /\ Len(got) <= Len(got')
    <3>1. Len(got) \in Nat
      BY PathCounts DEF ConsoleInv
    <3>2. QED
      BY <1>1, <3>1
  <2>7. PathInv' /\ OrderInv'
    BY <1>1, <2>1, <2>5, <2>6, PathStays DEF ConsoleInv
  <2>8. ConsoleTypeOK'
    BY <1>1, <2>1, <2>2, <2>3 DEF ConsoleInv, ConsoleTypeOK
  <2>9. NotifierInv'
    BY <1>1, <1>5, <2>2, <2>3 DEF NotifierInv
  <2>10. QED
    BY <2>7, <2>8, <2>9 DEF ConsoleInv
<1>6. CASE ~registered
  <2>1. /\ notifier' = [at |-> "calls", ch |-> NoChar] /\ dropped' = dropped \cup {x}
        /\ inbox' = inbox
    BY <1>3, <1>6 DEF NotifierForwards
  <2>2. got = <<>> /\ interrupts.len = 0
    BY <1>6 DEF ConsoleInv, NotifierInv
  <2>3. /\ RingOK(interrupts, QUEUELENGTH) /\ QUEUELENGTH \in Nat \ {0}
        /\ Contents(event_q) \in Seq(Nat) /\ rx_fifo \in Seq(Nat)
    BY ConsoleAssumption, PathFacts DEF ConsoleInv, ConsoleTypeOK
  <2>4. Contents(interrupts) = <<>>
    BY <2>2, <2>3, ContentsFacts, EmptySeq
  <2>5. <<>> \in Seq(Nat) /\ <<>> \o <<>> = <<>> /\ <<>> \o <<x>> = <<x>>
        /\ <<>> \o Contents(event_q) = Contents(event_q)
    <3>1. <<>> \in Seq(Nat)
      OBVIOUS
    <3>2. QED
      BY <1>4, <2>3, <3>1, ConcatEmptySeq
  <2>6. Drained = <<x>> \o Contents(event_q)
    BY <1>4, <2>2, <2>4, <2>5 DEF Drained
  <2>7. Holds' = <<>>
    BY <2>1 DEF Holds
  <2>8. Drained' = Contents(event_q)
    BY <1>1, <2>2, <2>4, <2>5, <2>7 DEF Drained
  <2>9. PICK p \in Seq(Nat) : p = Contents(event_q) \o rx_fifo
    BY <2>3, ConcatProperties
  <2>10. Path' = p /\ Path = <<x>> \o p
    BY <1>1, <1>4, <2>3, <2>6, <2>8, <2>9, ConcatAssociative DEF Path
  <2>11. /\ Len(Path) = Len(p) + 1 /\ Len(p) \in Nat
         /\ Range(Path) = {x} \cup Range(p) /\ Distinct(p) /\ x \notin Range(p)
    <3>1. Len(<<x>>) = 1 /\ Range(<<x>>) = {x}
      BY DEF Range
    <3>2. Distinct(<<x>> \o p)
      BY <2>10 DEF ConsoleInv, PathInv
    <3>3. LET u == <<x>> \o p
          IN  /\ Len(u) = Len(<<x>>) + Len(p) /\ Len(p) \in Nat
              /\ Range(u) = Range(<<x>>) \cup Range(p)
              /\ Distinct(p) /\ Range(<<x>>) \cap Range(p) = {}
      BY <1>4, <3>2, Joined
    <3>4. QED
      BY <2>10, <3>1, <3>3
  <2>12. /\ IsFiniteSet(dropped) /\ Cardinality(dropped) \in Nat /\ typed \in Nat
         /\ MaxUnread \in Nat
    BY PathCounts, ConsoleAssumption DEF ConsoleInv, ConsoleTypeOK
  <2>13. PathInv'
    <3>1. Range(Path) \cap dropped = {} /\ Range(Path) \cup dropped = 1..typed
          /\ Len(Path) + Cardinality(dropped) = typed /\ Len(Path) - Len(got) <= MaxUnread
      BY DEF ConsoleInv, PathInv
    <3>2. Cardinality(dropped') = Cardinality(dropped) + 1
      <4>1. x \notin dropped
        BY <2>11, <3>1
      <4>2. QED
        BY <2>1, <2>12, <4>1, FS_AddElement
    <3>3. Range(Path') \cap dropped' = {} /\ Range(Path') \cup dropped' = 1..typed
      BY <2>1, <2>10, <2>11, <3>1
    <3>4. Len(Path') + Cardinality(dropped') = typed
      BY <2>10, <2>11, <2>12, <3>1, <3>2
    <3>5. Len(Path') - Len(got) <= MaxUnread
      <4>1. Len(got) = 0
        BY <2>2
      <4>2. QED
        BY <2>10, <2>11, <2>12, <3>1, <4>1
    <3>6. QED
      BY <1>1, <2>10, <2>11, <3>3, <3>4, <3>5 DEF PathInv
  <2>14. OrderInv'
    <3>1. PICK m \in Nat : m = Len(Contents(event_q))
      BY <2>3, LenProperties
    <3>2. Len(Drained) = m + 1 /\ Len(Drained') = m
      <4>1. Len(<<x>>) = 1
        OBVIOUS
      <4>2. Len(Drained) = 1 + m
        BY <1>4, <2>3, <2>6, <3>1, <4>1, ConcatProperties
      <4>3. QED
        BY <2>8, <3>1, <4>2
    <3>3. InOrder(<<x>> \o p, m + 1, burst)
      BY <2>10, <3>2 DEF ConsoleInv, OrderInv
    <3>4. InOrder(p, m, burst)
      BY <3>3, OrderLeaves
    <3>5. QED
      BY <1>1, <2>10, <3>2, <3>4 DEF OrderInv
  <2>15. ConsoleTypeOK'
    <3>1. notifier' \in [at : {"calls", "awaits", "holds", "sends"}, ch : Nat]
      BY <2>1 DEF NoChar
    <3>2. dropped' \in SUBSET Nat
      BY <2>1 DEF ConsoleInv, ConsoleTypeOK
    <3>3. QED
      BY <1>1, <2>1, <3>1, <3>2 DEF ConsoleInv, ConsoleTypeOK
  <2>16. NotifierInv'
    <3>1. notifier'.at = "calls" /\ notifier'.ch = NoChar
      BY <2>1
    <3>2. QED
      BY <1>1, <1>2, <2>1, <3>1 DEF ConsoleInv, NotifierInv
  <2>17. QED
    BY <2>13, <2>14, <2>15, <2>16 DEF ConsoleInv
<1>7. QED
  BY <1>5, <1>6

\* The interrupt moves the FIFO into the event queue, its first character last
\* or to the notifier.
LEMMA IRQKeepsIt == RingsHold /\ ConsoleInv /\ ReceiveIRQ => ConsoleInv'
<1> SUFFICES ASSUME RingsHold, ConsoleInv, ReceiveIRQ PROVE ConsoleInv'
  OBVIOUS
<1> DEFINE queued == PutAll(event_q, Tail(rx_fifo))
<1>1. /\ rx_fifo # <<>> /\ rx_fifo' = <<>>
      /\ event_q' = IF notifier.at = "awaits" THEN queued ELSE Put(queued, Head(rx_fifo))
      /\ notifier' = IF notifier.at = "awaits" THEN [at |-> "holds", ch |-> Head(rx_fifo)]
                     ELSE notifier
      /\ burst' = [c \in Chars |-> IF c \in Range(rx_fifo) THEN Range(rx_fifo) ELSE burst[c]]
      /\ UNCHANGED <<typed, registered, inbox, interrupts, got, dropped>>
  BY DEF ReceiveIRQ, consoleVars
<1>2. PICK x \in Nat, t \in Seq(Nat) : x = Head(rx_fifo) /\ t = Tail(rx_fifo)
  BY <1>1, PathFacts, TailFacts DEF ConsoleInv
<1>3. /\ rx_fifo \in Seq(Nat) /\ rx_fifo = <<x>> \o t /\ <<x>> \in Seq(Nat)
      /\ Len(t) \in Nat /\ Len(rx_fifo) = Len(t) + 1
  <2>1. rx_fifo \in Seq(Nat) /\ <<x>> \in Seq(Nat) /\ Len(<<x>>) = 1 /\ <<x>>[1] = x
    BY PathFacts DEF ConsoleInv
  <2>2. PICK n \in Nat \ {0} : n = Len(rx_fifo)
    BY <1>1, <2>1, LenProperties, EmptySeq
  <2>3. Len(t) = n - 1 /\ (\A i \in 1..(n - 1) : t[i] = rx_fifo[i + 1]) /\ x = rx_fifo[1]
    BY <1>1, <1>2, <2>1, <2>2, HeadTailProperties
  <2>4. 1 + (n - 1) = n
    OBVIOUS
  <2>5. /\ <<x>> \o t \in Seq(Nat) /\ Len(<<x>> \o t) = n
        /\ \A i \in 1..n : (<<x>> \o t)[i] = IF i <= 1 THEN <<x>>[i] ELSE t[i - 1]
    BY <2>1, <2>3, <2>4, ConcatProperties
  <2>6. ASSUME NEW i \in 1..n PROVE rx_fifo[i] = (<<x>> \o t)[i]
    <3>1. CASE i = 1
      BY <2>1, <2>3, <2>5, <3>1
    <3>2. CASE i # 1
      <4>1. i - 1 \in 1..(n - 1) /\ (i - 1) + 1 = i /\ ~(i <= 1)
        BY <3>2
      <4>2. QED
        BY <2>3, <2>5, <4>1
    <3>3. QED
      BY <3>1, <3>2
  <2>7. rx_fifo = <<x>> \o t
    BY <2>1, <2>2, <2>5, <2>6, SeqEqual
  <2>8. QED
    BY <2>1, <2>2, <2>3, <2>7
<1>4. /\ RingOK(event_q, EventSlots) /\ EventSlots \in Nat \ {0} /\ event_q.len \in Nat
      /\ got \o Contents(interrupts) \in Seq(Nat) /\ Contents(event_q) \in Seq(Nat)
      /\ Drained \in Seq(Nat) /\ Holds \in Seq(Nat) /\ got \o Contents(interrupts) \o Holds \in Seq(Nat)
  BY ConsoleAssumption, PathFacts, PathCounts DEF ConsoleInv, ConsoleTypeOK
<1>5. event_q.len + (Len(t) + 1) <= EventSlots
  <2>1. interrupts.len + Len(Holds) + event_q.len + Len(rx_fifo) <= EventSlots
    BY Fits DEF ConsoleInv
  <2>2. interrupts.len \in Nat /\ Len(Holds) \in Nat
    BY PathCounts DEF ConsoleInv
  <2>3. QED
    BY <1>3, <1>4, <2>1, <2>2
<1>6. /\ RingOK(queued, EventSlots) /\ Contents(queued) = Contents(event_q) \o t
      /\ queued.len = event_q.len + Len(t)
  <2>1. event_q.len + Len(t) <= EventSlots
    BY <1>3, <1>4, <1>5
  <2>2. RingOK(queued, EventSlots) /\ Contents(queued) = Contents(event_q) \o t
    BY <1>2, <1>4, <2>1, PutAllJoins
  <2>3. queued.len = event_q.len + Len(t)
    BY <1>2 DEF PutAll
  <2>4. QED
    BY <2>2, <2>3
<1> HIDE DEF queued
<1>7. /\ RingOK(Put(queued, x), EventSlots)
      /\ Contents(Put(queued, x)) = (Contents(event_q) \o t) \o <<x>>
  <2>1. queued.len < EventSlots
    BY <1>3, <1>4, <1>5, <1>6
  <2>2. QED
    BY <1>4, <1>6, <2>1, PutJoins
<1>8. PICK r \in {rx_fifo, Tail(rx_fifo) \o <<Head(rx_fifo)>>} : Drained' = Drained \o r
  <2>1. CASE notifier.at = "awaits"
    <3>1. event_q.len = 0
      BY <2>1 DEF ConsoleInv, NotifierInv
    <3>2. Contents(event_q) = <<>>
      BY <1>4, <3>1, ContentsFacts, EmptySeq
    <3>3. Holds = <<>> /\ Holds' = <<x>>
      BY <1>1, <1>2, <2>1 DEF Holds
    <3>4. PICK a \in Seq(Nat) : a = got \o Contents(interrupts)
      BY <1>4
    <3>5. Drained = (a \o <<>>) \o <<>>
      BY <3>2, <3>3, <3>4 DEF Drained
    <3>6. Drained' = (a \o <<x>>) \o (<<>> \o t)
      BY <1>1, <1>6, <2>1, <3>2, <3>3, <3>4 DEF Drained
    <3>7. a \o <<>> = a /\ <<>> \o t = t
      BY ConcatEmptySeq
    <3>8. (a \o <<x>>) \o t = a \o (<<x>> \o t)
      BY <1>3, ConcatAssociative
    <3>9. Drained' = Drained \o rx_fifo
      BY <1>3, <3>5, <3>6, <3>7, <3>8
    <3>10. QED
      BY <3>9
  <2>2. CASE notifier.at # "awaits"
    <3>1. Holds' = Holds
      BY <1>1, <2>2 DEF Holds
    <3>2. PICK a \in Seq(Nat), b \in Seq(Nat) :
            a = got \o Contents(interrupts) \o Holds /\ b = Contents(event_q)
      BY <1>4
    <3>3. Drained = a \o b
      BY <3>2 DEF Drained
    <3>4. Drained' = a \o ((b \o t) \o <<x>>)
      BY <1>1, <1>2, <1>7, <2>2, <3>1, <3>2 DEF Drained
    <3>5. (b \o t) \o <<x>> = b \o (t \o <<x>>)
      <4>1. PICK y \in Seq(Nat) : y = <<x>>
        BY <1>3
      <4>2. (b \o t) \o y = b \o (t \o y)
        BY Regrouped
      <4>3. QED
        BY <4>1, <4>2
    <3>6. t \o <<x>> \in Seq(Nat)
      BY <1>3, ConcatProperties
    <3>7. (a \o b) \o (t \o <<x>>) = a \o (b \o (t \o <<x>>))
      <4>1. PICK y \in Seq(Nat) : y = t \o <<x>>
        BY <3>6
      <4>2. (a \o b) \o y = a \o (b \o y)
        BY Regrouped
      <4>3. QED
        BY <4>1, <4>2
    <3>8. Drained' = Drained \o (t \o <<x>>)
      BY <3>3, <3>4, <3>5, <3>7
    <3>9. QED
      BY <1>2, <3>8
  <2>3. QED
    BY <2>1, <2>2
<1>9. ConsoleTypeOK'
  <2>1. RingOK(event_q', EventSlots)
    BY <1>1, <1>2, <1>6, <1>7
  <2>2. notifier' \in [at : {"calls", "awaits", "holds", "sends"}, ch : Nat]
    BY <1>1, <1>2 DEF ConsoleInv, ConsoleTypeOK
  <2>3. burst' \in [Chars -> SUBSET Nat]
    <3>1. Range(rx_fifo) \subseteq Nat
      BY <1>3, RangeTyped
    <3>2. QED
      BY <1>1, <3>1 DEF ConsoleInv, ConsoleTypeOK
  <2>4. rx_fifo' \in Seq(Nat) /\ Len(rx_fifo') <= RxFifo
    <3>1. RxFifo \in Nat
      BY ConsoleAssumption
    <3>2. QED
      BY <1>1, <3>1
  <2>5. QED
    BY <1>1, <2>1, <2>2, <2>3, <2>4 DEF ConsoleInv, ConsoleTypeOK
<1>10. NotifierInv'
  <2>1. CASE notifier.at = "awaits"
    <3>1. notifier'.at = "holds" /\ \A i \in DOMAIN inbox : inbox[i] # "RXIC"
      BY <1>1, <2>1 DEF ConsoleInv, NotifierInv
    <3>2. QED
      BY <1>1, <3>1 DEF ConsoleInv, NotifierInv
  <2>2. CASE notifier.at # "awaits"
    BY <1>1, <2>2 DEF ConsoleInv, NotifierInv
  <2>3. QED
    BY <2>1, <2>2
<1>11. Path' = Drained \o r
  <2>1. Drained' \in Seq(Nat)
    <3>1. r \in Seq(Nat)
      <4>1. t \o <<x>> \in Seq(Nat)
        BY <1>3, ConcatProperties
      <4>2. Tail(rx_fifo) \o <<Head(rx_fifo)>> = t \o <<x>>
        BY <1>2
      <4>3. QED
        BY <1>3, <4>1, <4>2
    <3>2. QED
      BY <1>4, <1>8, <3>1, ConcatProperties
  <2>2. Drained' \o <<>> = Drained'
    BY <2>1, ConcatEmptySeq
  <2>3. QED
    BY <1>1, <1>8, <2>2 DEF Path
<1>12. /\ InOrder(Path', Len(Drained) + Len(rx_fifo), burst')
       /\ Distinct(Path') /\ Range(Path') = Range(Path) /\ Len(Path') = Len(Path)
  <2>1. /\ Distinct(Drained \o rx_fifo) /\ Range(Drained \o rx_fifo) \subseteq Chars
        /\ InOrder(Drained \o rx_fifo, Len(Drained), burst)
        /\ burst \in [Chars -> SUBSET Nat]
    BY PathCounts DEF ConsoleInv, PathInv, OrderInv, Path, ConsoleTypeOK
  <2>2. LET drained == [c \in Chars |-> IF c \in Range(rx_fifo) THEN Range(rx_fifo) ELSE burst[c]]
        IN  /\ InOrder(Drained \o r, Len(Drained) + Len(rx_fifo), drained)
            /\ Distinct(Drained \o r) /\ Range(Drained \o r) = Range(Drained \o rx_fifo)
            /\ Len(Drained \o r) = Len(Drained \o rx_fifo)
    <3>1. PICK p \in Seq(Nat), q \in Seq(Nat), b \in [Chars -> SUBSET Nat] :
            p = Drained /\ q = rx_fifo /\ b = burst
      BY <1>3, <1>4, <2>1
    <3>2. /\ q # <<>> /\ Distinct(p \o q) /\ Range(p \o q) \subseteq Chars
          /\ InOrder(p \o q, Len(p), b) /\ r \in {q, Tail(q) \o <<Head(q)>>}
      BY <1>1, <1>8, <2>1, <3>1
    <3>3. LET drained == [c \in Chars |-> IF c \in Range(q) THEN Range(q) ELSE b[c]]
          IN  /\ InOrder(p \o r, Len(p) + Len(q), drained)
              /\ Distinct(p \o r) /\ Range(p \o r) = Range(p \o q) /\ Len(p \o r) = Len(p \o q)
      BY <3>2, OrderOfBurst
    <3>4. QED
      BY <3>1, <3>3
  <2>3. QED
    BY <1>1, <1>11, <2>2 DEF Path
<1>13. PathInv'
  BY <1>1, <1>12 DEF ConsoleInv, PathInv
<1>14. OrderInv'
  <2>1. Len(Drained') = Len(Drained) + Len(rx_fifo)
    <3>1. Path' = Drained'
      BY <1>8, <1>11
    <3>2. Len(Path) = Len(Drained) + Len(rx_fifo)
      BY PathCounts DEF ConsoleInv
    <3>3. QED
      BY <1>12, <3>1, <3>2
  <2>2. QED
    BY <1>12, <2>1 DEF OrderInv
<1>15. QED
  BY <1>9, <1>10, <1>13, <1>14 DEF ConsoleInv

LEMMA ConsoleStep ==
  ASSUME RingsHold
  PROVE  ConsoleInv /\ [CNext]_conVars => ConsoleInv'
<1> SUFFICES ASSUME ConsoleInv, [CNext]_conVars PROVE ConsoleInv'
  OBVIOUS
<1>1. CASE Type
  BY <1>1, TypeKeepsIt
<1>2. CASE ReceiveIRQ
  BY <1>2, IRQKeepsIt
<1>3. CASE NotifierAwaits
  BY <1>3, AwaitsKeepsIt
<1>4. CASE NotifierForwards
  BY <1>4, ForwardsKeepsIt
<1>5. CASE ServerRegisters
  BY <1>5, RegistersKeepsIt
<1>6. CASE ServeRXIC
  BY <1>6, RXICKeepsIt
<1>7. CASE ServeGetc
  BY <1>7, GetcKeepsIt
<1>8. CASE ServePeek
  BY <1>8, PeekKeepsIt
<1>9. CASE ReaderGets
  BY <1>9, AsksKeepsIt DEF ReaderGets
<1>10. CASE ReaderPolls
  BY <1>10, AsksKeepsIt DEF ReaderPolls
<1>11. CASE UNCHANGED conVars
  <2>1. /\ UNCHANGED <<typed, rx_fifo, event_q, notifier, interrupts, got, dropped, burst>>
        /\ UNCHANGED <<registered, inbox>>
    BY <1>11 DEF conVars
  <2>2. PathInv' /\ OrderInv'
    BY <2>1, SamePath
  <2>3. ConsoleTypeOK' /\ NotifierInv'
    BY <2>1 DEF ConsoleInv, ConsoleTypeOK, NotifierInv
  <2>4. QED
    BY <2>2, <2>3 DEF ConsoleInv
<1>12. QED
  BY <1>1, <1>2, <1>3, <1>4, <1>5, <1>6, <1>7, <1>8, <1>9, <1>10, <1>11 DEF CNext

\* For rings that hold what is typed ahead: the path has every character that was
\* typed and not dropped, once, in order up to the bursts of the interrupt.
THEOREM ConsoleInvariant ==
  ASSUME RingsHold
  PROVE  CSpec => []ConsoleInv
<1>1. CInit => ConsoleInv
  BY ConsoleInitially
<1>2. ConsoleInv /\ [CNext]_conVars => ConsoleInv'
  BY ConsoleStep
<1>3. QED
  BY <1>1, <1>2, PTL DEF CSpec

-----------------------------------------------------------------------------
(* The properties. *)

LEMMA JoinedDistinct ==
  ASSUME NEW s \in Seq(Nat), NEW t \in Seq(Nat)
  PROVE  LET w == s \o t
         IN  /\ Len(s) \in Nat /\ Len(t) \in Nat
             /\ DOMAIN w = 1..(Len(s) + Len(t)) /\ DOMAIN s = 1..Len(s)
             /\ \A i \in 1..Len(s) : w[i] = s[i]
             /\ Range(w) = Range(s) \cup Range(t)
             /\ Distinct(w) => Distinct(s) /\ Distinct(t) /\ Range(s) \cap Range(t) = {}
  BY Joined

\* No character is in two parts of the path, or twice in one.
LEMMA PartsOfPath ==
  ASSUME ConsoleInv
  PROVE  LET l == Contents(interrupts)
             e == Contents(event_q)
         IN  /\ Range(Path) = Range(got) \cup Range(l) \cup Range(Holds) \cup Range(e) \cup Range(rx_fifo)
             /\ Distinct(got) /\ Distinct(l) /\ Distinct(e) /\ Distinct(rx_fifo)
             /\ Range(got) \cap Range(l) = {}
             /\ (Range(got) \cup Range(l)) \cap Range(Holds) = {}
             /\ (Range(got) \cup Range(l) \cup Range(Holds)) \cap Range(e) = {}
             /\ (Range(got) \cup Range(l) \cup Range(Holds) \cup Range(e)) \cap Range(rx_fifo) = {}
             /\ \A i \in DOMAIN got : i \in DOMAIN Path /\ Path[i] = got[i]
<1>1. PICK g \in Seq(Nat), l \in Seq(Nat), h \in Seq(Nat), e \in Seq(Nat), f \in Seq(Nat) :
        g = got /\ l = Contents(interrupts) /\ h = Holds /\ e = Contents(event_q) /\ f = rx_fifo
  BY PathFacts DEF ConsoleInv
<1>2. PICK a \in Seq(Nat), b \in Seq(Nat), d \in Seq(Nat), p \in Seq(Nat) :
        a = g \o l /\ b = a \o h /\ d = b \o e /\ p = d \o f
  <2>1. g \o l \in Seq(Nat)
    BY ConcatProperties
  <2>2. (g \o l) \o h \in Seq(Nat)
    BY <2>1, ConcatProperties
  <2>3. ((g \o l) \o h) \o e \in Seq(Nat)
    BY <2>2, ConcatProperties
  <2>4. (((g \o l) \o h) \o e) \o f \in Seq(Nat)
    BY <2>3, ConcatProperties
  <2>5. QED
    BY <2>1, <2>2, <2>3, <2>4
<1>3. Path = p /\ Distinct(p)
  BY <1>1, <1>2 DEF ConsoleInv, PathInv, Path, Drained
<1>4. /\ Range(p) = Range(d) \cup Range(f) /\ Distinct(d) /\ Distinct(f)
      /\ Range(d) \cap Range(f) = {}
      /\ DOMAIN p = 1..(Len(d) + Len(f)) /\ DOMAIN d = 1..Len(d)
      /\ Len(d) \in Nat /\ Len(f) \in Nat /\ \A i \in 1..Len(d) : p[i] = d[i]
  <2>1. p = d \o f /\ Distinct(p)
    BY <1>2, <1>3
  <2>2. LET w == d \o f
        IN  /\ Len(d) \in Nat /\ Len(f) \in Nat
            /\ DOMAIN w = 1..(Len(d) + Len(f)) /\ DOMAIN d = 1..Len(d)
            /\ \A i \in 1..Len(d) : w[i] = d[i]
            /\ Range(w) = Range(d) \cup Range(f)
            /\ Distinct(w) => Distinct(d) /\ Distinct(f) /\ Range(d) \cap Range(f) = {}
    BY JoinedDistinct
  <2>3. QED
    BY <2>1, <2>2
<1>5. /\ Range(d) = Range(b) \cup Range(e) /\ Distinct(b) /\ Distinct(e)
      /\ Range(b) \cap Range(e) = {}
      /\ DOMAIN d = 1..(Len(b) + Len(e)) /\ DOMAIN b = 1..Len(b)
      /\ Len(b) \in Nat /\ Len(e) \in Nat /\ \A i \in 1..Len(b) : d[i] = b[i]
  <2>1. d = b \o e /\ Distinct(d)
    BY <1>2, <1>4
  <2>2. LET w == b \o e
        IN  /\ Len(b) \in Nat /\ Len(e) \in Nat
            /\ DOMAIN w = 1..(Len(b) + Len(e)) /\ DOMAIN b = 1..Len(b)
            /\ \A i \in 1..Len(b) : w[i] = b[i]
            /\ Range(w) = Range(b) \cup Range(e)
            /\ Distinct(w) => Distinct(b) /\ Distinct(e) /\ Range(b) \cap Range(e) = {}
    BY JoinedDistinct
  <2>3. QED
    BY <2>1, <2>2
<1>6. /\ Range(b) = Range(a) \cup Range(h) /\ Distinct(a) /\ Range(a) \cap Range(h) = {}
      /\ DOMAIN b = 1..(Len(a) + Len(h)) /\ DOMAIN a = 1..Len(a)
      /\ Len(a) \in Nat /\ Len(h) \in Nat /\ \A i \in 1..Len(a) : b[i] = a[i]
  <2>1. b = a \o h /\ Distinct(b)
    BY <1>2, <1>5
  <2>2. LET w == a \o h
        IN  /\ Len(a) \in Nat /\ Len(h) \in Nat
            /\ DOMAIN w = 1..(Len(a) + Len(h)) /\ DOMAIN a = 1..Len(a)
            /\ \A i \in 1..Len(a) : w[i] = a[i]
            /\ Range(w) = Range(a) \cup Range(h)
            /\ Distinct(w) => Distinct(a) /\ Distinct(h) /\ Range(a) \cap Range(h) = {}
    BY JoinedDistinct
  <2>3. QED
    BY <2>1, <2>2
<1>7. /\ Range(a) = Range(g) \cup Range(l) /\ Distinct(g) /\ Distinct(l)
      /\ Range(g) \cap Range(l) = {}
      /\ DOMAIN a = 1..(Len(g) + Len(l)) /\ DOMAIN g = 1..Len(g)
      /\ Len(g) \in Nat /\ Len(l) \in Nat /\ \A i \in 1..Len(g) : a[i] = g[i]
  <2>1. a = g \o l /\ Distinct(a)
    BY <1>2, <1>6
  <2>2. LET w == g \o l
        IN  /\ Len(g) \in Nat /\ Len(l) \in Nat
            /\ DOMAIN w = 1..(Len(g) + Len(l)) /\ DOMAIN g = 1..Len(g)
            /\ \A i \in 1..Len(g) : w[i] = g[i]
            /\ Range(w) = Range(g) \cup Range(l)
            /\ Distinct(w) => Distinct(g) /\ Distinct(l) /\ Range(g) \cap Range(l) = {}
    BY JoinedDistinct
  <2>3. QED
    BY <2>1, <2>2
<1>8. ASSUME NEW i \in DOMAIN g PROVE i \in DOMAIN p /\ p[i] = g[i]
  <2>1. i \in DOMAIN a /\ a[i] = g[i]
    BY <1>7
  <2>2. i \in DOMAIN b /\ b[i] = a[i]
    BY <1>6, <2>1
  <2>3. i \in DOMAIN d /\ d[i] = b[i]
    <3>1. PICK m \in Nat, n \in Nat : m = Len(b) /\ n = Len(e)
      BY <1>5
    <3>2. \A j \in 1..m : j \in 1..(m + n)
      OBVIOUS
    <3>3. i \in 1..m
      BY <1>6, <2>2, <3>1, <1>5
    <3>4. QED
      BY <1>5, <3>1, <3>2, <3>3
  <2>4. i \in DOMAIN p /\ p[i] = d[i]
    <3>1. PICK m \in Nat, n \in Nat : m = Len(d) /\ n = Len(f)
      BY <1>4
    <3>2. \A j \in 1..m : j \in 1..(m + n)
      OBVIOUS
    <3>3. i \in 1..m
      BY <1>4, <1>5, <2>3, <3>1
    <3>4. QED
      BY <1>4, <3>1, <3>2, <3>3
  <2>5. QED
    BY <2>1, <2>2, <2>3, <2>4
<1>9. /\ Range(p) = Range(g) \cup Range(l) \cup Range(h) \cup Range(e) \cup Range(f)
      /\ Range(g) \cap Range(l) = {}
      /\ (Range(g) \cup Range(l)) \cap Range(h) = {}
      /\ (Range(g) \cup Range(l) \cup Range(h)) \cap Range(e) = {}
      /\ (Range(g) \cup Range(l) \cup Range(h) \cup Range(e)) \cap Range(f) = {}
  BY <1>4, <1>5, <1>6, <1>7
<1>10. QED
  BY <1>1, <1>3, <1>4, <1>5, <1>7, <1>8, <1>9

LEMMA SeqPlaces ==
  ASSUME NEW s \in Seq(Nat), Distinct(s), NEW c
  PROVE  LET found == {j \in DOMAIN s : s[j] = c}
         IN  (c \notin Range(s) => found = {}) /\ (c \in Range(s) => \E k : found = {k})
<1>1. c \notin Range(s) => {j \in DOMAIN s : s[j] = c} = {}
  BY DEF Range
<1>2. ASSUME c \in Range(s) PROVE \E k : {j \in DOMAIN s : s[j] = c} = {k}
  <2>1. PICK k \in DOMAIN s : s[k] = c
    BY <1>2 DEF Range
  <2>2. {j \in DOMAIN s : s[j] = c} = {k}
    BY <2>1 DEF Distinct
  <2>3. QED
    BY <2>2
<1>3. QED
  BY <1>1, <1>2

LEMMA InRing ==
  ASSUME NEW n \in Nat \ {0}, NEW r, RingOK(r, n), Distinct(Contents(r)), NEW c
  PROVE  LET found == {j \in Positions(r) : r.q[j] = c}
         IN  /\ c \notin Range(Contents(r)) => found = {}
             /\ c \in Range(Contents(r)) => \E k : found = {k}
<1>1. c \notin Range(Contents(r)) => {j \in Positions(r) : r.q[j] = c} = {}
  BY RingPlaces
<1>2. ASSUME c \in Range(Contents(r)) PROVE \E k : {j \in Positions(r) : r.q[j] = c} = {k}
  <2>1. PICK i \in 1..r.len : Contents(r)[i] = c
    BY <1>2, ContentsFacts DEF Range
  <2>2. {j \in Positions(r) : r.q[j] = c} = {Slot(r.head, i, n)}
    BY <2>1, RingPlaces
  <2>3. QED
    BY <2>2
<1>3. QED
  BY <1>1, <1>2

LEMMA OnePlace == ConsoleInv => EachCharInOnePlace
<1> SUFFICES ASSUME ConsoleInv, NEW c \in 1..typed PROVE Cardinality(Places(c)) = 1
  BY DEF EachCharInOnePlace
<1>1. PICK uart, kern, ntf, srv, rd, drp :
        /\ uart = {j \in DOMAIN rx_fifo : rx_fifo[j] = c}
        /\ kern = {j \in Positions(event_q) : event_q.q[j] = c}
        /\ ntf = {j \in {1} : notifier.ch = c}
        /\ srv = {j \in Positions(interrupts) : interrupts.q[j] = c}
        /\ rd = {j \in DOMAIN got : got[j] = c}
        /\ drp = {j \in {1} : c \in dropped}
  OBVIOUS
<1>2. Places(c) = {<<"uart", i>> : i \in uart} \cup {<<"kernel", i>> : i \in kern}
                  \cup {<<"notifier", i>> : i \in ntf} \cup {<<"server", i>> : i \in srv}
                  \cup {<<"read", i>> : i \in rd} \cup {<<"dropped", i>> : i \in drp}
  BY <1>1 DEF Places
<1>3. /\ RingOK(event_q, EventSlots) /\ EventSlots \in Nat \ {0}
      /\ RingOK(interrupts, QUEUELENGTH) /\ QUEUELENGTH \in Nat \ {0}
      /\ got \in Seq(Nat) /\ rx_fifo \in Seq(Nat) /\ notifier.ch \in Nat
      /\ notifier.at \in {"calls", "awaits", "holds", "sends"}
  BY ConsoleAssumption DEF ConsoleInv, ConsoleTypeOK
<1>4. /\ (c \notin Range(rx_fifo) => uart = {}) /\ (c \in Range(rx_fifo) => \E k : uart = {k})
      /\ (c \notin Range(got) => rd = {}) /\ (c \in Range(got) => \E k : rd = {k})
  <2>1. Distinct(rx_fifo) /\ Distinct(got)
    BY PartsOfPath
  <2>2. PICK f \in Seq(Nat), g \in Seq(Nat) : f = rx_fifo /\ g = got
    BY <1>3
  <2>3. LET found == {j \in DOMAIN f : f[j] = c}
        IN  (c \notin Range(f) => found = {}) /\ (c \in Range(f) => \E k : found = {k})
    BY <2>1, <2>2, SeqPlaces
  <2>4. LET found == {j \in DOMAIN g : g[j] = c}
        IN  (c \notin Range(g) => found = {}) /\ (c \in Range(g) => \E k : found = {k})
    BY <2>1, <2>2, SeqPlaces
  <2>5. QED
    BY <1>1, <2>2, <2>3, <2>4
<1>5. /\ c \notin Range(Contents(event_q)) => kern = {}
      /\ c \in Range(Contents(event_q)) => \E k : kern = {k}
      /\ c \notin Range(Contents(interrupts)) => srv = {}
      /\ c \in Range(Contents(interrupts)) => \E k : srv = {k}
  BY <1>1, <1>3, PartsOfPath, InRing
<1>6. (c \notin Range(Holds) => ntf = {}) /\ (c \in Range(Holds) => \E k : ntf = {k})
  <2>1. CASE notifier.at \in {"holds", "sends"}
    <3>1. Range(Holds) = {notifier.ch}
      BY <2>1 DEF Holds, Range
    <3>2. notifier.ch = c => ntf = {1}
      BY <1>1
    <3>3. notifier.ch # c => ntf = {}
      BY <1>1
    <3>4. QED
      BY <3>1, <3>2, <3>3
  <2>2. CASE notifier.at \in {"calls", "awaits"}
    <3>1. Range(Holds) = {}
      BY <2>2 DEF Holds, Range
    <3>2. notifier.ch = 0
      BY <2>2 DEF ConsoleInv, NotifierInv, NoChar
    <3>3. notifier.ch # c
      BY <3>2
    <3>4. QED
      BY <1>1, <3>1, <3>3
  <2>3. QED
    BY <1>3, <2>1, <2>2
<1>7. (c \notin dropped => drp = {}) /\ (c \in dropped => drp = {1})
  BY <1>1
<1>8. PICK R1, R2, R3, R4, R5 :
        /\ R1 = Range(rx_fifo) /\ R2 = Range(Contents(event_q)) /\ R3 = Range(Holds)
        /\ R4 = Range(Contents(interrupts)) /\ R5 = Range(got)
  OBVIOUS
<1>9. /\ c \in R1 \/ c \in R2 \/ c \in R3 \/ c \in R4 \/ c \in R5 \/ c \in dropped
      /\ c \in R1 => c \notin R2 /\ c \notin R3 /\ c \notin R4 /\ c \notin R5 /\ c \notin dropped
      /\ c \in R2 => c \notin R3 /\ c \notin R4 /\ c \notin R5 /\ c \notin dropped
      /\ c \in R3 => c \notin R4 /\ c \notin R5 /\ c \notin dropped
      /\ c \in R4 => c \notin R5 /\ c \notin dropped
      /\ c \in R5 => c \notin dropped
  <2>1. /\ Range(Path) = R5 \cup R4 \cup R3 \cup R2 \cup R1
        /\ R5 \cap R4 = {} /\ (R5 \cup R4) \cap R3 = {} /\ (R5 \cup R4 \cup R3) \cap R2 = {}
        /\ (R5 \cup R4 \cup R3 \cup R2) \cap R1 = {}
    BY <1>8, PartsOfPath
  <2>2. Range(Path) \cap dropped = {} /\ Range(Path) \cup dropped = 1..typed
    BY DEF ConsoleInv, PathInv
  <2>3. c \in Range(Path) \/ c \in dropped
    BY <2>2
  <2>4. QED
    BY <2>1, <2>2, <2>3
<1>10. \E x : Places(c) = {x}
  <2>1. CASE c \in R1
    <3>1. PICK k : uart = {k}
      BY <1>4, <1>8, <2>1
    <3>2. kern = {} /\ ntf = {} /\ srv = {} /\ rd = {} /\ drp = {}
      BY <1>4, <1>5, <1>6, <1>7, <1>8, <1>9, <2>1
    <3>3. Places(c) = {<<"uart", k>>}
      BY <1>2, <3>1, <3>2
    <3>4. QED
      BY <3>3
  <2>2. CASE c \in R2
    <3>1. PICK k : kern = {k}
      BY <1>5, <1>8, <2>2
    <3>2. uart = {} /\ ntf = {} /\ srv = {} /\ rd = {} /\ drp = {}
      BY <1>4, <1>5, <1>6, <1>7, <1>8, <1>9, <2>2
    <3>3. Places(c) = {<<"kernel", k>>}
      BY <1>2, <3>1, <3>2
    <3>4. QED
      BY <3>3
  <2>3. CASE c \in R3
    <3>1. PICK k : ntf = {k}
      BY <1>6, <1>8, <2>3
    <3>2. uart = {} /\ kern = {} /\ srv = {} /\ rd = {} /\ drp = {}
      BY <1>4, <1>5, <1>6, <1>7, <1>8, <1>9, <2>3
    <3>3. Places(c) = {<<"notifier", k>>}
      BY <1>2, <3>1, <3>2
    <3>4. QED
      BY <3>3
  <2>4. CASE c \in R4
    <3>1. PICK k : srv = {k}
      BY <1>5, <1>8, <2>4
    <3>2. uart = {} /\ kern = {} /\ ntf = {} /\ rd = {} /\ drp = {}
      BY <1>4, <1>5, <1>6, <1>7, <1>8, <1>9, <2>4
    <3>3. Places(c) = {<<"server", k>>}
      BY <1>2, <3>1, <3>2
    <3>4. QED
      BY <3>3
  <2>5. CASE c \in R5
    <3>1. PICK k : rd = {k}
      BY <1>4, <1>8, <2>5
    <3>2. uart = {} /\ kern = {} /\ ntf = {} /\ srv = {} /\ drp = {}
      BY <1>4, <1>5, <1>6, <1>7, <1>8, <1>9, <2>5
    <3>3. Places(c) = {<<"read", k>>}
      BY <1>2, <3>1, <3>2
    <3>4. QED
      BY <3>3
  <2>6. CASE c \in dropped
    <3>1. drp = {1}
      BY <1>7, <2>6
    <3>2. uart = {} /\ kern = {} /\ ntf = {} /\ srv = {} /\ rd = {}
      BY <1>4, <1>5, <1>6, <1>8, <1>9, <2>6
    <3>3. Places(c) = {<<"dropped", 1>>}
      BY <1>2, <3>1, <3>2
    <3>4. QED
      BY <3>3
  <2>7. QED
    BY <1>9, <2>1, <2>2, <2>3, <2>4, <2>5, <2>6
<1>11. QED
  BY <1>10, FS_Singleton

LEMMA BurstsOnly == ConsoleInv => InOrderUpToBurst
<1> SUFFICES ASSUME ConsoleInv, NEW i \in DOMAIN got, NEW j \in DOMAIN got, i < j, got[i] > got[j]
             PROVE  got[i] \in burst[got[j]] /\ \A c \in burst[got[j]] : got[j] <= c
  BY DEF InOrderUpToBurst
<1>1. /\ i \in DOMAIN Path /\ Path[i] = got[i]
      /\ j \in DOMAIN Path /\ Path[j] = got[j]
  BY PartsOfPath
<1>2. InOrder(Path, Len(Drained), burst)
  BY DEF ConsoleInv, OrderInv
<1>3. QED
  BY <1>1, <1>2 DEF InOrder

\* Every character typed is in one place, read once, or dropped before there was
\* a server (ExceptionASYNC, io_notifier, the console server), for rings and
\* bursts of any size.
THEOREM NoKeyIsLost ==
  ASSUME RingsHold
  PROVE  CSpec => []EachCharInOnePlace
<1>1. ConsoleInv => EachCharInOnePlace
  BY OnePlace
<1>2. QED
  BY <1>1, ConsoleInvariant, PTL

\* Only the first character of an interrupt is read late, and only after those
\* that the same interrupt drained (ExceptionASYNC).
THEOREM OnlyBurstsReorder ==
  ASSUME RingsHold
  PROVE  CSpec => []InOrderUpToBurst
<1>1. ConsoleInv => InOrderUpToBurst
  BY BurstsOnly
<1>2. QED
  BY <1>1, ConsoleInvariant, PTL
=============================================================================
