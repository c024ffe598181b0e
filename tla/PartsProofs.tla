----------------------------- MODULE PartsProofs -----------------------------
(***************************************************************************)
(* Six parts that stand alone, the RAM file system, the event bus, the     *)
(* Rock-Paper-Scissors server, the observers of the console server, the    *)
(* page frames and the array heap of the scheduler, proved for every size  *)
(* of their tables and every sequence of calls.                            *)
(***************************************************************************)
EXTENDS RamFs, EventBus, Rps, ConsoleObservers, Memory, ReadyHeap, QueueLemmas

-----------------------------------------------------------------------------
(* The RAM file system: its table is a function from the paths that are not *)
(* cut to files, the one a reader expects.                                  *)

\* A file leaves room in its entry.
Files == [is_dir : BOOLEAN, there : BOOLEAN,
          data : {d \in Seq(FileBytes) : Len(d) < RAMFS_FILE_CAP}]
StoredPaths == {Stored[p] : p \in Paths}

RamTypeOK ==
  /\ fs \in [FsSlots -> [used : BOOLEAN, path : StoredPaths \cup {"none"}, file : Files]]
  /\ contents \in [Paths -> Files]

Holds(i, p) == fs[i].used /\ fs[i].path = p

EntryInv(i) ==
  /\ fs[i].used => fs[i].path \in StoredPaths /\ fs[i].file.there
  /\ \A p \in Paths : Holds(i, p) => contents[p] = fs[i].file

PathInv(p) ==
  /\ \A i, j \in FsSlots : Holds(i, p) /\ Holds(j, p) => i = j
  /\ ~contents[p].there => contents[p] = Missing
  /\ Stored[p] = p /\ contents[p].there => \E i \in FsSlots : Holds(i, p)

RamInv ==
  /\ RamTypeOK
  /\ \A i \in FsSlots : EntryInv(i)
  /\ \A p \in Paths : PathInv(p)

LEMMA FindFacts ==
  ASSUME NEW p \in Paths, RamInv
  PROVE  IF find(p) < 0 THEN find(p) = -1 /\ \A i \in FsSlots : ~Holds(i, p)
                        ELSE find(p) \in FsSlots /\ Holds(find(p), p)
<1> DEFINE I == {i \in FsSlots : fs[i].used /\ fs[i].path = p}
<1>1. I \in SUBSET Nat /\ I \subseteq FsSlots
  BY RamAssumption DEF FsSlots
<1>2. CASE I = {}
  BY <1>2 DEF find, Holds
<1>3. CASE I # {}
  <2>1. find(p) = Min(I)
    BY <1>3 DEF find
  <2>2. Min(I) \in I
    <3> HIDE DEF I
    <3>1. QED
      BY <1>1, <1>3, MinIsIn
  <2>3. Min(I) \in Nat
    BY <1>1, <2>2
  <2>4. QED
    BY <2>1, <2>2, <2>3 DEF Holds
<1>4. QED
  BY <1>2, <1>3

LEMMA AllocFacts ==
  ASSUME alloc_entry >= 0
  PROVE  alloc_entry \in FsSlots /\ ~fs[alloc_entry].used
<1> DEFINE I == {i \in FsSlots : ~fs[i].used}
<1>1. I \in SUBSET Nat
  BY RamAssumption DEF FsSlots
<1>2. I # {} /\ alloc_entry = Min(I)
  BY DEF alloc_entry
<1>3. Min(I) \in I
  <2> HIDE DEF I
  <2>1. QED
    BY <1>1, <1>2, MinIsIn
<1>4. QED
  BY <1>2, <1>3

\* A path that is used and in the table is not cut.
LEMMA HeldIsUncut ==
  ASSUME NEW p \in Paths, p \in StoredPaths
  PROVE  Stored[p] = p
BY RamAssumption DEF StoredPaths

\* What does not fit is dropped.
LEMMA FitsIsTyped ==
  ASSUME NEW data \in Seq(FileBytes)
  PROVE  Fits(data) \in Seq(FileBytes) /\ Len(Fits(data)) < RAMFS_FILE_CAP
<1> DEFINE S == {Len(data), RAMFS_FILE_CAP - 1}
<1>1. /\ Len(data) \in Nat /\ S \in SUBSET Nat /\ S # {} /\ RAMFS_FILE_CAP \in Nat \ {0}
      /\ \A i \in 1..Len(data) : data[i] \in FileBytes
  BY LenProperties, ElementOfSeq, RamAssumption
<1>2. Min(S) \in S /\ \A y \in S : Min(S) <= y
  <2> HIDE DEF S
  <2>1. QED
    BY <1>1, MinIsIn
<1>3. Min(S) \in Nat /\ Min(S) <= Len(data) /\ Min(S) < RAMFS_FILE_CAP
  BY <1>1, <1>2
<1>4. Fits(data) = SubSeq(data, 1, Min(S))
  BY DEF Fits
<1> HIDE DEF S
<1>5. \A i \in 1..Min(S) : data[i] \in FileBytes
  BY <1>1, <1>3
<1>6. /\ SubSeq(data, 1, Min(S)) \in Seq(FileBytes)
      /\ Len(SubSeq(data, 1, Min(S))) = IF 1 <= Min(S) THEN Min(S) - 1 + 1 ELSE 0
  BY <1>3, <1>5, SubSeqProperties
<1>7. QED
  BY <1>1, <1>3, <1>4, <1>6

LEMMA FileOfIsFile ==
  ASSUME NEW data \in Seq(FileBytes)
  PROVE  FileOf(Fits(data)) \in Files /\ FileOf(Fits(data)).there
BY FitsIsTyped DEF FileOf, Files

LEMMA RamInitially == RamInit => RamInv
<1> SUFFICES ASSUME RamInit PROVE RamInv
  OBVIOUS
<1>1. Missing \in Files /\ ~Missing.there
  BY RamAssumption, EmptySeq DEF Missing, Files
<1>2. RamTypeOK
  BY <1>1 DEF RamInit, RamTypeOK, UnusedEntry
<1>3. \A i \in FsSlots : ~fs[i].used
  BY DEF RamInit, UnusedEntry
<1>4. \A p \in Paths : contents[p] = Missing
  BY DEF RamInit
<1>5. QED
  BY <1>1, <1>2, <1>3, <1>4 DEF RamInv, EntryInv, PathInv, Holds

\* A new entry.
LEMMA EntersKeepsIt ==
  ASSUME RamInv, NEW p \in Paths, NEW file \in Files, file.there,
         find(p) < 0, alloc_entry >= 0, Enters(alloc_entry, p, file),
         contents' = [contents EXCEPT ![p] = file]
  PROVE  RamInv'
<1> DEFINE e == [used |-> TRUE, path |-> Stored[p], file |-> file]
<1>1. PICK a \in FsSlots : a = alloc_entry /\ ~fs[a].used
  BY AllocFacts
<1>2. fs' = [fs EXCEPT ![a] = e] /\ Stored[p] \in StoredPaths
  BY <1>1 DEF Enters, StoredPaths
<1>3. RamTypeOK'
  BY <1>1, <1>2 DEF RamInv, RamTypeOK
<1>4. /\ fs'[a] = e
      /\ \A i \in FsSlots : i # a => fs'[i] = fs[i]
      /\ contents'[p] = file
      /\ \A q \in Paths : q # p => contents'[q] = contents[q]
  BY <1>1, <1>2 DEF RamInv, RamTypeOK
<1>5. \A i \in FsSlots : ~Holds(i, p)
  BY FindFacts
<1>6. ASSUME NEW q \in Paths, Stored[p] = q PROVE q = p
  BY <1>6, RamAssumption
<1>7. ASSUME NEW i \in FsSlots PROVE EntryInv(i)'
  <2>1. CASE i = a
    BY <2>1, <1>2, <1>4, <1>6 DEF EntryInv, Holds
  <2>2. CASE i # a
    BY <2>2, <1>4, <1>5 DEF EntryInv, Holds, RamInv
  <2>3. QED
    BY <2>1, <2>2
<1>8. ASSUME NEW q \in Paths PROVE PathInv(q)'
  <2>1. PathInv(q)
    BY DEF RamInv
  <2>2. \A i \in FsSlots : i # a => (Holds(i, q)' <=> Holds(i, q))
    BY <1>4 DEF Holds
  <2>3. Holds(a, q)' => q = p
    BY <1>4, <1>6 DEF Holds
  <2>4. Stored[p] = p => Holds(a, p)'
    BY <1>4 DEF Holds
  <2>5. CASE q = p
    BY <2>1, <2>2, <2>4, <2>5, <1>1, <1>4, <1>5 DEF PathInv
  <2>6. CASE q # p
    <3>1. \A i \in FsSlots : Holds(i, q)' <=> Holds(i, q)
      BY <2>2, <2>3, <2>6, <1>1 DEF Holds
    <3>2. QED
      BY <3>1, <2>1, <2>6, <1>4 DEF PathInv
  <2>7. QED
    BY <2>5, <2>6
<1>9. QED
  BY <1>3, <1>7, <1>8 DEF RamInv

\* Another file in the entry there is.
LEMMA ChangeKeepsIt ==
  ASSUME RamInv, NEW p \in Paths, NEW file \in Files, file.there,
         find(p) >= 0, fs' = [fs EXCEPT ![find(p)].file = file],
         contents' = [contents EXCEPT ![p] = file]
  PROVE  RamInv'
<1>1. PICK a \in FsSlots : a = find(p) /\ Holds(a, p)
  BY FindFacts
<1> DEFINE e == [fs[a] EXCEPT !.file = file]
<1>2. fs' = [fs EXCEPT ![a] = e]
  BY <1>1
<1>3. /\ fs[a] \in [used : BOOLEAN, path : StoredPaths \cup {"none"}, file : Files]
      /\ e \in [used : BOOLEAN, path : StoredPaths \cup {"none"}, file : Files]
      /\ e.used /\ e.path = p /\ e.file = file
  BY <1>1 DEF RamInv, RamTypeOK, Holds
<1> HIDE DEF e
<1>4. RamTypeOK'
  <2>1. contents' \in [Paths -> Files]
    BY DEF RamInv, RamTypeOK
  <2>2. fs' \in [FsSlots -> [used : BOOLEAN, path : StoredPaths \cup {"none"}, file : Files]]
    BY <1>2, <1>3 DEF RamInv, RamTypeOK
  <2>3. QED
    BY <2>1, <2>2 DEF RamTypeOK
<1>5. /\ fs'[a] = e
      /\ \A i \in FsSlots : i # a => fs'[i] = fs[i]
      /\ contents'[p] = file
      /\ \A q \in Paths : q # p => contents'[q] = contents[q]
  BY <1>1, <1>2 DEF RamInv, RamTypeOK
<1>6. ASSUME NEW i \in FsSlots, NEW q PROVE Holds(i, q)' <=> Holds(i, q)
  BY <1>1, <1>3, <1>5 DEF Holds
<1>7. \A i \in FsSlots : Holds(i, p) => i = a
  BY <1>1 DEF RamInv, PathInv
<1>8. ASSUME NEW i \in FsSlots PROVE EntryInv(i)'
  <2>1. CASE i = a
    <3>1. p \in StoredPaths
      BY <1>1 DEF RamInv, EntryInv, Holds
    <3>2. QED
      BY <2>1, <3>1, <1>3, <1>5 DEF EntryInv, Holds
  <2>2. CASE i # a
    <3>1. \A q \in Paths : Holds(i, q)' => Holds(i, q) /\ q # p
      BY <2>2, <1>6, <1>7
    <3>2. EntryInv(i)
      BY DEF RamInv
    <3>3. QED
      BY <2>2, <3>1, <3>2, <1>5 DEF EntryInv
  <2>3. QED
    BY <2>1, <2>2
<1>9. ASSUME NEW q \in Paths PROVE PathInv(q)'
  BY <1>1, <1>5, <1>6 DEF RamInv, PathInv
<1>10. QED
  BY <1>4, <1>8, <1>9 DEF RamInv

LEMMA RemoveKeepsIt ==
  ASSUME RamInv, NEW p \in Paths, ramfs_remove(p)
  PROVE  RamInv'
<1>1. PICK a \in FsSlots : a = find(p) /\ Holds(a, p)
  BY FindFacts DEF ramfs_remove
<1> DEFINE e == [fs[a] EXCEPT !.used = FALSE]
<1>2. /\ fs' = [fs EXCEPT ![a] = e]
      /\ contents' = [contents EXCEPT ![p] = Missing]
  BY <1>1 DEF ramfs_remove
<1>3. /\ e \in [used : BOOLEAN, path : StoredPaths \cup {"none"}, file : Files]
      /\ ~e.used
  BY <1>1 DEF RamInv, RamTypeOK
<1>4. Missing \in Files /\ ~Missing.there
  BY RamAssumption, EmptySeq DEF Missing, Files
<1> HIDE DEF e
<1>5. RamTypeOK'
  BY <1>2, <1>3, <1>4 DEF RamInv, RamTypeOK
<1>6. /\ fs'[a] = e
      /\ \A i \in FsSlots : i # a => fs'[i] = fs[i]
      /\ contents'[p] = Missing
      /\ \A q \in Paths : q # p => contents'[q] = contents[q]
  BY <1>1, <1>2 DEF RamInv, RamTypeOK
<1>7. ASSUME NEW i \in FsSlots, NEW q \in Paths
      PROVE  Holds(i, q)' <=> Holds(i, q) /\ i # a
  BY <1>3, <1>6 DEF Holds
<1>8. \A i \in FsSlots : Holds(i, p) => i = a
  BY <1>1 DEF RamInv, PathInv
<1>9. \A q \in Paths : Holds(a, q) => q = p
  BY <1>1 DEF Holds
<1>10. ASSUME NEW i \in FsSlots PROVE EntryInv(i)'
  <2>1. CASE i = a
    BY <2>1, <1>3, <1>6, <1>7 DEF EntryInv
  <2>2. CASE i # a
    <3>1. EntryInv(i)
      BY DEF RamInv
    <3>2. QED
      BY <2>2, <3>1, <1>6, <1>7, <1>8 DEF EntryInv
  <2>3. QED
    BY <2>1, <2>2
<1>11. ASSUME NEW q \in Paths PROVE PathInv(q)'
  <2>1. PathInv(q)
    BY DEF RamInv
  <2>2. CASE q = p
    BY <2>1, <2>2, <1>4, <1>6, <1>7 DEF PathInv
  <2>3. CASE q # p
    BY <2>1, <2>3, <1>6, <1>7, <1>9 DEF PathInv
  <2>4. QED
    BY <2>2, <2>3
<1>12. QED
  BY <1>5, <1>10, <1>11 DEF RamInv

LEMMA WriteKeepsIt ==
  ASSUME RamInv, NEW p \in Paths, NEW data \in FileTexts, ramfs_write(p, data)
  PROVE  RamInv'
<1>1. FileOf(Fits(data)) \in Files /\ FileOf(Fits(data)).there
  BY RamAssumption, FileOfIsFile
<1>2. CASE find(p) >= 0
  BY <1>1, <1>2, ChangeKeepsIt DEF ramfs_write
<1>3. CASE ~(find(p) >= 0)
  <2>1. find(p) < 0
    <3>1. \A i \in FsSlots : i >= 0
      BY RamAssumption DEF FsSlots
    <3>2. QED
      BY <1>3, <3>1, FindFacts
  <2>2. QED
    BY <1>1, <1>3, <2>1, EntersKeepsIt DEF ramfs_write
<1>4. QED
  BY <1>2, <1>3

LEMMA AppendKeepsIt ==
  ASSUME RamInv, NEW p \in Paths, NEW data \in FileTexts, ramfs_append(p, data)
  PROVE  RamInv'
<1>1. CASE find(p) < 0
  BY <1>1, WriteKeepsIt DEF ramfs_append
<1>2. CASE ~(find(p) < 0)
  <2> DEFINE a == find(p)
             old == contents[p]
             file == [old EXCEPT !.data = Fits(old.data \o data)]
  <2>1. a \in FsSlots /\ Holds(a, p) /\ a >= 0
    BY <1>2, FindFacts, RamAssumption DEF FsSlots
  <2>2. fs[a].file = old /\ old.there /\ old \in Files
    BY <2>1 DEF RamInv, EntryInv, RamTypeOK, Holds
  <2>3. /\ fs' = [fs EXCEPT ![a].file.data = Fits(@ \o data)]
        /\ contents' = [contents EXCEPT ![p].data = Fits(@ \o data)]
    BY <1>2 DEF ramfs_append
  <2>4. old.data \o data \in Seq(FileBytes)
    BY <2>2, RamAssumption, ConcatProperties DEF Files
  <2>5. file \in Files /\ file.there
    BY <2>2, <2>4, FitsIsTyped DEF Files
  <2> HIDE DEF a
  <2>6. fs' = [fs EXCEPT ![a].file = file]
    BY <2>1, <2>2, <2>3 DEF RamInv, RamTypeOK
  <2>7. contents' = [contents EXCEPT ![p] = file]
    BY <2>3 DEF RamInv, RamTypeOK
  <2> HIDE DEF file, old
  <2>8. QED
    BY <2>1, <2>5, <2>6, <2>7, ChangeKeepsIt DEF a
<1>3. QED
  BY <1>1, <1>2

\* The table of the file system agrees with what was left in it: no two
\* entries have a path, the entry of a path holds its file, and no file is as
\* long as its buffer.
THEOREM RamInvariant == RamSpec => []RamInv
<1>1. RamInv /\ [RamNext]_ramVars => RamInv'
  <2> SUFFICES ASSUME RamInv, [RamNext]_ramVars PROVE RamInv'
    OBVIOUS
  <2>1. ASSUME NEW p \in Paths, ramfs_mkdir(p) PROVE RamInv'
    <3>1. Folder \in Files /\ Folder.there
      BY RamAssumption, EmptySeq DEF Folder, Files
    <3>2. QED
      BY <2>1, <3>1, EntersKeepsIt DEF ramfs_mkdir
  <2>2. CASE UNCHANGED ramVars
    BY <2>2 DEF ramVars, RamInv, RamTypeOK, EntryInv, PathInv, Holds
  <2>3. QED
    BY <2>1, <2>2, RemoveKeepsIt, WriteKeepsIt, AppendKeepsIt DEF RamNext
<1>2. QED
  BY <1>1, RamInitially, PTL DEF RamSpec

\* However often it was made, written, appended to and removed, a path that is
\* not cut reads as it was left and is listed once in its folder.
THEOREM FilesReadAsLeft == RamSpec => []ReadsAsItWasLeft
<1>1. RamInv => ReadsAsItWasLeft
  <2> SUFFICES ASSUME RamInv, NEW p \in Paths, Stored[p] = p
               PROVE  /\ ramfs_read(p) = contents[p]
                      /\ p \in ramfs_list(ParentDir[p]) <=> contents[p].there
                      /\ Cardinality({i \in FsSlots : fs[i].used /\ fs[i].path = p}) <= 1
    BY DEF ReadsAsItWasLeft
  <2> DEFINE S == {i \in FsSlots : fs[i].used /\ fs[i].path = p}
  <2>1. EntryInv(find(p)) \/ find(p) \notin FsSlots
    BY DEF RamInv
  <2>2. PathInv(p)
    BY DEF RamInv
  <2>3. CASE find(p) < 0
    <3>1. \A i \in FsSlots : ~Holds(i, p)
      BY <2>3, FindFacts
    <3>2. contents[p] = Missing /\ ~Missing.there
      BY <2>2, <3>1 DEF PathInv, Missing
    <3>3. S = {} /\ p \notin ramfs_list(ParentDir[p])
      BY <3>1 DEF Holds, ramfs_list
    <3>4. Cardinality(S) = 0
      BY <3>3, FS_EmptySet
    <3>5. ramfs_read(p) = contents[p]
      BY <2>3, <3>2 DEF ramfs_read
    <3>6. QED
      BY <3>2, <3>3, <3>4, <3>5
  <2>4. CASE ~(find(p) < 0)
    <3>1. find(p) \in FsSlots /\ Holds(find(p), p)
      BY <2>4, FindFacts
    <3>2. contents[p] = fs[find(p)].file /\ contents[p].there
      BY <2>1, <3>1 DEF EntryInv, Holds
    <3>3. p \in ramfs_list(ParentDir[p])
      BY <3>1 DEF Holds, ramfs_list
    <3>4. S = {find(p)}
      BY <2>2, <3>1 DEF PathInv, Holds
    <3>5. Cardinality(S) = 1
      BY <3>4, FS_Singleton
    <3>6. QED
      BY <2>4, <3>2, <3>3, <3>5 DEF ramfs_read
  <2>5. QED
    BY <2>3, <2>4
<1>2. QED
  BY <1>1, RamInvariant, PTL

-----------------------------------------------------------------------------
(* The event bus: what a subject has attached is in use for its topic, so   *)
(* that a fresh entry of the pool is attached nowhere; and what a publish   *)
(* can still rely on in the slots of a subject that changes while the       *)
(* publish is blocked.                                                      *)

BusSlots == BusEntries \cup {NoEntry}
Topic == [name : TopicNames, obs : [1..SUBJECT_MAX_OBS -> BusSlots], count : 0..SUBJECT_MAX_OBS]
Publishing ==
  [topic : Nat, i : Nat \ {0}, n : 0..SUBJECT_MAX_OBS, obs : Seq(BusSlots),
   left : SUBSET BusSlots, came : SUBSET BusSlots, refilled : BOOLEAN]

BusTypeOK ==
  /\ g_topics \in Seq(Topic)
  /\ DOMAIN pool \subseteq BusEntries
  /\ pool = [e \in DOMAIN pool |-> pool[e]]
  /\ told \in Seq(BusSlots)
  /\ publisher = NotPublishing \/
     (publisher \in Publishing /\ publisher.topic \in DOMAIN g_topics)
  /\ joined \in Nat

SubjectInv(i) ==
  LET t == g_topics[i]
  IN  /\ \A j \in 1..t.count : t.obs[j] \in DOMAIN pool /\ pool[t.obs[j]].topic_idx = i
      /\ \A j, k \in 1..t.count : t.obs[j] = t.obs[k] => j = k

\* While nobody has left subject t, publish p finds those it began with where
\* they were; as long as no gap was filled again, those who stayed were updated
\* or are still before it; and every slot it can reach was attached once.
Relies(p, seen, t) ==
  /\ p.left = {} =>
       /\ p.n <= t.count /\ \A j \in 1..p.n : t.obs[j] = p.obs[j]
       /\ \A j \in 1..(p.i - 1) : seen[j] = p.obs[j]
  /\ ~p.refilled =>
       \A e \in Range(p.obs) \ p.left :
         e \in Range(seen) \/ \E j \in p.i..p.n : t.obs[j] = e
  /\ \A j \in 1..SUBJECT_MAX_OBS :
       j <= p.n \/ j <= t.count => t.obs[j] \in Range(p.obs) \cup p.came
  /\ Range(seen) \subseteq Range(p.obs) \cup p.came

PublishInv ==
  publisher # NotPublishing =>
    /\ publisher.i <= publisher.n + 1
    /\ Len(publisher.obs) = publisher.n /\ Len(told) = publisher.i - 1
    /\ Relies(publisher, told, g_topics[publisher.topic])

BusInv ==
  /\ BusTypeOK
  /\ \A i \in DOMAIN g_topics : SubjectInv(i)
  /\ PublishInv

\* How an entry joins a subject t, how one leaves it, and what r is then.
JoinsSubject(t, r, e) ==
  /\ t.count + 1 \in 1..SUBJECT_MAX_OBS /\ e \in BusSlots /\ e \notin Attached(t)
  /\ r.count = t.count + 1 /\ r.obs = [t.obs EXCEPT ![t.count + 1] = e]

LeavesSubject(t, r, e) ==
  \E m \in 1..t.count :
    t.obs[m] = e /\ r.count = t.count - 1 /\ r.obs = [t.obs EXCEPT ![m] = t.obs[t.count]]

SubjectChanges(t, r) == r = t \/ \E e : JoinsSubject(t, r, e) \/ LeavesSubject(t, r, e)

LEMMA BusInitially == BusInit => BusInv
<1> SUFFICES ASSUME BusInit PROVE BusInv
  OBVIOUS
<1>1. /\ g_topics = <<>> /\ publisher = NotPublishing /\ told = <<>> /\ joined = 0
      /\ DOMAIN pool = {} /\ DOMAIN g_topics = {}
  BY DEF BusInit
<1>2. pool = [e \in DOMAIN pool |-> pool[e]]
  BY DEF BusInit
<1>3. QED
  BY <1>1, <1>2, EmptySeq DEF BusInv, BusTypeOK, PublishInv

LEMMA TopicFacts ==
  ASSUME NEW topics \in Seq(Topic), NEW name, find_topic(topics, name) # 0
  PROVE  find_topic(topics, name) \in DOMAIN topics
<1> DEFINE I == {i \in DOMAIN topics : topics[i].name = name}
<1>1. I \in SUBSET Nat /\ I \subseteq DOMAIN topics
  BY LenProperties
<1>2. I # {} /\ find_topic(topics, name) = Min(I)
  BY DEF find_topic
<1>3. Min(I) \in I
  <2> HIDE DEF I
  <2>1. QED
    BY <1>1, <1>2, MinIsIn
<1>4. QED
  BY <1>1, <1>2, <1>3

\* A topic is made at the end, with nobody attached; the others stay.
LEMMA CreateFacts ==
  ASSUME BusInv, NEW name \in TopicNames
  PROVE  LET topics == find_or_create_topic(name)
         IN  /\ topics \in Seq(Topic)
             /\ DOMAIN g_topics \subseteq DOMAIN topics
             /\ \A i \in DOMAIN g_topics : topics[i] = g_topics[i]
             /\ \A i \in DOMAIN topics \ DOMAIN g_topics : topics[i].count = 0
<1> DEFINE topics == find_or_create_topic(name)
           new == subject_init(name)
<1>1. g_topics \in Seq(Topic) /\ Len(g_topics) \in Nat /\ DOMAIN g_topics = 1..Len(g_topics)
  BY LenProperties DEF BusInv, BusTypeOK
<1>2. new \in Topic /\ new.count = 0
  BY BusAssumption DEF subject_init, Topic, BusSlots
<1> HIDE DEF new
<1>3. CASE topics = g_topics
  BY <1>1, <1>3
<1>4. CASE topics = Append(g_topics, new)
  <2>1. /\ topics \in Seq(Topic) /\ Len(topics) = Len(g_topics) + 1
        /\ \A i \in 1..Len(g_topics) : topics[i] = g_topics[i]
        /\ topics[Len(g_topics) + 1] = new
    BY <1>1, <1>2, <1>4, AppendProperties
  <2> HIDE DEF topics
  <2>2. DOMAIN topics = 1..(Len(g_topics) + 1)
    BY <1>1, <2>1, LenProperties
  <2>3. \A i \in DOMAIN topics \ DOMAIN g_topics : i = Len(g_topics) + 1
    BY <1>1, <2>2
  <2>4. QED
    BY <1>1, <1>2, <2>1, <2>2, <2>3 DEF topics
<1>5. topics = g_topics \/ topics = Append(g_topics, new)
  BY DEF find_or_create_topic, new
<1>6. QED
  BY <1>3, <1>4, <1>5

\* An entry joins at the end of a subject, if at all.
LEMMA AttachFacts ==
  ASSUME NEW t \in Topic, NEW e \in BusEntries
  PROVE  LET r == subject_attach(t, e)
         IN  /\ r \in Topic
             /\ r = t \/ JoinsSubject(t, r, e)
<1> DEFINE r == subject_attach(t, e)
<1>1. /\ t.count \in 0..SUBJECT_MAX_OBS /\ SUBJECT_MAX_OBS \in Nat
      /\ t.obs \in [1..SUBJECT_MAX_OBS -> BusSlots] /\ e \in BusSlots
  BY BusAssumption DEF Topic, BusSlots
<1>2. CASE e \in Attached(t) \/ t.count >= SUBJECT_MAX_OBS
  BY <1>2 DEF subject_attach
<1>3. CASE ~(e \in Attached(t) \/ t.count >= SUBJECT_MAX_OBS)
  <2> DEFINE obs == [t.obs EXCEPT ![t.count + 1] = e]
  <2>1. t.count + 1 \in 1..SUBJECT_MAX_OBS
    BY <1>1, <1>3
  <2>2. r = [name |-> t.name, obs |-> obs, count |-> t.count + 1]
    BY <1>3 DEF subject_attach, Topic
  <2>3. obs \in [1..SUBJECT_MAX_OBS -> BusSlots]
    BY <1>1, <2>1
  <2>4. r \in Topic
    <3> HIDE DEF obs
    <3>1. QED
      BY <1>1, <2>1, <2>2, <2>3 DEF Topic
  <2>5. JoinsSubject(t, r, e)
    BY <1>1, <1>3, <2>1, <2>2 DEF JoinsSubject
  <2>6. QED
    BY <2>4, <2>5
<1>4. QED
  BY <1>2, <1>3

\* Whoever joins writes behind all the others.
LEMMA JoinedFacts ==
  ASSUME NEW t \in Topic, NEW r \in Topic, NEW e, JoinsSubject(t, r, e)
  PROVE  /\ \A j \in 1..SUBJECT_MAX_OBS :
              r.obs[j] = IF j = t.count + 1 THEN e ELSE t.obs[j]
         /\ Attached(r) = Attached(t) \cup {e} /\ e \notin Attached(t)
<1>1. /\ t.count \in 0..SUBJECT_MAX_OBS /\ SUBJECT_MAX_OBS \in Nat
      /\ t.obs \in [1..SUBJECT_MAX_OBS -> BusSlots]
  BY BusAssumption DEF Topic
<1>2. PICK c \in 0..SUBJECT_MAX_OBS : c = t.count
  BY <1>1
<1>3. /\ c + 1 \in 1..SUBJECT_MAX_OBS /\ r.count = c + 1
      /\ r.obs = [t.obs EXCEPT ![c + 1] = e] /\ e \notin Attached(t)
  BY <1>2 DEF JoinsSubject
<1>4. \A j \in 1..SUBJECT_MAX_OBS : r.obs[j] = IF j = c + 1 THEN e ELSE t.obs[j]
  BY <1>1, <1>3
<1>5. \A j : j \in 1..(c + 1) <=> j \in 1..c \/ j = c + 1
  BY <1>1, <1>2
<1>6. \A j \in 1..c : j \in 1..SUBJECT_MAX_OBS /\ j # c + 1
  BY <1>1, <1>2
<1>7. Attached(r) = Attached(t) \cup {e}
  <2>1. \A j \in 1..c : r.obs[j] = t.obs[j]
    BY <1>4, <1>6
  <2>2. r.obs[c + 1] = e
    BY <1>3, <1>4
  <2>3. QED
    BY <1>2, <1>3, <1>5, <2>1, <2>2 DEF Attached
<1>8. QED
  BY <1>2, <1>3, <1>4, <1>7

\* Whoever leaves has the last one in his slot then, if he was not the last.
LEMMA DetachFacts ==
  ASSUME NEW t \in Topic, NEW e
  PROVE  LET r == subject_detach(t, e)
         IN  /\ r \in Topic
             /\ (r = t /\ e \notin Attached(t)) \/ LeavesSubject(t, r, e)
<1> DEFINE I == {i \in 1..t.count : t.obs[i] = e}
           r == subject_detach(t, e)
<1>1. /\ t.count \in 0..SUBJECT_MAX_OBS /\ SUBJECT_MAX_OBS \in Nat
      /\ t.obs \in [1..SUBJECT_MAX_OBS -> BusSlots]
      /\ I \in SUBSET Nat
  BY BusAssumption DEF Topic
<1>2. CASE I = {}
  BY <1>2 DEF subject_detach, Attached
<1>3. CASE I # {}
  <2>1. Min(I) \in I
    <3> HIDE DEF I
    <3>1. QED
      BY <1>1, <1>3, MinIsIn
  <2>2. PICK m \in 1..t.count : m = Min(I) /\ t.obs[m] = e
    BY <2>1
  <2> DEFINE obs == [t.obs EXCEPT ![m] = t.obs[t.count]]
  <2>3. r = [name |-> t.name, obs |-> obs, count |-> t.count - 1]
    BY <1>3, <2>2 DEF subject_detach, Topic
  <2>4. /\ obs \in [1..SUBJECT_MAX_OBS -> BusSlots]
        /\ t.count - 1 \in 0..SUBJECT_MAX_OBS
    BY <1>1, <2>2
  <2>5. r \in Topic
    <3> HIDE DEF obs, I
    <3>1. QED
      BY <2>3, <2>4 DEF Topic
  <2>6. r.count = t.count - 1 /\ r.obs = obs
    BY <2>3
  <2>7. LeavesSubject(t, r, e)
    <3> HIDE DEF I, r
    <3>1. QED
      BY <2>2, <2>6 DEF LeavesSubject
  <2>8. QED
    BY <2>5, <2>7
<1>4. QED
  BY <1>2, <1>3

\* An entry that has left is nowhere in its subject, and nobody is in it twice.
LEMMA LeftFacts ==
  ASSUME NEW t \in Topic, NEW r \in Topic, NEW e, LeavesSubject(t, r, e),
         \A j, k \in 1..t.count : t.obs[j] = t.obs[k] => j = k
  PROVE  /\ \A j \in 1..SUBJECT_MAX_OBS :
              r.obs[j] = t.obs[j] \/ (t.obs[j] = e /\ r.obs[j] = t.obs[t.count])
         /\ r.count = t.count - 1 /\ t.count \in 1..SUBJECT_MAX_OBS
         /\ Attached(r) = Attached(t) \ {e} /\ e \in Attached(t)
         /\ \A j, k \in 1..r.count : r.obs[j] = r.obs[k] => j = k
<1>1. /\ t.count \in 0..SUBJECT_MAX_OBS /\ SUBJECT_MAX_OBS \in Nat
      /\ t.obs \in [1..SUBJECT_MAX_OBS -> BusSlots]
  BY BusAssumption DEF Topic
<1>2. PICK c \in 0..SUBJECT_MAX_OBS : c = t.count
  BY <1>1
<1>3. PICK m \in 1..c : t.obs[m] = e /\ r.count = c - 1 /\ r.obs = [t.obs EXCEPT ![m] = t.obs[c]]
  BY <1>2 DEF LeavesSubject
<1>4. c \in 1..SUBJECT_MAX_OBS /\ c \in 1..c
  BY <1>1, <1>2, <1>3
<1>5. \A j \in 1..SUBJECT_MAX_OBS : r.obs[j] = IF j = m THEN t.obs[c] ELSE t.obs[j]
  BY <1>1, <1>3
<1>6. \A j \in 1..c : j \in 1..SUBJECT_MAX_OBS
  BY <1>1, <1>4
<1>7. \A j \in 1..(c - 1) : j \in 1..c /\ j # c
  BY <1>4
<1>8. \A j \in 1..c : j \in 1..(c - 1) \/ j = c
  BY <1>4
<1>9. \A j, k \in 1..c : t.obs[j] = t.obs[k] => j = k
  BY <1>2
<1>10. \A j \in 1..(c - 1) : r.obs[j] \in Attached(t) \ {e}
  <2>1. \A j \in 1..c : t.obs[j] \in Attached(t) /\ (t.obs[j] = e => j = m)
    BY <1>2, <1>3, <1>9 DEF Attached
  <2>2. QED
    BY <1>4, <1>5, <1>6, <1>7, <2>1
<1>11. ASSUME NEW x \in Attached(t), x # e PROVE \E j \in 1..(c - 1) : r.obs[j] = x
  <2>1. PICK j \in 1..c : t.obs[j] = x
    BY <1>2, <1>11 DEF Attached
  <2>2. j # m
    BY <1>3, <1>11, <2>1
  <2>3. CASE j = c
    <3>1. m \in 1..(c - 1) /\ r.obs[m] = x
      BY <1>5, <1>6, <1>8, <2>1, <2>2, <2>3
    <3>2. QED
      BY <3>1
  <2>4. CASE j # c
    <3>1. j \in 1..(c - 1) /\ r.obs[j] = x
      BY <1>5, <1>6, <1>8, <2>1, <2>2, <2>4
    <3>2. QED
      BY <3>1
  <2>5. QED
    BY <2>3, <2>4
<1>12. Attached(r) = Attached(t) \ {e} /\ e \in Attached(t)
  <2>1. Attached(r) = {r.obs[j] : j \in 1..(c - 1)}
    BY <1>3 DEF Attached
  <2>2. e \in Attached(t)
    BY <1>2, <1>3 DEF Attached
  <2>3. QED
    BY <1>10, <1>11, <2>1, <2>2
<1>13. \A j, k \in 1..(c - 1) : r.obs[j] = r.obs[k] => j = k
  BY <1>4, <1>5, <1>6, <1>7, <1>9
<1>14. QED
  BY <1>2, <1>3, <1>4, <1>5, <1>12, <1>13

\* What a publish is after its subject has changed from `was` to `is`.
IsNoted(q, p, was, is) ==
  /\ q \in Publishing
  /\ q.topic = p.topic /\ q.i = p.i /\ q.n = p.n /\ q.obs = p.obs
  /\ q.left = p.left \cup (was \ is) /\ q.came = p.came \cup (is \ was)
  /\ q.refilled <=> p.refilled \/ (p.left # {} /\ is \ was # {})
  /\ was = is => q = p

LEMMA NotedFacts ==
  ASSUME NEW p \in Publishing, NEW was \in SUBSET BusSlots, NEW is \in SUBSET BusSlots,
         NEW q, q = Noted(p, was, is)
  PROVE  IsNoted(q, p, was, is)
<1> DEFINE left == p.left \cup (was \ is)
           came == p.came \cup (is \ was)
           refilled == p.refilled \/ (p.left # {} /\ is \ was # {})
<1>1. left \in SUBSET BusSlots /\ came \in SUBSET BusSlots /\ refilled \in BOOLEAN
  BY DEF Publishing
<1>2. q = [p EXCEPT !.left = left, !.came = came, !.refilled = refilled]
  BY DEF Noted
<1>3. was = is => left = p.left /\ came = p.came /\ refilled = p.refilled
  BY DEF Publishing
<1> HIDE DEF left, came, refilled
<1>4. q = [topic |-> p.topic, i |-> p.i, n |-> p.n, obs |-> p.obs,
           left |-> left, came |-> came, refilled |-> refilled]
  BY <1>2 DEF Publishing
<1>5. q \in Publishing
  BY <1>1, <1>4 DEF Publishing
<1>6. was = is => q = p
  BY <1>3, <1>4 DEF Publishing
<1>7. /\ q.topic = p.topic /\ q.i = p.i /\ q.n = p.n /\ q.obs = p.obs
      /\ q.left = left /\ q.came = came /\ (q.refilled <=> refilled)
  BY <1>4
<1>8. QED
  BY <1>5, <1>6, <1>7 DEF IsNoted, left, came, refilled

LEMMA AttachedAreSlots ==
  ASSUME NEW t \in Topic
  PROVE  Attached(t) \in SUBSET BusSlots /\ t.count \in 0..SUBJECT_MAX_OBS
<1>1. t.count \in 0..SUBJECT_MAX_OBS /\ t.obs \in [1..SUBJECT_MAX_OBS -> BusSlots]
  BY DEF Topic
<1>2. \A j \in 1..t.count : j \in 1..SUBJECT_MAX_OBS
  BY <1>1, BusAssumption
<1>3. QED
  BY <1>1, <1>2 DEF Attached

\* One who joins is behind those a publish still has to update, unless a gap was
\* made before; it counts as one who came.
LEMMA JoinIsNoted ==
  ASSUME NEW p \in Publishing, NEW seen, NEW t \in Topic, NEW r \in Topic, NEW e,
         JoinsSubject(t, r, e), Relies(p, seen, t)
  PROVE  Relies(Noted(p, Attached(t), Attached(r)), seen, r)
<1> PICK q : q = Noted(p, Attached(t), Attached(r))
  OBVIOUS
<1> PICK c \in 0..SUBJECT_MAX_OBS : c = t.count
  BY AttachedAreSlots
<1> PICK n \in 0..SUBJECT_MAX_OBS : n = p.n
  BY DEF Publishing
<1> PICK i \in Nat \ {0} : i = p.i
  BY DEF Publishing
<1>1. /\ \A j \in 1..SUBJECT_MAX_OBS : r.obs[j] = IF j = c + 1 THEN e ELSE t.obs[j]
      /\ Attached(r) = Attached(t) \cup {e} /\ e \notin Attached(t) /\ r.count = c + 1
      /\ c + 1 \in 1..SUBJECT_MAX_OBS
  <2>1. /\ \A j \in 1..SUBJECT_MAX_OBS : r.obs[j] = IF j = t.count + 1 THEN e ELSE t.obs[j]
        /\ Attached(r) = Attached(t) \cup {e} /\ e \notin Attached(t)
    BY JoinedFacts
  <2>2. r.count = t.count + 1 /\ t.count + 1 \in 1..SUBJECT_MAX_OBS
    BY DEF JoinsSubject
  <2>3. QED
    BY <2>1, <2>2
<1>2. /\ q.i = i /\ q.n = n /\ q.obs = p.obs
      /\ q.left = p.left /\ q.came = p.came \cup {e}
      /\ q.refilled <=> p.refilled \/ p.left # {}
  <2>1. Attached(t) \ Attached(r) = {} /\ Attached(r) \ Attached(t) = {e}
    BY <1>1
  <2>2. Attached(t) \in SUBSET BusSlots /\ Attached(r) \in SUBSET BusSlots
    BY AttachedAreSlots
  <2>3. /\ q.i = p.i /\ q.n = p.n /\ q.obs = p.obs
        /\ q.left = p.left \cup (Attached(t) \ Attached(r))
        /\ q.came = p.came \cup (Attached(r) \ Attached(t))
        /\ q.refilled <=> p.refilled \/ (p.left # {} /\ Attached(r) \ Attached(t) # {})
    <3>1. IsNoted(q, p, Attached(t), Attached(r))
      BY <2>2, NotedFacts
    <3>2. QED
      BY <3>1 DEF IsNoted
  <2>4. p.left \cup {} = p.left /\ {e} # {}
    OBVIOUS
  <2>5. QED
    BY <2>1, <2>3, <2>4
<1>3. p.left = {} => \A j \in 1..n : r.obs[j] = t.obs[j]
  <2>1. p.left = {} => n <= c
    BY DEF Relies
  <2>2. p.left = {} => \A j \in 1..n : j \in 1..SUBJECT_MAX_OBS /\ j # c + 1
    BY <2>1, BusAssumption
  <2>3. QED
    BY <1>1, <2>2
<1>4. q.left = {} => /\ q.n <= r.count /\ \A j \in 1..q.n : r.obs[j] = q.obs[j]
                     /\ \A j \in 1..(q.i - 1) : seen[j] = q.obs[j]
  <2>1. p.left = {} => /\ n <= c /\ \A j \in 1..n : t.obs[j] = p.obs[j]
                       /\ \A j \in 1..(i - 1) : seen[j] = p.obs[j]
    BY DEF Relies
  <2>2. n <= c => n <= c + 1
    OBVIOUS
  <2>3. QED
    BY <1>1, <1>2, <1>3, <2>1, <2>2
<1>5. ASSUME ~q.refilled, NEW x \in Range(q.obs) \ q.left
      PROVE  x \in Range(seen) \/ \E j \in q.i..q.n : r.obs[j] = x
  <2>1. ~p.refilled /\ p.left = {} /\ x \in Range(p.obs) \ p.left
    BY <1>2, <1>5
  <2>2. x \in Range(seen) \/ \E j \in i..n : t.obs[j] = x
    BY <2>1 DEF Relies
  <2>3. \A j \in i..n : j \in 1..n
    OBVIOUS
  <2>4. QED
    BY <1>2, <1>3, <2>1, <2>2, <2>3
<1>6. ASSUME NEW j \in 1..SUBJECT_MAX_OBS, j <= q.n \/ j <= r.count
      PROVE  r.obs[j] \in Range(q.obs) \cup q.came
  <2>1. CASE j = c + 1
    BY <1>1, <1>2, <2>1
  <2>2. CASE j # c + 1
    <3>1. j <= n \/ j <= c
      BY <1>1, <1>2, <1>6, <2>2
    <3>2. t.obs[j] \in Range(p.obs) \cup p.came
      BY <3>1 DEF Relies
    <3>3. QED
      BY <1>1, <1>2, <2>2, <3>2
  <2>3. QED
    BY <2>1, <2>2
<1>7. Range(seen) \subseteq Range(q.obs) \cup q.came
  BY <1>2 DEF Relies
<1>8. Relies(q, seen, r)
  BY <1>4, <1>5, <1>6, <1>7 DEF Relies
<1>9. QED
  BY <1>8

\* One who leaves is the only one whose slot is written over.
LEMMA LeaveIsNoted ==
  ASSUME NEW p \in Publishing, NEW seen, NEW t \in Topic, NEW r \in Topic, NEW e,
         LeavesSubject(t, r, e), Relies(p, seen, t),
         \A j, k \in 1..t.count : t.obs[j] = t.obs[k] => j = k
  PROVE  Relies(Noted(p, Attached(t), Attached(r)), seen, r)
<1> PICK q : q = Noted(p, Attached(t), Attached(r))
  OBVIOUS
<1> PICK c \in 0..SUBJECT_MAX_OBS : c = t.count
  BY AttachedAreSlots
<1> PICK n \in 0..SUBJECT_MAX_OBS : n = p.n
  BY DEF Publishing
<1> PICK i \in Nat \ {0} : i = p.i
  BY DEF Publishing
<1>1. /\ \A j \in 1..SUBJECT_MAX_OBS :
           r.obs[j] = t.obs[j] \/ (t.obs[j] = e /\ r.obs[j] = t.obs[c])
      /\ Attached(r) = Attached(t) \ {e} /\ e \in Attached(t) /\ r.count = c - 1
      /\ c \in 1..SUBJECT_MAX_OBS
  BY LeftFacts
<1>2. /\ q.i = i /\ q.n = n /\ q.obs = p.obs
      /\ q.left = p.left \cup {e} /\ q.came = p.came
      /\ q.refilled <=> p.refilled
  <2>1. Attached(t) \ Attached(r) = {e} /\ Attached(r) \ Attached(t) = {}
    BY <1>1
  <2>2. p.refilled \in BOOLEAN
    BY DEF Publishing
  <2>3. Attached(t) \in SUBSET BusSlots /\ Attached(r) \in SUBSET BusSlots
    BY AttachedAreSlots
  <2>4. /\ q.i = p.i /\ q.n = p.n /\ q.obs = p.obs
        /\ q.left = p.left \cup (Attached(t) \ Attached(r))
        /\ q.came = p.came \cup (Attached(r) \ Attached(t))
        /\ q.refilled <=> p.refilled \/ (p.left # {} /\ Attached(r) \ Attached(t) # {})
    <3>1. IsNoted(q, p, Attached(t), Attached(r))
      BY <2>3, NotedFacts
    <3>2. QED
      BY <3>1 DEF IsNoted
  <2>5. p.came \cup {} = p.came
    OBVIOUS
  <2>6. QED
    BY <2>1, <2>2, <2>4, <2>5
<1>3. ASSUME ~q.refilled, NEW x \in Range(q.obs) \ q.left
      PROVE  x \in Range(seen) \/ \E j \in q.i..q.n : r.obs[j] = x
  <2>1. ~p.refilled /\ x \in Range(p.obs) \ p.left /\ x # e
    BY <1>2, <1>3
  <2>2. x \in Range(seen) \/ \E j \in i..n : t.obs[j] = x
    BY <2>1 DEF Relies
  <2>3. \A j \in i..n : j \in 1..SUBJECT_MAX_OBS
    BY BusAssumption
  <2>4. QED
    BY <1>1, <1>2, <2>1, <2>2, <2>3
<1>4. ASSUME NEW j \in 1..SUBJECT_MAX_OBS, j <= q.n \/ j <= r.count
      PROVE  r.obs[j] \in Range(q.obs) \cup q.came
  <2>1. j <= n \/ j <= c
    BY <1>1, <1>2, <1>4
  <2>2. t.obs[j] \in Range(p.obs) \cup p.came
    BY <2>1 DEF Relies
  <2>3. t.obs[c] \in Range(p.obs) \cup p.came
    BY <1>1 DEF Relies
  <2>4. QED
    BY <1>1, <1>2, <2>2, <2>3
<1>5. Range(seen) \subseteq Range(q.obs) \cup q.came
  BY <1>2 DEF Relies
<1>6. q.left # {}
  BY <1>2
<1>7. Relies(q, seen, r)
  BY <1>3, <1>4, <1>5, <1>6 DEF Relies
<1>8. QED
  BY <1>7

\* What a publish under way relies on is kept by every subscription and detach.
LEMMA PublishGoesOn ==
  ASSUME BusInv, told' = told, TracksChanges,
         g_topics' \in Seq(Topic), DOMAIN g_topics \subseteq DOMAIN g_topics',
         \A i \in DOMAIN g_topics : SubjectChanges(g_topics[i], g_topics'[i])
  PROVE  /\ PublishInv'
         /\ \/ publisher' = NotPublishing
            \/ publisher' \in Publishing /\ publisher'.topic \in DOMAIN g_topics'
<1>1. CASE publisher = NotPublishing
  BY <1>1 DEF TracksChanges, PublishInv
<1>2. CASE publisher # NotPublishing
  <2> PICK p \in Publishing : p = publisher
    BY <1>2 DEF BusInv, BusTypeOK
  <2> PICK i \in DOMAIN g_topics : i = p.topic
    BY <1>2 DEF BusInv, BusTypeOK
  <2> PICK t \in Topic : t = g_topics[i]
    BY LenProperties, ElementOfSeq DEF BusInv, BusTypeOK
  <2> PICK r \in Topic : r = g_topics'[i]
    BY LenProperties, ElementOfSeq
  <2> PICK q : q = Noted(p, Attached(t), Attached(r))
    OBVIOUS
  <2>1. publisher' = q
    BY <1>2 DEF TracksChanges
  <2>2. /\ q \in Publishing /\ q.topic = i /\ q.i = p.i /\ q.n = p.n /\ q.obs = p.obs
        /\ Attached(t) = Attached(r) => q = p
    <3>1. Attached(t) \in SUBSET BusSlots /\ Attached(r) \in SUBSET BusSlots
      BY AttachedAreSlots
    <3>2. IsNoted(q, p, Attached(t), Attached(r))
      BY <3>1, NotedFacts
    <3>3. QED
      BY <3>2 DEF IsNoted
  <2>3. /\ p.i <= p.n + 1 /\ Len(p.obs) = p.n /\ Len(told) = p.i - 1
        /\ Relies(p, told, t)
    BY <1>2 DEF BusInv, PublishInv
  <2>4. \A j, k \in 1..t.count : t.obs[j] = t.obs[k] => j = k
    BY DEF BusInv, SubjectInv
  <2>5. Relies(q, told, r)
    <3>1. CASE r = t
      BY <2>2, <2>3, <3>1
    <3>2. CASE \E e : JoinsSubject(t, r, e)
      BY <2>3, <3>2, JoinIsNoted
    <3>3. CASE \E e : LeavesSubject(t, r, e)
      BY <2>3, <2>4, <3>3, LeaveIsNoted
    <3>4. QED
      BY <3>1, <3>2, <3>3 DEF SubjectChanges
  <2>6. QED
    BY <2>1, <2>2, <2>3, <2>5 DEF PublishInv
<1>3. QED
  BY <1>1, <1>2

LEMMA SubscribeKeepsIt ==
  ASSUME BusInv, NEW kind \in Kinds, NEW name \in TopicNames, NEW who \in Observers,
         Subscribes(kind, name, who)
  PROVE  BusInv'
<1> DEFINE topics == find_or_create_topic(name)
           free == {i \in 1..EVENTBUS_MAX_OBS : <<kind, i>> \notin DOMAIN pool}
<1> PICK t : t = find_topic(topics, name)
  OBVIOUS
<1>1. /\ topics \in Seq(Topic)
      /\ DOMAIN g_topics \subseteq DOMAIN topics
      /\ \A i \in DOMAIN g_topics : topics[i] = g_topics[i]
      /\ \A i \in DOMAIN topics \ DOMAIN g_topics : topics[i].count = 0
  BY CreateFacts
<1>2. \A i \in DOMAIN topics : topics[i] \in Topic
  BY <1>1, LenProperties, ElementOfSeq
<1>3. joined' \in Nat /\ TracksChanges /\ told' = told
  BY DEF Subscribes, BusInv, BusTypeOK
\* Where an entry is attached, it is in use for that topic.
<1>4. ASSUME NEW i \in DOMAIN topics
      PROVE  /\ \A j \in 1..topics[i].count :
                  topics[i].obs[j] \in DOMAIN pool /\ pool[topics[i].obs[j]].topic_idx = i
             /\ \A j, k \in 1..topics[i].count : topics[i].obs[j] = topics[i].obs[k] => j = k
  <2>1. CASE i \in DOMAIN g_topics
    <3>1. topics[i] = g_topics[i]
      BY <1>1, <2>1
    <3>2. QED
      BY <2>1, <3>1 DEF BusInv, SubjectInv
  <2>2. CASE i \notin DOMAIN g_topics
    <3>1. topics[i].count = 0
      BY <1>1, <2>2
    <3>2. QED
      BY <3>1
  <2>3. QED
    BY <2>1, <2>2
<1>5. CASE t = 0 \/ free = {}
  <2>1. g_topics' = topics /\ pool' = pool
    BY <1>5 DEF Subscribes
  <2> HIDE DEF topics, free
  <2>2. \A i \in DOMAIN g_topics' : SubjectInv(i)'
    BY <1>4, <2>1 DEF SubjectInv
  <2>3. \A i \in DOMAIN g_topics : SubjectChanges(g_topics[i], g_topics'[i])
    BY <1>1, <2>1 DEF SubjectChanges
  <2>4. /\ PublishInv'
        /\ \/ publisher' = NotPublishing
           \/ publisher' \in Publishing /\ publisher'.topic \in DOMAIN g_topics'
    BY <1>1, <1>3, <2>1, <2>3, PublishGoesOn
  <2>5. BusTypeOK'
    BY <1>1, <1>3, <2>1, <2>4 DEF BusInv, BusTypeOK
  <2>6. QED
    BY <2>2, <2>4, <2>5 DEF BusInv
<1>6. CASE t # 0 /\ free # {}
  <2>1. t \in DOMAIN topics
    BY <1>1, <1>6, TopicFacts
  <2>2. Min(free) \in free
    <3>1. free \in SUBSET Nat
      BY BusAssumption
    <3> HIDE DEF free
    <3>2. QED
      BY <1>6, <3>1, MinIsIn
  <2> PICK e : e = <<kind, Min(free)>>
    OBVIOUS
  <2>3. e \in BusEntries /\ e \notin DOMAIN pool
    BY <2>2 DEF BusEntries
  <2> DEFINE r == subject_attach(topics[t], e)
             new == [topic_idx |-> t, who |-> who]
  <2>4. /\ g_topics' = [topics EXCEPT ![t] = r]
        /\ pool' = [x \in DOMAIN pool \cup {e} |-> IF x = e THEN new ELSE pool[x]]
    BY <1>6 DEF Subscribes
  <2>5. /\ r \in Topic /\ SubjectChanges(topics[t], r)
        /\ r.count \in {topics[t].count, topics[t].count + 1}
        /\ \A j \in 1..topics[t].count : r.obs[j] = topics[t].obs[j]
        /\ r.count # topics[t].count => r.obs[r.count] = e
    <3>1. r \in Topic /\ (r = topics[t] \/ JoinsSubject(topics[t], r, e))
      BY <1>2, <2>1, <2>3, AttachFacts
    <3> HIDE DEF r, topics
    <3>2. CASE r = topics[t]
      BY <3>1, <3>2 DEF SubjectChanges
    <3>3. CASE JoinsSubject(topics[t], r, e)
      <4>1. PICK s \in Topic : s = topics[t]
        BY <1>2, <2>1
      <4>2. /\ \A j \in 1..SUBJECT_MAX_OBS : r.obs[j] = IF j = s.count + 1 THEN e ELSE s.obs[j]
            /\ r.count = s.count + 1 /\ s.count + 1 \in 1..SUBJECT_MAX_OBS
            /\ s.count \in 0..SUBJECT_MAX_OBS
        <5>1. JoinsSubject(s, r, e)
          BY <3>3, <4>1
        <5>2. \A j \in 1..SUBJECT_MAX_OBS : r.obs[j] = IF j = s.count + 1 THEN e ELSE s.obs[j]
          BY <3>1, <5>1, JoinedFacts
        <5>3. r.count = s.count + 1 /\ s.count + 1 \in 1..SUBJECT_MAX_OBS
          BY <5>1 DEF JoinsSubject
        <5>4. QED
          BY <5>2, <5>3, AttachedAreSlots
      <4>3. \A j \in 1..s.count : j \in 1..SUBJECT_MAX_OBS /\ j # s.count + 1
        BY <4>2, BusAssumption
      <4>4. QED
        BY <3>1, <3>3, <4>1, <4>2, <4>3 DEF SubjectChanges
    <3>4. QED
      BY <3>1, <3>2, <3>3
  <2>6. topics[t].count \in Nat /\ \A i \in DOMAIN topics : topics[i].count \in Int
    BY <1>2, <2>1, BusAssumption DEF Topic
  <2>7. new.topic_idx = t
    OBVIOUS
  <2> HIDE DEF topics, free, r, new
  <2>8. /\ g_topics' \in Seq(Topic) /\ DOMAIN g_topics' = DOMAIN topics
        /\ g_topics'[t] = r
        /\ \A i \in DOMAIN topics : i # t => g_topics'[i] = topics[i]
    <3>1. /\ Len(topics) \in Nat /\ DOMAIN topics = 1..Len(topics)
      BY <1>1, LenProperties
    <3>2. /\ g_topics' \in Seq(Topic) /\ Len(g_topics') = Len(topics)
      BY <1>1, <2>1, <2>4, <2>5, <3>1, ExceptSeq
    <3>3. QED
      BY <1>1, <2>1, <2>4, <3>1, <3>2, LenProperties
  <2>9. /\ DOMAIN pool' = DOMAIN pool \cup {e}
        /\ pool' = [x \in DOMAIN pool' |-> pool'[x]]
        /\ pool'[e] = new
        /\ \A x \in DOMAIN pool : pool'[x] = pool[x]
    BY <2>3, <2>4
  <2>10. ASSUME NEW i \in DOMAIN topics PROVE SubjectInv(i)'
    <3>1. CASE i = t
      <4>1. \A j \in 1..r.count : j \in 1..topics[t].count \/ (r.obs[j] = e /\ j = r.count)
        BY <2>5, <2>6
      <4>2. \A j \in 1..topics[t].count : r.obs[j] # e
        BY <1>4, <2>1, <2>3, <2>5
      <4>3. \A j \in 1..r.count : r.obs[j] \in DOMAIN pool' /\ pool'[r.obs[j]].topic_idx = t
        BY <1>4, <2>1, <2>5, <2>7, <2>9, <4>1
      <4>4. \A j, k \in 1..r.count : r.obs[j] = r.obs[k] => j = k
        BY <1>4, <2>1, <2>5, <4>1, <4>2
      <4>5. QED
        BY <2>8, <3>1, <4>3, <4>4 DEF SubjectInv
    <3>2. CASE i # t
      BY <1>4, <2>8, <2>9, <3>2 DEF SubjectInv
    <3>3. QED
      BY <3>1, <3>2
  <2>11. ASSUME NEW i \in DOMAIN g_topics
         PROVE  SubjectChanges(g_topics[i], g_topics'[i])
    <3>1. i \in DOMAIN topics /\ topics[i] = g_topics[i]
      BY <1>1
    <3>2. CASE i = t
      BY <2>5, <2>8, <3>1, <3>2
    <3>3. CASE i # t
      BY <2>8, <3>1, <3>3 DEF SubjectChanges
    <3>4. QED
      BY <3>2, <3>3
  <2>12. /\ PublishInv'
         /\ \/ publisher' = NotPublishing
            \/ publisher' \in Publishing /\ publisher'.topic \in DOMAIN g_topics'
    BY <1>1, <1>3, <2>8, <2>11, PublishGoesOn
  <2>13. BusTypeOK'
    BY <1>1, <1>3, <2>3, <2>8, <2>9, <2>12 DEF BusInv, BusTypeOK
  <2>14. QED
    BY <2>8, <2>10, <2>12, <2>13 DEF BusInv
<1>7. QED
  BY <1>5, <1>6

LEMMA DetachKeepsIt ==
  ASSUME BusInv, NEW kind \in Kinds, NEW name \in TopicNames, NEW who \in Observers,
         Detaches(kind, name, who)
  PROVE  BusInv'
<1> DEFINE I == {i \in 1..EVENTBUS_MAX_OBS :
                   /\ <<kind, i>> \in DOMAIN pool
                   /\ pool[<<kind, i>>] = [topic_idx |-> find_topic(g_topics, name), who |-> who]}
<1>1. g_topics \in Seq(Topic) /\ \A i \in DOMAIN g_topics : g_topics[i] \in Topic
  BY LenProperties, ElementOfSeq DEF BusInv, BusTypeOK
<1>2. PICK t \in DOMAIN g_topics : t = find_topic(g_topics, name)
  BY <1>1, TopicFacts DEF Detaches
<1>3. Min(I) \in I
  <2>1. I \in SUBSET Nat /\ I # {}
    BY BusAssumption DEF Detaches
  <2> HIDE DEF I
  <2>2. QED
    BY <2>1, MinIsIn
<1>4. PICK e \in DOMAIN pool : e = <<kind, Min(I)>> /\ pool[e].topic_idx = t
  <2>1. /\ <<kind, Min(I)>> \in DOMAIN pool
        /\ pool[<<kind, Min(I)>>] = [topic_idx |-> find_topic(g_topics, name), who |-> who]
    BY <1>3
  <2> HIDE DEF I
  <2>2. pool[<<kind, Min(I)>>].topic_idx = t
    BY <1>2, <2>1
  <2>3. QED
    BY <2>1, <2>2
<1> DEFINE r == subject_detach(g_topics[t], e)
<1>5. /\ g_topics' = [g_topics EXCEPT ![t] = r]
      /\ pool' = Restrict(pool, DOMAIN pool \ {e})
      /\ TracksChanges /\ told' = told /\ joined' = joined
  BY <1>2, <1>4 DEF Detaches
<1> PICK s \in Topic : s = g_topics[t]
  BY <1>1
<1>6. /\ r \in Topic /\ SubjectChanges(s, r)
      /\ \A j \in 1..r.count : r.obs[j] \in Attached(s) /\ r.obs[j] # e
      /\ \A j, k \in 1..r.count : r.obs[j] = r.obs[k] => j = k
  <2>1. \A j, k \in 1..s.count : s.obs[j] = s.obs[k] => j = k
    BY DEF BusInv, SubjectInv
  <2>2. r \in Topic /\ ((r = s /\ e \notin Attached(s)) \/ LeavesSubject(s, r, e))
    BY DetachFacts
  <2> HIDE DEF r
  <2>3. CASE r = s /\ e \notin Attached(s)
    BY <2>1, <2>2, <2>3 DEF SubjectChanges, Attached
  <2>4. CASE LeavesSubject(s, r, e)
    <3>1. Attached(r) = Attached(s) \ {e} /\ \A j, k \in 1..r.count : r.obs[j] = r.obs[k] => j = k
      BY <2>1, <2>2, <2>4, LeftFacts
    <3>2. \A j \in 1..r.count : r.obs[j] \in Attached(r)
      BY DEF Attached
    <3>3. QED
      BY <2>2, <2>4, <3>1, <3>2 DEF SubjectChanges
  <2>5. QED
    BY <2>2, <2>3, <2>4
<1> HIDE DEF r, I
<1>7. /\ g_topics' \in Seq(Topic) /\ DOMAIN g_topics' = DOMAIN g_topics
      /\ g_topics'[t] = r
      /\ \A i \in DOMAIN g_topics : i # t => g_topics'[i] = g_topics[i]
  <2>1. Len(g_topics) \in Nat /\ DOMAIN g_topics = 1..Len(g_topics)
    BY <1>1, LenProperties
  <2>2. g_topics' \in Seq(Topic) /\ Len(g_topics') = Len(g_topics)
    BY <1>1, <1>5, <1>6, <2>1, ExceptSeq
  <2>3. QED
    BY <1>1, <1>5, <2>1, <2>2, LenProperties
<1>8. /\ DOMAIN pool' = DOMAIN pool \ {e}
      /\ pool' = [x \in DOMAIN pool' |-> pool'[x]]
      /\ \A x \in DOMAIN pool' : pool'[x] = pool[x]
  BY <1>5 DEF Restrict
<1>9. ASSUME NEW i \in DOMAIN g_topics PROVE SubjectInv(i)'
  <2>1. CASE i = t
    <3>1. \A j \in 1..r.count : r.obs[j] \in DOMAIN pool /\ r.obs[j] # e
                                /\ pool[r.obs[j]].topic_idx = t
      BY <1>6 DEF BusInv, SubjectInv, Attached
    <3>2. QED
      BY <1>6, <1>7, <1>8, <2>1, <3>1 DEF SubjectInv
  <2>2. CASE i # t
    <3>1. \A j \in 1..g_topics[i].count : g_topics[i].obs[j] # e
      BY <1>4, <2>2 DEF BusInv, SubjectInv
    <3>2. QED
      BY <1>7, <1>8, <2>2, <3>1 DEF BusInv, SubjectInv
  <2>3. QED
    BY <2>1, <2>2
<1>10. \A i \in DOMAIN g_topics : SubjectChanges(g_topics[i], g_topics'[i])
  BY <1>6, <1>7 DEF SubjectChanges
<1>11. /\ PublishInv'
       /\ \/ publisher' = NotPublishing
          \/ publisher' \in Publishing /\ publisher'.topic \in DOMAIN g_topics'
  BY <1>5, <1>7, <1>10, PublishGoesOn
<1>12. BusTypeOK'
  BY <1>5, <1>7, <1>8, <1>11 DEF BusInv, BusTypeOK
<1>13. QED
  BY <1>7, <1>9, <1>11, <1>12 DEF BusInv

LEMMA PublishKeepsIt ==
  ASSUME BusInv, NEW name \in TopicNames, Publishes(name)
  PROVE  BusInv'
<1>1. g_topics \in Seq(Topic)
  BY DEF BusInv, BusTypeOK
<1>2. PICK i \in DOMAIN g_topics : i = find_topic(g_topics, name)
  BY <1>1, TopicFacts DEF Publishes
<1> PICK t \in Topic : t = g_topics[i]
  BY <1>1, LenProperties, ElementOfSeq
<1> DEFINE all == [j \in 1..SUBJECT_MAX_OBS |-> t.obs[j]]
           obs == SubSeq(all, 1, t.count)
<1>3. /\ t.count \in 0..SUBJECT_MAX_OBS /\ SUBJECT_MAX_OBS \in Nat /\ i \in Nat
      /\ \A j \in 1..SUBJECT_MAX_OBS : t.obs[j] \in BusSlots
  BY <1>1, LenProperties, BusAssumption DEF Topic
<1>4. /\ obs \in Seq(BusSlots) /\ Len(obs) = t.count
      /\ \A j \in 1..t.count : obs[j] = t.obs[j]
  <2>1. /\ \A j \in 1..t.count : all[j] \in BusSlots /\ all[j] = t.obs[j]
        /\ \A j \in 1..t.count : 1 + j - 1 = j
        /\ t.count - 1 + 1 = t.count
        /\ (IF 1 <= t.count THEN t.count - 1 + 1 ELSE 0) = t.count
    BY <1>3
  <2> HIDE DEF all
  <2>2. /\ obs \in Seq(BusSlots)
        /\ Len(obs) = IF 1 <= t.count THEN t.count - 1 + 1 ELSE 0
        /\ \A j \in 1..(t.count - 1 + 1) : obs[j] = all[1 + j - 1]
    BY <1>3, <2>1, SubSeqProperties
  <2>3. QED
    BY <2>1, <2>2
<1> HIDE DEF obs, all
<1> DEFINE q == [topic |-> i, i |-> 1, n |-> t.count, obs |-> obs,
                 left |-> {}, came |-> {}, refilled |-> FALSE]
<1>5. /\ publisher' = q /\ told' = <<>>
      /\ g_topics' = g_topics /\ pool' = pool /\ joined' = joined
  BY <1>2 DEF Publishes, NotPublishing, obs, all
<1>6. q \in Publishing
  BY <1>3, <1>4 DEF Publishing
<1>7. BusTypeOK'
  <2>1. told' \in Seq(BusSlots)
    BY <1>5, EmptySeq
  <2>2. q.topic = i
    OBVIOUS
  <2> HIDE DEF q
  <2>3. QED
    BY <1>5, <1>6, <2>1, <2>2 DEF BusInv, BusTypeOK
<1>8. \A k \in DOMAIN g_topics' : SubjectInv(k)'
  BY <1>5 DEF BusInv, SubjectInv
<1>9. Relies(q, <<>>, t)
  <2>1. \A j \in 1..t.count : obs[j] \in Range(obs) /\ t.obs[j] = obs[j]
    BY <1>4, LenProperties DEF Range
  <2>2. \A x \in Range(obs) : \E j \in 1..t.count : t.obs[j] = x
    BY <1>4, LenProperties DEF Range
  <2>3. Range(<<>>) = {}
    BY DEF Range
  <2>4. \A j \in 1..SUBJECT_MAX_OBS : j <= t.count => t.obs[j] \in Range(obs)
    BY <1>3, <2>1
  <2>5. t.count <= t.count /\ 1..(1 - 1) = {}
    BY <1>3
  <2>6. QED
    BY <2>1, <2>2, <2>3, <2>4, <2>5 DEF Relies
<1>10. PublishInv'
  <2>1. Len(told') = 0 /\ 1 <= t.count + 1
    BY <1>3, <1>5, EmptySeq
  <2>2. /\ publisher'.i = 1 /\ publisher'.n = t.count /\ publisher'.obs = obs
        /\ publisher'.topic = i
    BY <1>5
  <2> HIDE DEF q
  <2>3. Relies(publisher', told', g_topics'[publisher'.topic])
    BY <1>5, <1>9, <2>2
  <2>4. QED
    BY <1>4, <2>1, <2>2, <2>3 DEF PublishInv
<1>11. QED
  BY <1>7, <1>8, <1>10 DEF BusInv

\* The observer in slot i, x, is updated: it was attached once, and it is the one
\* that was there in the beginning if nobody has left.
LEMMA UpdateIsRelied ==
  ASSUME NEW p \in Publishing, NEW seen \in Seq(BusSlots), NEW t \in Topic,
         p.i <= p.n, Len(seen) = p.i - 1, Relies(p, seen, t)
  PROVE  /\ Append(seen, t.obs[p.i]) \in Seq(BusSlots)
         /\ Len(Append(seen, t.obs[p.i])) = p.i
         /\ Relies([p EXCEPT !.i = @ + 1], Append(seen, t.obs[p.i]), t)
<1> PICK i \in Nat \ {0} : i = p.i
  BY DEF Publishing
<1> PICK n \in 0..SUBJECT_MAX_OBS : n = p.n
  BY DEF Publishing
<1> PICK x : x = t.obs[i]
  OBVIOUS
<1> DEFINE next == Append(seen, x)
           q == [p EXCEPT !.i = @ + 1]
<1>1. i \in 1..n /\ i \in 1..SUBJECT_MAX_OBS /\ i - 1 + 1 = i /\ Len(seen) = i - 1
  BY BusAssumption
<1>2. x \in BusSlots
  BY <1>1 DEF Topic
<1>3. /\ next \in Seq(BusSlots) /\ Len(next) = i
      /\ next[i] = x /\ \A j \in 1..(i - 1) : next[j] = seen[j]
  BY <1>1, <1>2, AppendProperties
<1>4. /\ q.i = i + 1 /\ q.n = n /\ q.obs = p.obs /\ q.left = p.left
      /\ q.came = p.came /\ q.refilled = p.refilled
  BY DEF Publishing
<1> HIDE DEF next, q
<1>5. \A j \in 1..i : j \in 1..(i - 1) \/ j = i
  OBVIOUS
<1>6. Range(next) = Range(seen) \cup {x}
  <2>1. DOMAIN next = 1..i /\ DOMAIN seen = 1..(i - 1) /\ i \in 1..i
    BY <1>1, <1>3, LenProperties
  <2>2. \A j \in 1..(i - 1) : j \in 1..i
    OBVIOUS
  <2>3. QED
    BY <1>3, <1>5, <2>1, <2>2 DEF Range
<1>7. p.left = {} => /\ n <= t.count /\ \A j \in 1..n : t.obs[j] = p.obs[j]
                     /\ \A j \in 1..(i - 1) : seen[j] = p.obs[j]
  BY DEF Relies
<1>8. q.left = {} => /\ q.n <= t.count /\ \A j \in 1..q.n : t.obs[j] = q.obs[j]
                     /\ \A j \in 1..(q.i - 1) : next[j] = q.obs[j]
  <2>1. q.i - 1 = i
    BY <1>4
  <2>2. p.left = {} => \A j \in 1..i : next[j] = p.obs[j]
    BY <1>1, <1>3, <1>5, <1>7
  <2>3. QED
    BY <1>4, <1>7, <2>1, <2>2
<1>9. ASSUME ~q.refilled, NEW e \in Range(q.obs) \ q.left
      PROVE  e \in Range(next) \/ \E j \in q.i..q.n : t.obs[j] = e
  <2>1. e \in Range(seen) \/ \E j \in i..n : t.obs[j] = e
    BY <1>4, <1>9 DEF Relies
  <2>2. \A j \in i..n : j = i \/ j \in (i + 1)..n
    OBVIOUS
  <2>3. QED
    BY <1>4, <1>6, <2>1, <2>2
<1>10. /\ \A j \in 1..SUBJECT_MAX_OBS :
            j <= n \/ j <= t.count => t.obs[j] \in Range(p.obs) \cup p.came
       /\ Range(seen) \subseteq Range(p.obs) \cup p.came
  BY DEF Relies
<1>11. Range(next) \subseteq Range(q.obs) \cup q.came
  BY <1>1, <1>4, <1>6, <1>10
<1>12. Relies(q, next, t)
  BY <1>4, <1>8, <1>9, <1>10, <1>11 DEF Relies
<1>13. QED
  BY <1>3, <1>12 DEF next, q

LEMMA UpdateKeepsIt ==
  ASSUME BusInv, Updates
  PROVE  BusInv'
<1>1. /\ told \in Seq(BusSlots) /\ publisher # NotPublishing
      /\ g_topics' = g_topics /\ pool' = pool /\ joined' = joined
  BY DEF BusInv, BusTypeOK, Updates
<1> PICK p \in Publishing : p = publisher
  BY <1>1 DEF BusInv, BusTypeOK
<1>2. \A k \in DOMAIN g_topics' : SubjectInv(k)'
  BY <1>1 DEF BusInv, SubjectInv
<1>3. CASE p.i > p.n
  <2>1. publisher' = NotPublishing /\ told' = told
    BY <1>3 DEF Updates
  <2>2. BusTypeOK' /\ PublishInv'
    BY <1>1, <2>1 DEF BusInv, BusTypeOK, PublishInv
  <2>3. QED
    BY <1>2, <2>2 DEF BusInv
<1>4. CASE ~(p.i > p.n)
  <2> PICK i \in DOMAIN g_topics : i = p.topic
    BY <1>1 DEF BusInv, BusTypeOK
  <2> PICK t \in Topic : t = g_topics[i]
    BY LenProperties, ElementOfSeq DEF BusInv, BusTypeOK
  <2> DEFINE q == [p EXCEPT !.i = @ + 1]
             next == Append(told, t.obs[p.i])
  <2>1. publisher' = q /\ told' = next
    BY <1>4 DEF Updates
  <2>2. /\ p.i \in Nat \ {0} /\ p.n \in 0..SUBJECT_MAX_OBS
    BY DEF Publishing
  <2>3. /\ p.i <= p.n /\ Len(told) = p.i - 1 /\ Len(p.obs) = p.n /\ Relies(p, told, t)
    BY <1>1, <1>4, <2>2, BusAssumption DEF BusInv, PublishInv
  <2>4. /\ q \in Publishing /\ q.topic = i /\ q.i = p.i + 1 /\ q.n = p.n /\ q.obs = p.obs
    BY <2>2 DEF Publishing
  <2>5. next \in Seq(BusSlots) /\ Len(next) = p.i /\ Relies(q, next, t)
    BY <1>1, <2>3, UpdateIsRelied
  <2>6. q # NotPublishing /\ q.i <= q.n + 1 /\ Len(next) = q.i - 1
    <3>1. i # 0
      BY LenProperties DEF BusInv, BusTypeOK
    <3>2. q.i <= q.n + 1 /\ Len(next) = q.i - 1
      <4> HIDE DEF q, next
      <4>1. PICK j \in Nat \ {0}, n \in 0..SUBJECT_MAX_OBS : j = p.i /\ n = p.n
        BY <2>2
      <4>2. QED
        BY <2>3, <2>4, <2>5, <4>1, BusAssumption
    <3> HIDE DEF q
    <3>3. QED
      BY <2>4, <3>1, <3>2 DEF NotPublishing
  <2> HIDE DEF q, next
  <2>7. BusTypeOK'
    BY <1>1, <2>1, <2>4, <2>5 DEF BusInv, BusTypeOK
  <2>8. PublishInv'
    BY <1>1, <2>1, <2>3, <2>4, <2>5, <2>6 DEF PublishInv
  <2>9. QED
    BY <1>2, <2>7, <2>8 DEF BusInv
<1>5. QED
  BY <1>3, <1>4

LEMMA BusStep == BusInv /\ [BusNext]_busVars => BusInv'
<1> SUFFICES ASSUME BusInv, [BusNext]_busVars PROVE BusInv'
  OBVIOUS
<1>1. CASE UNCHANGED busVars
  BY <1>1 DEF busVars, BusInv, BusTypeOK, SubjectInv, PublishInv
<1>2. QED
  BY <1>1, SubscribeKeepsIt, DetachKeepsIt, PublishKeepsIt, UpdateKeepsIt
     DEF BusNext, Subscribe, Detach

\* Every subject holds entries in use for its topic, none of them twice; and a
\* publish under way, whoever subscribes and detaches while it is blocked, has
\* before it or behind it those it is to update.
THEOREM BusInvariant == BusSpec => []BusInv
<1>1. QED
  BY BusInitially, BusStep, PTL DEF BusSpec

LEMMA AttachedOnce == BusInv => AttachedAreInUse
<1> SUFFICES ASSUME BusInv PROVE AttachedAreInUse
  OBVIOUS
<1>1. ASSUME NEW i \in DOMAIN g_topics, NEW t, t = g_topics[i]
      PROVE  /\ \A e \in Attached(t) : e \in DOMAIN pool /\ pool[e].topic_idx = i
             /\ Cardinality(Attached(t)) = t.count
  <2>1. t.count \in Nat
    <3>1. t \in Topic
      BY <1>1, LenProperties, ElementOfSeq DEF BusInv, BusTypeOK
    <3>2. QED
      BY <3>1, BusAssumption DEF Topic
  <2> DEFINE f == [j \in 1..t.count |-> t.obs[j]]
  <2>2. /\ f \in [1..t.count -> Attached(t)]
        /\ \A x \in Attached(t) : \E j \in 1..t.count : f[j] = x
    BY DEF Attached
  <2>3. \A j, k \in 1..t.count : f[j] = f[k] => j = k
    BY <1>1 DEF BusInv, SubjectInv
  <2> HIDE DEF f
  <2>4. Cardinality(Attached(t)) = t.count
    BY <2>1, <2>2, <2>3, DistinctCount
  <2>5. QED
    BY <1>1, <2>4 DEF BusInv, SubjectInv, Attached
<1>2. QED
  BY <1>1 DEF AttachedAreInUse

\* A publish returns after its last update: it has them all behind it.
LEMMA ReturnsServed ==
  ASSUME BusInv, [BusNext]_busVars, PublishReturns
  PROVE  /\ publisher.left = {} => told = publisher.obs
         /\ ~publisher.refilled => Stayed \subseteq Range(told)
         /\ OnlyTheAttached
<1>1. publisher # NotPublishing /\ publisher' = NotPublishing
  BY DEF PublishReturns
<1> PICK p \in Publishing : p = publisher
  BY <1>1 DEF BusInv, BusTypeOK
<1> PICK i \in DOMAIN g_topics : i = p.topic
  BY <1>1 DEF BusInv, BusTypeOK
<1> PICK t \in Topic : t = g_topics[i]
  BY LenProperties, ElementOfSeq DEF BusInv, BusTypeOK
<1>2. /\ p.i \in Nat \ {0} /\ p.n \in 0..SUBJECT_MAX_OBS /\ i # 0
      /\ told \in Seq(BusSlots) /\ p.obs \in Seq(BusSlots)
  BY LenProperties DEF Publishing, BusInv, BusTypeOK
<1>3. TracksChanges => publisher' # NotPublishing
  <2>1. ASSUME TracksChanges PROVE publisher'.topic = i
    <3>1. publisher' = Noted(p, Attached(g_topics[i]), Attached(g_topics'[i]))
      BY <1>1, <2>1 DEF TracksChanges
    <3>2. QED
      BY <3>1 DEF Noted, Publishing
  <2>2. QED
    BY <1>2, <2>1 DEF NotPublishing
<1>4. Updates /\ p.i > p.n
  <2>1. BusNext
    BY <1>1 DEF busVars
  <2>2. Updates
    BY <1>1, <1>3, <2>1 DEF BusNext, Subscribe, Detach, Subscribes, Detaches, Publishes
  <2>3. ~(p.i > p.n) => publisher'.topic = i
    BY <2>2 DEF Updates, Publishing
  <2>4. QED
    BY <1>1, <1>2, <2>2, <2>3 DEF NotPublishing
<1>5. /\ p.i <= p.n + 1 /\ Len(p.obs) = p.n /\ Len(told) = p.i - 1 /\ Relies(p, told, t)
  BY <1>1 DEF BusInv, PublishInv
<1>6. p.i - 1 = p.n /\ p.i..p.n = {}
  <2>1. PICK j \in Nat \ {0}, n \in 0..SUBJECT_MAX_OBS : j = p.i /\ n = p.n
    BY <1>2
  <2>2. j > n /\ j <= n + 1
    BY <1>4, <1>5, <2>1
  <2>3. j - 1 = n /\ j..n = {}
    BY <2>1, <2>2, BusAssumption
  <2>4. QED
    BY <2>1, <2>3
<1>7. p.left = {} => told = p.obs
  <2>1. Len(told) = Len(p.obs)
    BY <1>5, <1>6
  <2>2. p.left = {} => \A j \in 1..Len(told) : told[j] = p.obs[j]
    BY <1>5 DEF Relies
  <2>3. QED
    BY <1>2, <2>1, <2>2, SeqEqual
<1>8. ~p.refilled => Stayed \subseteq Range(told)
  BY <1>5, <1>6 DEF Relies, Stayed
<1>9. OnlyTheAttached
  BY <1>5 DEF Relies, OnlyTheAttached
<1>10. QED
  BY <1>7, <1>8, <1>9

\* However often observers come and go, no subject holds an entry that was
\* given back or one twice; and whatever tasks did while a publish was blocked
\* in an update, it has updated all it began with, each once, if nobody left its
\* subject, those who stayed if no gap was filled again, and nobody else.
THEOREM ObserversServed == BusSpec => ObserversAreServed
<1>1. BusInv /\ [BusNext]_busVars =>
        [PublishReturns =>
           /\ publisher.left = {} => told = publisher.obs
           /\ ~publisher.refilled => Stayed \subseteq Range(told)
           /\ OnlyTheAttached]_busVars
  BY ReturnsServed
<1>2. QED
  BY <1>1, AttachedOnce, BusInvariant, PTL DEF BusSpec, ObserversAreServed

-----------------------------------------------------------------------------
(* The Rock-Paper-Scissors server: who waits for it is remembered by it.    *)

Calls == {"SIGNUP", "PLAY", "QUIT"}
Results == {"none", "ERR", "left", "OPP_QUIT", "PAIRED", "WIN", "LOSE", "TIE"}
RpsMsg == [tid : Players, type : Calls, move : Moves \cup {NoMove}]
RpsSlot == [in_use : BOOLEAN, tid : Players \cup {0}, opp : PlayerSlots \cup {-1},
            move : Moves \cup {NoMove}, played : BOOLEAN]
RpsPlayer == [at : {"out", "runs"} \cup Calls,
              got : [result : Results, opp_move : Moves \cup {NoMove}]]

RpsTypeOK ==
  /\ rpsInbox \in Seq(RpsMsg)
  /\ slots \in [PlayerSlots -> RpsSlot]
  /\ waiting \in PlayerSlots \cup {-1}
  /\ player \in [Players -> RpsPlayer]

\* A player waits while its message is in the inbox.
RpsInboxInv ==
  /\ \A i \in DOMAIN rpsInbox :
       /\ player[rpsInbox[i].tid].at = rpsInbox[i].type
       /\ rpsInbox[i].type = "PLAY" => rpsInbox[i].move \in Moves
  /\ \A i, j \in DOMAIN rpsInbox : rpsInbox[i].tid = rpsInbox[j].tid => i = j

Has(s, p) == slots[s].in_use /\ slots[s].tid = p

\* Pairs are mutual, and of a pair one at most has its move held.
SlotInv ==
  \A s \in PlayerSlots : slots[s].in_use =>
    /\ slots[s].tid \in Players
    /\ \A t \in PlayerSlots : Has(t, slots[s].tid) => t = s
    /\ slots[s].opp # -1 =>
         slots[slots[s].opp].in_use /\ slots[slots[s].opp].opp = s /\ slots[s].opp # s
    /\ slots[s].played =>
         slots[s].opp # -1 /\ ~slots[slots[s].opp].played /\ slots[s].move \in Moves

\* A slot knows what its player waits for.
HolderInv ==
  /\ \A s \in PlayerSlots, p \in Players : Has(s, p) =>
       /\ player[p].at # "out"
       /\ player[p].at = "SIGNUP" => waiting = s /\ ~InInbox(p)
       /\ waiting = s => player[p].at = "SIGNUP" /\ slots[s].opp = -1
       /\ slots[s].played => player[p].at = "PLAY" /\ ~InInbox(p)
  /\ waiting # -1 => slots[waiting].in_use

\* Who is signed up has a slot; who waits for an answer is known to the server.
PlayerInv ==
  \A p \in Players :
    /\ player[p].at \in {"runs", "PLAY", "QUIT"} => \E s \in PlayerSlots : Has(s, p)
    /\ player[p].at = "SIGNUP" /\ ~InInbox(p) => \E s \in PlayerSlots : Has(s, p)
    /\ player[p].at = "PLAY" /\ ~InInbox(p) => \E s \in PlayerSlots : Has(s, p) /\ slots[s].played
    /\ player[p].at = "QUIT" => InInbox(p)

RpsInv == RpsTypeOK /\ RpsInboxInv /\ SlotInv /\ HolderInv /\ PlayerInv

LEMMA RpsFinds ==
  ASSUME NEW p
  PROVE  IF \E s \in PlayerSlots : Has(s, p)
         THEN slot_find(p) \in PlayerSlots /\ Has(slot_find(p), p)
         ELSE slot_find(p) = -1
<1> DEFINE S == {s \in PlayerSlots : slots[s].in_use /\ slots[s].tid = p}
<1>1. S \in SUBSET Nat
  BY RpsAssumption DEF PlayerSlots
<1>2. CASE S = {}
  BY <1>2 DEF slot_find, Has
<1>3. CASE S # {}
  <2>1. Min(S) \in S
    <3> HIDE DEF S
    <3>1. QED
      BY <1>1, <1>3, MinIsIn
  <2>2. slot_find(p) = Min(S)
    BY <1>3 DEF slot_find
  <2>3. QED
    BY <2>1, <2>2 DEF Has
<1>4. QED
  BY <1>2, <1>3

LEMMA RpsAllocs ==
  slot_alloc = -1 \/ (slot_alloc \in PlayerSlots /\ slot_alloc >= 0 /\ ~slots[slot_alloc].in_use)
<1> DEFINE S == {s \in PlayerSlots : ~slots[s].in_use}
<1>1. S \in SUBSET Nat
  BY RpsAssumption DEF PlayerSlots
<1>2. CASE S = {}
  BY <1>2 DEF slot_alloc
<1>3. CASE S # {}
  <2>1. Min(S) \in S
    <3> HIDE DEF S
    <3>1. QED
      BY <1>1, <1>3, MinIsIn
  <2>2. slot_alloc = Min(S)
    BY <1>3 DEF slot_alloc
  <2>3. QED
    BY <1>1, <2>1, <2>2
<1>4. QED
  BY <1>2, <1>3

\* A slot's number is not -1, the mark for no slot.
LEMMA SlotNumbers ==
  ASSUME NEW o \in PlayerSlots \cup {-1}
  PROVE  /\ o >= 0 <=> o \in PlayerSlots
         /\ o < 0 <=> o = -1
         /\ o # -1 <=> o \in PlayerSlots
         /\ -1 \notin PlayerSlots
BY RpsAssumption DEF PlayerSlots

LEMMA AnswersFacts ==
  ASSUME player \in [Players -> RpsPlayer], NEW answers, Answers(answers),
         \A p \in DOMAIN answers : answers[p] \in [result : Results, opp_move : Moves \cup {NoMove}]
  PROVE  /\ player' \in [Players -> RpsPlayer]
         /\ \A p \in Players : p \notin DOMAIN answers => player'[p] = player[p]
         /\ \A p \in Players : p \in DOMAIN answers =>
              /\ player'[p].at = IF answers[p].result \in {"ERR", "left"} THEN "out" ELSE "runs"
              /\ player'[p].got = answers[p]
<1>1. player' = [p \in Players |->
                   IF p \in DOMAIN answers
                   THEN [at |-> IF answers[p].result \in {"ERR", "left"} THEN "out" ELSE "runs",
                         got |-> answers[p]]
                   ELSE player[p]]
  BY DEF Answers
<1>2. ASSUME NEW p \in DOMAIN answers
      PROVE  [at |-> IF answers[p].result \in {"ERR", "left"} THEN "out" ELSE "runs",
              got |-> answers[p]] \in RpsPlayer
  BY DEF RpsPlayer
<1>3. QED
  BY <1>1, <1>2

\* The message m that is served leaves the inbox, and its sender has no other.
LEMMA ServedFacts ==
  ASSUME RpsInv, rpsInbox # <<>>, rpsInbox' = Tail(rpsInbox), NEW m, m = Head(rpsInbox)
  PROVE  /\ m \in RpsMsg /\ m.tid \in Players /\ player[m.tid].at = m.type /\ InInbox(m.tid)
         /\ m.type = "PLAY" => m.move \in Moves
         /\ rpsInbox' \in Seq(RpsMsg)
         /\ \A p \in Players : InInbox(p)' <=> InInbox(p) /\ p # m.tid
         /\ (\A p \in Players : p # m.tid /\ InInbox(p) => player'[p] = player[p]) => RpsInboxInv'
<1> DEFINE r == Tail(rpsInbox)
<1>1. /\ r \in Seq(RpsMsg) /\ m \in RpsMsg
      /\ m = rpsInbox[1] /\ 1 \in DOMAIN rpsInbox
      /\ \A i \in DOMAIN r : i \in Nat /\ i + 1 \in DOMAIN rpsInbox /\ i + 1 # 1
                             /\ r[i] = rpsInbox[i + 1]
      /\ \A i \in DOMAIN rpsInbox : i # 1 => i - 1 \in DOMAIN r /\ r[i - 1] = rpsInbox[i]
      /\ \A i \in DOMAIN rpsInbox : rpsInbox[i] \in RpsMsg
  <2>1. rpsInbox \in Seq(RpsMsg)
    BY DEF RpsInv, RpsTypeOK
  <2>2. \A i \in DOMAIN rpsInbox : rpsInbox[i] \in RpsMsg
    BY <2>1, LenProperties, ElementOfSeq
  <2>3. QED
    BY <2>1, <2>2, TailFacts
<1>2. rpsInbox' = r
  OBVIOUS
<1> HIDE DEF r
<1>3. m.tid \in Players
  BY <1>1 DEF RpsMsg
<1>4. /\ player[m.tid].at = m.type /\ InInbox(m.tid)
      /\ m.type = "PLAY" => m.move \in Moves
  BY <1>1 DEF RpsInv, RpsInboxInv, InInbox
<1>5. \A i \in DOMAIN r : r[i].tid # m.tid /\ r[i].tid \in Players /\ InInbox(r[i].tid)
  <2>1. \A i \in DOMAIN r : r[i].tid # m.tid
    BY <1>1 DEF RpsInv, RpsInboxInv
  <2>2. \A i \in DOMAIN r : r[i].tid \in Players
    BY <1>1 DEF RpsMsg
  <2>3. \A i \in DOMAIN r : InInbox(r[i].tid)
    BY <1>1 DEF InInbox
  <2>4. QED
    BY <2>1, <2>2, <2>3
<1>6. \A p \in Players : InInbox(p)' <=> InInbox(p) /\ p # m.tid
  <2> SUFFICES ASSUME NEW p \in Players PROVE InInbox(p)' <=> InInbox(p) /\ p # m.tid
    OBVIOUS
  <2>1. InInbox(p)' => InInbox(p) /\ p # m.tid
    BY <1>2, <1>5 DEF InInbox
  <2>2. ASSUME NEW i \in DOMAIN rpsInbox, rpsInbox[i].tid = p, p # m.tid
        PROVE  InInbox(p)'
    <3>1. i - 1 \in DOMAIN r /\ r[i - 1] = rpsInbox[i]
      BY <1>1, <2>2
    <3>2. QED
      BY <1>2, <2>2, <3>1 DEF InInbox
  <2>3. QED
    BY <2>1, <2>2 DEF InInbox
<1>7. ASSUME \A p \in Players : p # m.tid /\ InInbox(p) => player'[p] = player[p]
      PROVE  RpsInboxInv'
  <2>1. \A i \in DOMAIN r : player'[r[i].tid].at = r[i].type
                            /\ (r[i].type = "PLAY" => r[i].move \in Moves)
    BY <1>1, <1>5, <1>7 DEF RpsInv, RpsInboxInv
  <2>2. ASSUME NEW i \in DOMAIN r, NEW j \in DOMAIN r, r[i].tid = r[j].tid
        PROVE  i = j
    <3>1. i + 1 = j + 1
      BY <1>1, <2>2 DEF RpsInv, RpsInboxInv
    <3>2. i \in Nat /\ j \in Nat
      BY <1>1
    <3>3. QED
      BY <3>1, <3>2
  <2>3. QED
    BY <1>2, <2>1, <2>2 DEF RpsInboxInv
<1>8. QED
  BY <1>1, <1>2, <1>3, <1>4, <1>6, <1>7

LEMMA RpsInitially == RpsInit => RpsInv
<1> SUFFICES ASSUME RpsInit PROVE RpsInv
  OBVIOUS
<1>1. /\ rpsInbox = <<>> /\ DOMAIN rpsInbox = {} /\ waiting = -1
      /\ \A s \in PlayerSlots : ~slots[s].in_use
      /\ \A p \in Players : player[p].at = "out"
  BY DEF RpsInit, FreeSlot
<1>2. RpsTypeOK
  <2>1. FreeSlot \in RpsSlot
    BY DEF FreeSlot, RpsSlot
  <2>2. [at |-> "out", got |-> Answer("none", NoMove)] \in RpsPlayer
    BY DEF Answer, RpsPlayer, Results
  <2>3. QED
    BY <2>1, <2>2, EmptySeq DEF RpsInit, RpsTypeOK
<1>3. RpsInboxInv /\ SlotInv /\ HolderInv /\ PlayerInv
  BY <1>1 DEF RpsInboxInv, SlotInv, HolderInv, PlayerInv, Has
<1>4. QED
  BY <1>2, <1>3 DEF RpsInv

\* A player calls.
LEMMA AsksKeepsIt ==
  ASSUME RpsInv, NEW p \in Players, NEW type \in Calls, NEW move \in Moves \cup {NoMove},
         type = "PLAY" => move \in Moves,
         type = "SIGNUP" => player[p].at = "out", type # "SIGNUP" => player[p].at = "runs",
         RpsAsks(p, type, move)
  PROVE  RpsInv'
<1> DEFINE m == [tid |-> p, type |-> type, move |-> move]
           r == Append(rpsInbox, m)
<1>1. /\ rpsInbox \in Seq(RpsMsg) /\ player \in [Players -> RpsPlayer]
      /\ slots' = slots /\ waiting' = waiting
      /\ rpsInbox' = r /\ player' = [player EXCEPT ![p].at = type]
  BY DEF RpsInv, RpsTypeOK, RpsAsks
<1>2. m \in RpsMsg /\ m.tid = p /\ m.type = type /\ m.move = move
  BY DEF RpsMsg
<1> HIDE DEF m
<1>3. /\ r \in Seq(RpsMsg) /\ Len(rpsInbox) \in Nat
      /\ DOMAIN rpsInbox = 1..Len(rpsInbox) /\ DOMAIN r = 1..(Len(rpsInbox) + 1)
      /\ \A i \in DOMAIN rpsInbox : r[i] = rpsInbox[i]
      /\ r[Len(rpsInbox) + 1] = m
      /\ \A i \in DOMAIN r : i \in DOMAIN rpsInbox \/ i = Len(rpsInbox) + 1
  BY <1>1, <1>2, AppendFacts
<1> HIDE DEF r
<1>4. /\ player' \in [Players -> RpsPlayer] /\ player'[p].at = type
      /\ \A q \in Players : q # p => player'[q] = player[q]
  <2>1. player[p] \in RpsPlayer
    BY <1>1
  <2>2. [player[p] EXCEPT !.at = type] \in RpsPlayer /\ [player[p] EXCEPT !.at = type].at = type
    BY <2>1 DEF RpsPlayer
  <2> DEFINE w == [player[p] EXCEPT !.at = type]
  <2>3. player' = [player EXCEPT ![p] = w]
    BY <1>1
  <2> HIDE DEF w
  <2>4. QED
    BY <1>1, <2>2, <2>3 DEF w
<1>5. \A i \in DOMAIN rpsInbox : rpsInbox[i].tid # p /\ rpsInbox[i].tid \in Players
  <2>1. \A i \in DOMAIN rpsInbox : rpsInbox[i] \in RpsMsg
    BY <1>1, LenProperties, ElementOfSeq
  <2>2. \A i \in DOMAIN rpsInbox : player[rpsInbox[i].tid].at \in Calls /\ rpsInbox[i].tid \in Players
    BY <2>1 DEF RpsInv, RpsInboxInv, RpsMsg
  <2>3. player[p].at \notin Calls
    BY DEF Calls
  <2>4. QED
    BY <2>2, <2>3
<1>6. \A q \in Players : InInbox(q)' <=> InInbox(q) \/ q = p
  <2>1. Len(rpsInbox) + 1 \in DOMAIN r /\ \A i \in DOMAIN rpsInbox : i \in DOMAIN r
    BY <1>3
  <2>2. QED
    BY <1>1, <1>2, <1>3, <2>1 DEF InInbox
<1>7. RpsInboxInv'
  <2>1. \A i \in DOMAIN r : player'[r[i].tid].at = r[i].type
                            /\ (r[i].type = "PLAY" => r[i].move \in Moves)
    BY <1>2, <1>3, <1>4, <1>5 DEF RpsInv, RpsInboxInv
  <2>2. \A i, j \in DOMAIN r : r[i].tid = r[j].tid => i = j
    BY <1>2, <1>3, <1>5 DEF RpsInv, RpsInboxInv
  <2>3. QED
    BY <1>1, <2>1, <2>2 DEF RpsInboxInv
<1>8. SlotInv'
  BY <1>1 DEF RpsInv, SlotInv, Has
<1>9. ASSUME NEW s \in PlayerSlots, NEW q \in Players, Has(s, q)
      PROVE  /\ player'[q].at # "out"
             /\ player'[q].at = "SIGNUP" => waiting = s /\ ~InInbox(q)'
             /\ waiting = s => player'[q].at = "SIGNUP" /\ slots[s].opp = -1
             /\ slots[s].played => player'[q].at = "PLAY" /\ ~InInbox(q)'
  <2>1. /\ player[q].at # "out"
        /\ player[q].at = "SIGNUP" => waiting = s /\ ~InInbox(q)
        /\ waiting = s => player[q].at = "SIGNUP" /\ slots[s].opp = -1
        /\ slots[s].played => player[q].at = "PLAY" /\ ~InInbox(q)
    BY <1>9 DEF RpsInv, HolderInv
  <2>2. CASE q = p
    BY <1>4, <2>1, <2>2 DEF Calls
  <2>3. CASE q # p
    BY <1>4, <1>6, <2>1, <2>3
  <2>4. QED
    BY <2>2, <2>3
<1>10. HolderInv'
  <2>1. \A s, q : Has(s, q)' <=> Has(s, q)
    BY <1>1 DEF Has
  <2>2. QED
    BY <1>1, <1>9, <2>1 DEF RpsInv, HolderInv
<1>11. PlayerInv'
  BY <1>1, <1>4, <1>6 DEF RpsInv, PlayerInv, Has, Calls
<1>12. RpsTypeOK'
  BY <1>1, <1>3, <1>4 DEF RpsInv, RpsTypeOK
<1>13. QED
  BY <1>7, <1>8, <1>10, <1>11, <1>12 DEF RpsInv

LEMMA SignupKeepsIt ==
  ASSUME RpsInv, rpsInbox # <<>>, rpsInbox' = Tail(rpsInbox), NEW m, m = Head(rpsInbox),
         m.type = "SIGNUP", HandlesSignup(m)
  PROVE  RpsInv'
<1>1. /\ m.tid \in Players /\ player[m.tid].at = "SIGNUP" /\ InInbox(m.tid)
      /\ rpsInbox' \in Seq(RpsMsg)
      /\ \A p \in Players : InInbox(p)' <=> InInbox(p) /\ p # m.tid
      /\ (\A p \in Players : p # m.tid /\ InInbox(p) => player'[p] = player[p]) => RpsInboxInv'
  BY ServedFacts
<1>2. /\ slots \in [PlayerSlots -> RpsSlot] /\ player \in [Players -> RpsPlayer]
      /\ waiting \in PlayerSlots \cup {-1}
      /\ SlotInv /\ HolderInv /\ PlayerInv
  BY DEF RpsInv, RpsTypeOK
<1>3. \A t \in PlayerSlots : ~Has(t, m.tid)
  BY <1>1, <1>2 DEF HolderInv
<1>4. CASE slot_alloc = -1
  <2>1. Answers(AnswerTo(m.tid, "ERR")) /\ UNCHANGED <<slots, waiting>>
    BY <1>4 DEF HandlesSignup
  <2>2. /\ player' \in [Players -> RpsPlayer] /\ player'[m.tid].at = "out"
        /\ \A p \in Players : p # m.tid => player'[p] = player[p]
    BY <1>1, <1>2, <2>1, AnswersFacts DEF AnswerTo, Answer, Results
  <2>3. RpsInboxInv' /\ RpsTypeOK'
    BY <1>1, <1>2, <2>1, <2>2 DEF RpsTypeOK
  <2>4. SlotInv'
    BY <1>2, <2>1 DEF SlotInv, Has
  <2>5. HolderInv'
    BY <1>1, <1>2, <1>3, <2>1, <2>2 DEF HolderInv, Has
  <2>6. PlayerInv'
    BY <1>1, <1>2, <2>1, <2>2 DEF PlayerInv, Has
  <2>7. QED
    BY <2>3, <2>4, <2>5, <2>6 DEF RpsInv
<1>5. CASE slot_alloc # -1
  <2>1. PICK s0 \in PlayerSlots : s0 = slot_alloc /\ s0 >= 0 /\ ~slots[s0].in_use
    BY <1>5, RpsAllocs
  <2> DEFINE mine == [FreeSlot EXCEPT !.in_use = TRUE, !.tid = m.tid]
             taken == [slots EXCEPT ![s0] = mine]
  <2>2. /\ mine \in RpsSlot /\ mine.in_use /\ mine.tid = m.tid /\ mine.opp = -1 /\ ~mine.played
    BY <1>1 DEF FreeSlot, RpsSlot
  <2> HIDE DEF mine
  <2>3. /\ taken \in [PlayerSlots -> RpsSlot] /\ taken[s0] = mine
        /\ \A t \in PlayerSlots : t # s0 => taken[t] = slots[t]
    BY <1>2, <2>2
  <2>4. CASE waiting = -1
    <3>1. slots' = taken /\ waiting' = s0 /\ player' = player
      BY <2>1, <2>4 DEF HandlesSignup, mine
    <3> HIDE DEF taken
    <3>2. \A t \in PlayerSlots, p \in Players : Has(t, p)' <=> Has(t, p) \/ (t = s0 /\ p = m.tid)
      BY <2>1, <2>2, <2>3, <3>1 DEF Has
    <3>3. RpsInboxInv' /\ RpsTypeOK'
      BY <1>1, <1>2, <2>3, <3>1 DEF RpsTypeOK
    <3>4. SlotInv'
      <4> SUFFICES ASSUME NEW t \in PlayerSlots, taken[t].in_use
                   PROVE  /\ taken[t].tid \in Players
                          /\ \A u \in PlayerSlots :
                               taken[u].in_use /\ taken[u].tid = taken[t].tid => u = t
                          /\ taken[t].opp # -1 =>
                               /\ taken[taken[t].opp].in_use /\ taken[taken[t].opp].opp = t
                               /\ taken[t].opp # t
                          /\ taken[t].played =>
                               /\ taken[t].opp # -1 /\ ~taken[taken[t].opp].played
                               /\ taken[t].move \in Moves
        BY <3>1 DEF SlotInv, Has
      <4>1. CASE t = s0
        BY <1>1, <1>3, <2>2, <2>3, <4>1 DEF Has
      <4>2. CASE t # s0
        <5>1. slots[t].in_use /\ taken[t] = slots[t]
          BY <2>3, <4>2
        <5>2. slots[t].tid \in Players /\ slots[t].tid # m.tid
          BY <1>2, <1>3, <5>1 DEF SlotInv, Has
        <5>3. slots[t].opp # -1 => slots[t].opp \in PlayerSlots /\ slots[t].opp # s0
          BY <1>2, <2>1, <5>1 DEF SlotInv, RpsSlot
        <5>4. \A u \in PlayerSlots : taken[u].in_use /\ taken[u].tid = taken[t].tid => u = t
          BY <1>2, <2>2, <2>3, <5>1, <5>2 DEF SlotInv, Has
        <5>5. QED
          BY <1>2, <2>3, <5>1, <5>2, <5>3, <5>4 DEF SlotInv
      <4>3. QED
        BY <4>1, <4>2
    <3>5. HolderInv'
      <4>1. ASSUME NEW t \in PlayerSlots, NEW p \in Players, Has(t, p)'
            PROVE  /\ player[p].at # "out"
                   /\ player[p].at = "SIGNUP" => s0 = t /\ ~InInbox(p)'
                   /\ s0 = t => player[p].at = "SIGNUP" /\ taken[t].opp = -1
                   /\ taken[t].played => player[p].at = "PLAY" /\ ~InInbox(p)'
        <5>1. CASE t = s0 /\ p = m.tid
          BY <1>1, <2>2, <2>3, <5>1
        <5>2. CASE Has(t, p)
          <6>1. t # s0 /\ p # m.tid /\ taken[t] = slots[t] /\ waiting # t
            BY <1>3, <2>1, <2>3, <2>4, <5>2, SlotNumbers DEF Has
          <6>2. /\ player[p].at # "out" /\ player[p].at # "SIGNUP"
                /\ slots[t].played => player[p].at = "PLAY" /\ ~InInbox(p)
            BY <1>2, <5>2, <6>1 DEF HolderInv
          <6>3. QED
            BY <1>1, <6>1, <6>2
        <5>3. QED
          BY <3>2, <4>1, <5>1, <5>2
      <4>2. QED
        BY <2>2, <2>3, <3>1, <4>1 DEF HolderInv
    <3>6. PlayerInv'
      BY <1>1, <1>2, <2>1, <2>3, <3>1, <3>2 DEF PlayerInv, Has
    <3>7. QED
      BY <3>3, <3>4, <3>5, <3>6 DEF RpsInv
  <2>5. CASE waiting # -1
    <3>1. PICK w \in PlayerSlots : w = waiting /\ w >= 0
      BY <1>2, <2>5, SlotNumbers
    <3>2. PICK q \in Players : Has(w, q)
      BY <1>2, <3>1 DEF HolderInv, SlotInv, Has
    <3>3. /\ player[q].at = "SIGNUP" /\ ~InInbox(q) /\ q # m.tid /\ w # s0
          /\ slots[w].opp = -1 /\ ~slots[w].played
      <4>1. player[q].at = "SIGNUP" /\ slots[w].opp = -1
        BY <1>2, <3>1, <3>2 DEF HolderInv
      <4>2. ~InInbox(q) /\ ~slots[w].played
        BY <1>2, <3>2, <4>1 DEF HolderInv
      <4>3. QED
        BY <1>1, <2>1, <3>2, <4>1, <4>2 DEF Has
    <3>4. /\ slots' = [taken EXCEPT ![s0].opp = w, ![w].opp = s0]
          /\ waiting' = -1
          /\ Answers([p \in {q, m.tid} |-> Answer("PAIRED", NoMove)])
      <4>1. ~(waiting < 0) /\ ~(slot_alloc < 0) /\ slots[waiting].tid = q
        BY <2>1, <3>1, <3>2 DEF Has, PlayerSlots
      <4>2. QED
        BY <2>1, <3>1, <4>1 DEF HandlesSignup, mine
    <3> HIDE DEF taken
    <3>5. /\ player' \in [Players -> RpsPlayer] /\ player'[m.tid].at = "runs" /\ player'[q].at = "runs"
          /\ \A p \in Players : p # m.tid /\ p # q => player'[p] = player[p]
      <4> DEFINE answers == [p \in {q, m.tid} |-> Answer("PAIRED", NoMove)]
      <4>1. /\ DOMAIN answers = {q, m.tid}
            /\ \A p \in {q, m.tid} : answers[p] = Answer("PAIRED", NoMove)
        OBVIOUS
      <4>2. Answer("PAIRED", NoMove) \in [result : Results, opp_move : Moves \cup {NoMove}]
            /\ Answer("PAIRED", NoMove).result = "PAIRED"
        BY DEF Answer, Results
      <4> HIDE DEF answers
      <4>3. Answers(answers)
        BY <3>4 DEF answers
      <4>4. QED
        BY <1>1, <1>2, <3>2, <4>1, <4>2, <4>3, AnswersFacts
    <3>6. /\ slots' \in [PlayerSlots -> RpsSlot]
          /\ slots'[s0] = [mine EXCEPT !.opp = w] /\ slots'[w] = [slots[w] EXCEPT !.opp = s0]
          /\ \A t \in PlayerSlots : t # s0 /\ t # w => slots'[t] = slots[t]
      <4>1. [mine EXCEPT !.opp = w] \in RpsSlot /\ [slots[w] EXCEPT !.opp = s0] \in RpsSlot
        BY <1>2, <2>2 DEF RpsSlot
      <4>2. QED
        BY <1>2, <2>3, <3>3, <3>4, <4>1
    <3>7. /\ slots'[s0].in_use /\ slots'[s0].tid = m.tid /\ slots'[s0].opp = w /\ ~slots'[s0].played
          /\ slots'[w].in_use /\ slots'[w].tid = q /\ slots'[w].opp = s0 /\ ~slots'[w].played
      BY <1>2, <2>2, <3>2, <3>3, <3>6 DEF Has, RpsSlot
    <3>8. \A t \in PlayerSlots, p \in Players : Has(t, p)' <=> Has(t, p) \/ (t = s0 /\ p = m.tid)
      <4> SUFFICES ASSUME NEW t \in PlayerSlots, NEW p \in Players
                   PROVE  Has(t, p)' <=> Has(t, p) \/ (t = s0 /\ p = m.tid)
        OBVIOUS
      <4>1. CASE t = s0
        BY <2>1, <3>7, <4>1 DEF Has
      <4>2. CASE t = w
        BY <3>2, <3>3, <3>7, <4>2 DEF Has
      <4>3. CASE t # s0 /\ t # w
        BY <3>6, <4>3 DEF Has
      <4>4. QED
        BY <4>1, <4>2, <4>3
    <3>9. RpsInboxInv' /\ RpsTypeOK'
      BY <1>1, <3>3, <3>4, <3>5, <3>6 DEF RpsTypeOK
    <3>10. SlotInv'
      <4> SUFFICES ASSUME NEW t \in PlayerSlots, slots'[t].in_use
                   PROVE  /\ slots'[t].tid \in Players
                          /\ \A u \in PlayerSlots :
                               slots'[u].in_use /\ slots'[u].tid = slots'[t].tid => u = t
                          /\ slots'[t].opp # -1 =>
                               /\ slots'[slots'[t].opp].in_use /\ slots'[slots'[t].opp].opp = t
                               /\ slots'[t].opp # t
                          /\ slots'[t].played =>
                               /\ slots'[t].opp # -1 /\ ~slots'[slots'[t].opp].played
                               /\ slots'[t].move \in Moves
        BY DEF SlotInv, Has
      <4>1. CASE t = s0 \/ t = w
        <5>1. \A u \in PlayerSlots : u # s0 /\ u # w /\ slots'[u].in_use =>
                slots'[u].tid # m.tid /\ slots'[u].tid # q
          BY <1>2, <1>3, <3>2, <3>6 DEF SlotInv, Has
        <5>2. QED
          BY <1>1, <3>3, <3>7, <4>1, <5>1
      <4>2. CASE t # s0 /\ t # w
        <5>1. slots[t].in_use /\ slots'[t] = slots[t]
          BY <3>6, <4>2
        <5>2. slots[t].tid \in Players /\ slots[t].tid # m.tid /\ slots[t].tid # q
          BY <1>2, <1>3, <3>2, <4>2, <5>1 DEF SlotInv, Has
        <5>3. slots[t].opp # -1 =>
                slots[t].opp \in PlayerSlots /\ slots[t].opp # s0 /\ slots[t].opp # w
          BY <1>2, <2>1, <3>3, <4>2, <5>1, SlotNumbers DEF SlotInv, RpsSlot
        <5>4. \A u \in PlayerSlots : slots'[u].in_use /\ slots'[u].tid = slots'[t].tid => u = t
          <6> SUFFICES ASSUME NEW u \in PlayerSlots, slots'[u].in_use, slots'[u].tid = slots'[t].tid
                       PROVE  u = t
            OBVIOUS
          <6>1. u # s0 /\ u # w
            BY <3>7, <5>1, <5>2
          <6>2. slots[u].in_use /\ slots[u].tid = slots[t].tid
            BY <3>6, <5>1, <6>1
          <6>3. QED
            BY <1>2, <5>1, <6>2 DEF SlotInv, Has
        <5>5. QED
          BY <1>2, <3>6, <5>1, <5>2, <5>3, <5>4 DEF SlotInv
      <4>3. QED
        BY <4>1, <4>2
    <3>11. HolderInv'
      <4>1. \A t \in PlayerSlots : Has(t, q) => t = w
        BY <1>2, <3>2 DEF SlotInv, Has
      <4>2. \A t \in PlayerSlots : t # s0 /\ t # w => slots'[t].opp = slots[t].opp
                                                    /\ (slots'[t].played <=> slots[t].played)
        BY <3>6
      <4>3. QED
        <5> SUFFICES ASSUME NEW t \in PlayerSlots, NEW p \in Players, Has(t, p)'
                     PROVE  /\ player'[p].at # "out" /\ player'[p].at # "SIGNUP"
                            /\ slots'[t].played => player'[p].at = "PLAY" /\ ~InInbox(p)'
          BY <3>4, SlotNumbers DEF HolderInv
        <5>1. CASE p = m.tid
          <6>1. t = s0
            BY <1>3, <3>8, <5>1
          <6>2. QED
            BY <3>5, <3>7, <5>1, <6>1
        <5>2. CASE p = q
          <6>1. t = w
            BY <3>3, <3>8, <4>1, <5>2
          <6>2. QED
            BY <3>5, <3>7, <5>2, <6>1
        <5>3. CASE p # m.tid /\ p # q
          <6>1. Has(t, p) /\ t # s0 /\ t # w
            BY <2>1, <3>2, <3>8, <5>3 DEF Has
          <6>2. /\ player[p].at # "out" /\ player[p].at # "SIGNUP"
                /\ slots[t].played => player[p].at = "PLAY" /\ ~InInbox(p)
            BY <1>2, <3>1, <6>1 DEF HolderInv
          <6>3. QED
            BY <1>1, <3>5, <4>2, <5>3, <6>1, <6>2
        <5>4. QED
          BY <5>1, <5>2, <5>3
    <3>12. PlayerInv'
      <4>1. \A t \in PlayerSlots : t # s0 /\ t # w => (slots'[t].played <=> slots[t].played)
        BY <3>6
      <4>2. ~slots[w].played /\ ~Has(s0, m.tid) /\ (\A p \in Players : ~Has(s0, p))
        BY <2>1, <3>3 DEF Has
      <4>3. QED
        BY <1>1, <1>2, <3>2, <3>3, <3>5, <3>8, <4>1, <4>2 DEF PlayerInv
    <3>13. QED
      BY <3>9, <3>10, <3>11, <3>12 DEF RpsInv
  <2>6. QED
    BY <2>4, <2>5
<1>6. QED
  BY <1>4, <1>5

\* What the server knows of the player whose move or farewell it receives.
LEMMA CallerFacts ==
  ASSUME RpsInv, rpsInbox # <<>>, NEW m, m = Head(rpsInbox), rpsInbox' = Tail(rpsInbox),
         m.type # "SIGNUP"
  PROVE  /\ slot_find(m.tid) \in PlayerSlots /\ slot_find(m.tid) >= 0
         /\ Has(slot_find(m.tid), m.tid)
         /\ \A t \in PlayerSlots : Has(t, m.tid) => t = slot_find(m.tid)
         /\ ~slots[slot_find(m.tid)].played /\ waiting # slot_find(m.tid)
         /\ slots[slot_find(m.tid)].opp \in PlayerSlots \cup {-1}
<1>1. m \in RpsMsg /\ m.tid \in Players /\ player[m.tid].at = m.type /\ InInbox(m.tid)
  BY ServedFacts
<1>2. m.type \in {"PLAY", "QUIT"}
  BY <1>1 DEF RpsMsg, Calls
<1>3. \E s \in PlayerSlots : Has(s, m.tid)
  BY <1>1, <1>2 DEF RpsInv, PlayerInv
<1>4. PICK s \in PlayerSlots : s = slot_find(m.tid) /\ Has(s, m.tid)
  BY <1>3, RpsFinds
<1>5. \A t \in PlayerSlots : Has(t, m.tid) => t = s
  BY <1>4 DEF RpsInv, SlotInv, Has
<1>6. ~slots[s].played /\ waiting # s
  BY <1>1, <1>2, <1>4 DEF RpsInv, HolderInv
<1>7. slots[s].opp \in PlayerSlots \cup {-1}
  BY DEF RpsInv, RpsTypeOK, RpsSlot
<1>8. QED
  BY <1>4, <1>5, <1>6, <1>7, SlotNumbers

\* The round of m, by the player of slot s, with q of slot o.
RoundEnds(m, s, o, q) ==
  /\ Has(o, q) /\ q # m.tid /\ player[q].at = "PLAY" /\ ~InInbox(q)
  /\ o # s /\ slots[o].opp = s /\ slots[o].move \in Moves
  /\ slots' = [slots EXCEPT ![s].move = NoMove, ![s].played = FALSE,
                            ![o].move = NoMove, ![o].played = FALSE]
  /\ player' \in [Players -> RpsPlayer]
  /\ player'[m.tid].at = "runs"
  /\ player'[m.tid].got = Answer(Result(m.move, slots[o].move), slots[o].move)
  /\ player'[q].at = "runs"
  /\ player'[q].got = Answer(Result(slots[o].move, m.move), m.move)
  /\ \A p \in Players : p # m.tid /\ p # q => player'[p] = player[p]

\* A round that is complete: both are told how it ended.
LEMMA RoundFacts ==
  ASSUME RpsInv, rpsInbox # <<>>, rpsInbox' = Tail(rpsInbox), NEW m, m = Head(rpsInbox),
         m.type = "PLAY", HandlesPlay(m),
         NEW s \in PlayerSlots, s = slot_find(m.tid), NEW o \in PlayerSlots, o = slots[s].opp,
         slots[o].played
  PROVE  \E q \in Players : RoundEnds(m, s, o, q)
<1>1. m.tid \in Players /\ InInbox(m.tid) /\ m.move \in Moves
  BY ServedFacts
<1>2. s >= 0 /\ Has(s, m.tid)
  BY CallerFacts
<1>3. /\ slots[o].in_use /\ slots[o].opp = s /\ o # s /\ slots[o].move \in Moves
  BY <1>2, SlotNumbers DEF RpsInv, SlotInv, Has
<1>4. PICK q \in Players : Has(o, q)
  BY <1>3 DEF RpsInv, SlotInv, Has
<1>5. player[q].at = "PLAY" /\ ~InInbox(q)
  BY <1>4 DEF RpsInv, HolderInv
<1>6. q # m.tid
  BY <1>1, <1>5
<1> DEFINE mine == Answer(Result(m.move, slots[o].move), slots[o].move)
           other == Answer(Result(slots[o].move, m.move), m.move)
           answers == [p \in {m.tid, q} |-> IF p = m.tid THEN mine ELSE other]
<1>7. /\ slots' = [slots EXCEPT ![s].move = NoMove, ![s].played = FALSE,
                               ![o].move = NoMove, ![o].played = FALSE]
      /\ Answers(answers)
  <2>1. ~(slots[s].opp < 0) /\ slots[s].opp >= 0 /\ ~(s < 0) /\ slots[o].tid = q
    BY <1>2, <1>4, SlotNumbers DEF Has
  <2>2. QED
    BY <1>2, <2>1 DEF HandlesPlay
<1>8. /\ mine \in [result : Results, opp_move : Moves \cup {NoMove}]
      /\ other \in [result : Results, opp_move : Moves \cup {NoMove}]
      /\ mine.result \notin {"ERR", "left"} /\ other.result \notin {"ERR", "left"}
  BY <1>1, <1>3 DEF Answer, Results, Result
<1>9. /\ DOMAIN answers = {m.tid, q} /\ answers[m.tid] = mine /\ answers[q] = other
  BY <1>6
<1> HIDE DEF mine, other, answers
<1>10. player \in [Players -> RpsPlayer]
  BY DEF RpsInv, RpsTypeOK
<1>11. /\ player' \in [Players -> RpsPlayer]
       /\ player'[m.tid].at = "runs" /\ player'[m.tid].got = mine
       /\ player'[q].at = "runs" /\ player'[q].got = other
       /\ \A p \in Players : p # m.tid /\ p # q => player'[p] = player[p]
  <2>1. \A p \in DOMAIN answers :
          answers[p] \in [result : Results, opp_move : Moves \cup {NoMove}]
    BY <1>8, <1>9
  <2>2. /\ player' \in [Players -> RpsPlayer]
        /\ \A p \in Players : p \notin DOMAIN answers => player'[p] = player[p]
        /\ \A p \in Players : p \in DOMAIN answers =>
             /\ player'[p].at = IF answers[p].result \in {"ERR", "left"} THEN "out" ELSE "runs"
             /\ player'[p].got = answers[p]
    BY <1>7, <1>10, <2>1, AnswersFacts
  <2>3. QED
    BY <1>1, <1>4, <1>8, <1>9, <2>2
<1>12. RoundEnds(m, s, o, q)
  BY <1>3, <1>4, <1>5, <1>6, <1>7, <1>11 DEF mine, other, RoundEnds
<1>13. QED
  BY <1>4, <1>12

LEMMA PlayKeepsIt ==
  ASSUME RpsInv, rpsInbox # <<>>, rpsInbox' = Tail(rpsInbox), NEW m, m = Head(rpsInbox),
         m.type = "PLAY", HandlesPlay(m), waiting' = waiting
  PROVE  RpsInv'
<1>1. /\ m.tid \in Players /\ player[m.tid].at = "PLAY" /\ InInbox(m.tid)
      /\ rpsInbox' \in Seq(RpsMsg) /\ m.move \in Moves
      /\ \A p \in Players : InInbox(p)' <=> InInbox(p) /\ p # m.tid
      /\ (\A p \in Players : p # m.tid /\ InInbox(p) => player'[p] = player[p]) => RpsInboxInv'
  BY ServedFacts
<1>2. /\ slots \in [PlayerSlots -> RpsSlot] /\ player \in [Players -> RpsPlayer]
      /\ waiting \in PlayerSlots \cup {-1}
      /\ SlotInv /\ HolderInv /\ PlayerInv
  BY DEF RpsInv, RpsTypeOK
<1>3. PICK s \in PlayerSlots :
        /\ s = slot_find(m.tid) /\ s >= 0 /\ Has(s, m.tid) /\ ~slots[s].played /\ waiting # s
        /\ \A t \in PlayerSlots : Has(t, m.tid) => t = s
        /\ slots[s].opp \in PlayerSlots \cup {-1}
  BY CallerFacts
<1>4. CASE slots[s].opp = -1
  <2>1. Answers(AnswerTo(m.tid, "OPP_QUIT")) /\ slots' = slots
    <3>1. ~(s < 0) /\ s >= 0 /\ slots[s].opp < 0 /\ ~(slots[s].opp >= 0)
      BY <1>3, <1>4, SlotNumbers
    <3>2. QED
      BY <1>3, <3>1 DEF HandlesPlay
  <2>2. /\ player' \in [Players -> RpsPlayer] /\ player'[m.tid].at = "runs"
        /\ \A p \in Players : p # m.tid => player'[p] = player[p]
    BY <1>1, <1>2, <2>1, AnswersFacts DEF AnswerTo, Answer, Results
  <2>3. RpsInboxInv' /\ RpsTypeOK'
    BY <1>1, <1>2, <2>1, <2>2 DEF RpsTypeOK
  <2>4. SlotInv'
    BY <1>2, <2>1 DEF SlotInv, Has
  <2>5. HolderInv'
    BY <1>1, <1>2, <1>3, <2>1, <2>2 DEF HolderInv, Has
  <2>6. PlayerInv'
    BY <1>1, <1>2, <1>3, <2>1, <2>2 DEF PlayerInv, Has
  <2>7. QED
    BY <2>3, <2>4, <2>5, <2>6 DEF RpsInv
<1>5. CASE slots[s].opp # -1
  <2>1. PICK o \in PlayerSlots :
          o = slots[s].opp /\ o >= 0 /\ o # s /\ slots[o].in_use /\ slots[o].opp = s
    BY <1>2, <1>3, <1>5, SlotNumbers DEF SlotInv, Has
  <2>2. CASE slots[o].played
    <3>0. PICK q \in Players : RoundEnds(m, s, o, q)
      BY <1>3, <2>1, <2>2, RoundFacts
    <3>1. /\ Has(o, q) /\ q # m.tid /\ player[q].at = "PLAY" /\ ~InInbox(q)
          /\ slots' = [slots EXCEPT ![s].move = NoMove, ![s].played = FALSE,
                                    ![o].move = NoMove, ![o].played = FALSE]
          /\ player' \in [Players -> RpsPlayer]
          /\ player'[m.tid].at = "runs" /\ player'[q].at = "runs"
          /\ \A p \in Players : p # m.tid /\ p # q => player'[p] = player[p]
      BY <3>0 DEF RoundEnds
    <3>2. /\ slots' \in [PlayerSlots -> RpsSlot]
          /\ slots'[s] = [slots[s] EXCEPT !.move = NoMove, !.played = FALSE]
          /\ slots'[o] = [slots[o] EXCEPT !.move = NoMove, !.played = FALSE]
          /\ \A t \in PlayerSlots : t # s /\ t # o => slots'[t] = slots[t]
      <4>1. /\ [slots[s] EXCEPT !.move = NoMove, !.played = FALSE] \in RpsSlot
            /\ [slots[o] EXCEPT !.move = NoMove, !.played = FALSE] \in RpsSlot
        BY <1>2 DEF RpsSlot
      <4>2. QED
        BY <1>2, <2>1, <3>1, <4>1
    <3>3. /\ ~slots'[s].played /\ ~slots'[o].played
          /\ \A t \in {s, o} : /\ slots'[t].in_use = slots[t].in_use /\ slots'[t].tid = slots[t].tid
                               /\ slots'[t].opp = slots[t].opp
      <4>1. ASSUME NEW x \in RpsSlot, NEW y, y = [x EXCEPT !.move = NoMove, !.played = FALSE]
            PROVE  ~y.played /\ y.in_use = x.in_use /\ y.tid = x.tid /\ y.opp = x.opp
        BY <4>1 DEF RpsSlot
      <4>2. slots[s] \in RpsSlot /\ slots[o] \in RpsSlot
        BY <1>2
      <4>3. /\ ~slots'[s].played /\ slots'[s].in_use = slots[s].in_use
            /\ slots'[s].tid = slots[s].tid /\ slots'[s].opp = slots[s].opp
        BY <3>2, <4>1, <4>2
      <4>4. /\ ~slots'[o].played /\ slots'[o].in_use = slots[o].in_use
            /\ slots'[o].tid = slots[o].tid /\ slots'[o].opp = slots[o].opp
        BY <3>2, <4>1, <4>2
      <4>5. QED
        BY <4>3, <4>4
    <3>4. \A t \in PlayerSlots :
            /\ slots'[t].in_use = slots[t].in_use /\ slots'[t].tid = slots[t].tid
            /\ slots'[t].opp = slots[t].opp
            /\ slots'[t].played => t # s /\ t # o /\ slots[t].played /\ slots'[t].move = slots[t].move
      BY <3>2, <3>3
    <3>5. \A t \in PlayerSlots, p \in Players : Has(t, p)' <=> Has(t, p)
      BY <3>4 DEF Has
    <3>6. RpsInboxInv' /\ RpsTypeOK'
      BY <1>1, <1>2, <3>1, <3>2 DEF RpsTypeOK
    <3>7. SlotInv'
      <4> SUFFICES ASSUME NEW t \in PlayerSlots, slots'[t].in_use
                   PROVE  /\ slots'[t].tid \in Players
                          /\ \A u \in PlayerSlots :
                               slots'[u].in_use /\ slots'[u].tid = slots'[t].tid => u = t
                          /\ slots'[t].opp # -1 =>
                               /\ slots'[slots'[t].opp].in_use /\ slots'[slots'[t].opp].opp = t
                               /\ slots'[t].opp # t
                          /\ slots'[t].played =>
                               /\ slots'[t].opp # -1 /\ ~slots'[slots'[t].opp].played
                               /\ slots'[t].move \in Moves
        BY DEF SlotInv, Has
      <4>1. slots[t].in_use /\ slots[t].opp \in PlayerSlots \cup {-1}
        BY <1>2, <3>4 DEF RpsSlot
      <4>2. slots'[t].tid \in Players
            /\ \A u \in PlayerSlots : slots'[u].in_use /\ slots'[u].tid = slots'[t].tid => u = t
        BY <1>2, <3>4, <4>1 DEF SlotInv, Has
      <4>3. slots[t].opp # -1 =>
              /\ slots[t].opp \in PlayerSlots /\ slots[slots[t].opp].in_use
              /\ slots[slots[t].opp].opp = t /\ slots[t].opp # t
              /\ slots[t].played => ~slots[slots[t].opp].played
        BY <1>2, <4>1 DEF SlotInv
      <4>4. slots[t].played => slots[t].opp # -1 /\ slots[t].move \in Moves
        BY <1>2, <4>1 DEF SlotInv
      <4>5. QED
        BY <3>4, <4>1, <4>2, <4>3, <4>4
    <3>8. HolderInv'
      <4>1. ASSUME NEW t \in PlayerSlots, NEW p \in Players, Has(t, p)
            PROVE  /\ player'[p].at # "out"
                   /\ player'[p].at = "SIGNUP" => waiting = t /\ ~InInbox(p)'
                   /\ waiting = t => player'[p].at = "SIGNUP" /\ slots'[t].opp = -1
                   /\ slots'[t].played => player'[p].at = "PLAY" /\ ~InInbox(p)'
        <5>0. \A u \in PlayerSlots : Has(u, q) => u = o
          BY <1>2, <2>1, <3>1 DEF SlotInv, Has
        <5>1. CASE p = m.tid \/ p = q
          <6>1. (t = s \/ t = o) /\ waiting # t
            <7>1. waiting # o
              BY <1>2, <3>1 DEF HolderInv
            <7>2. p = m.tid => t = s
              BY <1>3, <4>1
            <7>3. p = q => t = o
              BY <4>1, <5>0
            <7>4. QED
              BY <1>3, <5>1, <7>1, <7>2, <7>3
          <6>2. ~slots'[t].played /\ player'[p].at = "runs"
            BY <3>1, <3>3, <5>1, <6>1
          <6>3. QED
            BY <6>1, <6>2
        <5>2. CASE p # m.tid /\ p # q
          <6>1. player'[p] = player[p] /\ (InInbox(p)' <=> InInbox(p))
            BY <1>1, <3>1, <5>2
          <6>2. slots'[t].opp = slots[t].opp /\ (slots'[t].played => slots[t].played)
            BY <3>4
          <6>3. QED
            BY <1>2, <4>1, <6>1, <6>2 DEF HolderInv
        <5>3. QED
          BY <5>1, <5>2
      <4>2. waiting # -1 => slots'[waiting].in_use
        BY <1>2, <3>4, SlotNumbers DEF HolderInv
      <4>3. QED
        BY <3>5, <4>1, <4>2 DEF HolderInv
    <3>9. PlayerInv'
      <4>1. \A t \in PlayerSlots, p \in Players :
              Has(t, p) /\ slots[t].played /\ p # q => slots'[t].played
        BY <1>3, <3>1, <3>2 DEF Has
      <4>2. ASSUME NEW p \in Players
            PROVE  /\ player'[p].at \in {"runs", "PLAY", "QUIT"} => \E t \in PlayerSlots : Has(t, p)
                   /\ player'[p].at = "SIGNUP" /\ ~InInbox(p)' => \E t \in PlayerSlots : Has(t, p)
                   /\ player'[p].at = "PLAY" /\ ~InInbox(p)' =>
                        \E t \in PlayerSlots : Has(t, p) /\ slots'[t].played
                   /\ player'[p].at = "QUIT" => InInbox(p)'
        <5>1. CASE p = m.tid \/ p = q
          BY <1>3, <3>1, <5>1
        <5>2. CASE p # m.tid /\ p # q
          <6>1. player'[p] = player[p] /\ (InInbox(p)' <=> InInbox(p))
            BY <1>1, <3>1, <5>2
          <6>2. QED
            BY <1>2, <4>1, <5>2, <6>1 DEF PlayerInv
        <5>3. QED
          BY <5>1, <5>2
      <4>3. QED
        BY <3>5, <4>2 DEF PlayerInv
    <3>10. QED
      BY <3>6, <3>7, <3>8, <3>9 DEF RpsInv
  <2>3. CASE ~slots[o].played
    <3>1. /\ slots' = [slots EXCEPT ![s].move = m.move, ![s].played = TRUE] /\ player' = player
      <4>1. ~(s < 0) /\ ~(slots[s].opp < 0)
        BY <1>3, <2>1, SlotNumbers
      <4>2. QED
        BY <1>3, <2>1, <2>3, <4>1 DEF HandlesPlay
    <3>2. /\ slots' \in [PlayerSlots -> RpsSlot]
          /\ slots'[s] = [slots[s] EXCEPT !.move = m.move, !.played = TRUE]
          /\ \A t \in PlayerSlots : t # s => slots'[t] = slots[t]
      <4>1. [slots[s] EXCEPT !.move = m.move, !.played = TRUE] \in RpsSlot
        BY <1>1, <1>2 DEF RpsSlot
      <4>2. QED
        BY <1>2, <3>1, <4>1
    <3>3. /\ slots'[s].played /\ slots'[s].move = m.move
          /\ slots'[s].in_use = slots[s].in_use /\ slots'[s].tid = slots[s].tid
          /\ slots'[s].opp = slots[s].opp
      BY <1>2, <3>2 DEF RpsSlot
    <3>4. \A t \in PlayerSlots :
            /\ slots'[t].in_use = slots[t].in_use /\ slots'[t].tid = slots[t].tid
            /\ slots'[t].opp = slots[t].opp
            /\ t # s => (slots'[t].played <=> slots[t].played) /\ slots'[t].move = slots[t].move
      BY <3>2, <3>3
    <3>5. \A t \in PlayerSlots, p \in Players : Has(t, p)' <=> Has(t, p)
      BY <3>4 DEF Has
    <3>6. RpsInboxInv' /\ RpsTypeOK'
      BY <1>1, <1>2, <3>1, <3>2 DEF RpsTypeOK
    <3>7. SlotInv'
      <4> SUFFICES ASSUME NEW t \in PlayerSlots, slots'[t].in_use
                   PROVE  /\ slots'[t].tid \in Players
                          /\ \A u \in PlayerSlots :
                               slots'[u].in_use /\ slots'[u].tid = slots'[t].tid => u = t
                          /\ slots'[t].opp # -1 =>
                               /\ slots'[slots'[t].opp].in_use /\ slots'[slots'[t].opp].opp = t
                               /\ slots'[t].opp # t
                          /\ slots'[t].played =>
                               /\ slots'[t].opp # -1 /\ ~slots'[slots'[t].opp].played
                               /\ slots'[t].move \in Moves
        BY DEF SlotInv, Has
      <4>1. slots[t].in_use /\ slots[t].opp \in PlayerSlots \cup {-1}
        BY <1>2, <3>4 DEF RpsSlot
      <4>2. slots'[t].tid \in Players
            /\ \A u \in PlayerSlots : slots'[u].in_use /\ slots'[u].tid = slots'[t].tid => u = t
        BY <1>2, <3>4, <4>1 DEF SlotInv, Has
      <4>3. slots[t].opp # -1 =>
              /\ slots[t].opp \in PlayerSlots /\ slots[slots[t].opp].in_use
              /\ slots[slots[t].opp].opp = t /\ slots[t].opp # t
              /\ slots[t].played => ~slots[slots[t].opp].played
        BY <1>2, <4>1 DEF SlotInv
      <4>4. slots[t].played => slots[t].opp # -1 /\ slots[t].move \in Moves
        BY <1>2, <4>1 DEF SlotInv
      <4>5. CASE t = s
        BY <1>1, <1>5, <2>1, <2>3, <3>3, <3>4, <4>2, <4>5
      <4>6. CASE t # s
        <5>1. slots[t].opp = s => t = o /\ ~slots[t].played
          BY <2>1, <2>3, <4>3, SlotNumbers
        <5>2. QED
          BY <3>4, <4>1, <4>2, <4>3, <4>4, <4>6, <5>1
      <4>7. QED
        BY <4>5, <4>6
    <3>8. HolderInv'
      <4>1. ASSUME NEW t \in PlayerSlots, NEW p \in Players, Has(t, p)
            PROVE  /\ player'[p].at # "out"
                   /\ player'[p].at = "SIGNUP" => waiting = t /\ ~InInbox(p)'
                   /\ waiting = t => player'[p].at = "SIGNUP" /\ slots'[t].opp = -1
                   /\ slots'[t].played => player'[p].at = "PLAY" /\ ~InInbox(p)'
        <5>1. CASE p = m.tid
          BY <1>1, <1>3, <3>1, <4>1, <5>1
        <5>2. CASE p # m.tid
          <6>1. t # s
            BY <1>3, <4>1, <5>2 DEF Has
          <6>2. player'[p] = player[p] /\ (InInbox(p)' <=> InInbox(p))
            BY <1>1, <3>1, <5>2
          <6>3. slots'[t].opp = slots[t].opp /\ (slots'[t].played => slots[t].played)
            BY <3>4, <6>1
          <6>4. QED
            BY <1>2, <4>1, <6>2, <6>3 DEF HolderInv
        <5>3. QED
          BY <5>1, <5>2
      <4>2. waiting # -1 => slots'[waiting].in_use
        BY <1>2, <3>4, SlotNumbers DEF HolderInv
      <4>3. QED
        BY <3>5, <4>1, <4>2 DEF HolderInv
    <3>9. PlayerInv'
      <4>1. \A t \in PlayerSlots : slots[t].played => slots'[t].played
        BY <3>3, <3>4
      <4>2. QED
        <5> SUFFICES ASSUME NEW p \in Players
                     PROVE  /\ player[p].at \in {"runs", "PLAY", "QUIT"} =>
                                 \E t \in PlayerSlots : Has(t, p)
                            /\ player[p].at = "SIGNUP" /\ ~InInbox(p)' =>
                                 \E t \in PlayerSlots : Has(t, p)
                            /\ player[p].at = "PLAY" /\ ~InInbox(p)' =>
                                 \E t \in PlayerSlots : Has(t, p) /\ slots'[t].played
                            /\ player[p].at = "QUIT" => InInbox(p)'
          BY <3>1, <3>5 DEF PlayerInv
        <5>1. CASE p = m.tid
          BY <1>1, <1>3, <3>3, <5>1
        <5>2. CASE p # m.tid
          BY <1>1, <1>2, <4>1, <5>2 DEF PlayerInv
        <5>3. QED
          BY <5>1, <5>2
    <3>10. QED
      BY <3>6, <3>7, <3>8, <3>9 DEF RpsInv
  <2>4. QED
    BY <2>2, <2>3
<1>6. QED
  BY <1>4, <1>5

LEMMA QuitKeepsIt ==
  ASSUME RpsInv, rpsInbox # <<>>, rpsInbox' = Tail(rpsInbox), NEW m, m = Head(rpsInbox),
         m.type = "QUIT", HandlesQuit(m)
  PROVE  RpsInv'
<1>1. /\ m.tid \in Players /\ player[m.tid].at = "QUIT" /\ InInbox(m.tid)
      /\ rpsInbox' \in Seq(RpsMsg)
      /\ \A p \in Players : InInbox(p)' <=> InInbox(p) /\ p # m.tid
      /\ (\A p \in Players : p # m.tid /\ InInbox(p) => player'[p] = player[p]) => RpsInboxInv'
  BY ServedFacts
<1>2. /\ slots \in [PlayerSlots -> RpsSlot] /\ player \in [Players -> RpsPlayer]
      /\ waiting \in PlayerSlots \cup {-1}
      /\ SlotInv /\ HolderInv /\ PlayerInv
  BY DEF RpsInv, RpsTypeOK
<1> DEFINE s == slot_find(m.tid)
           o == IF s < 0 THEN -1 ELSE slots[s].opp
           left == o >= 0 /\ slots[o].in_use
           peer == IF left /\ slots[o].played THEN {slots[o].tid} ELSE {}
           answers == [p \in {m.tid} \cup peer |->
                         Answer(IF p = m.tid THEN "left" ELSE "OPP_QUIT", NoMove)]
<1>3. /\ Answers(answers)
      /\ slots' = [t \in PlayerSlots |-> CASE t = s -> [slots[t] EXCEPT !.in_use = FALSE]
                                           [] t = o /\ left -> [slots[t] EXCEPT !.opp = -1, !.played = FALSE]
                                           [] OTHER -> slots[t]]
      /\ waiting' = IF s >= 0 /\ waiting = s THEN -1 ELSE waiting
  BY DEF HandlesQuit
<1>4. /\ s \in PlayerSlots /\ s >= 0 /\ Has(s, m.tid) /\ ~slots[s].played /\ waiting # s
      /\ \A t \in PlayerSlots : Has(t, m.tid) => t = s
      /\ o = slots[s].opp /\ o \in PlayerSlots \cup {-1}
  <2>1. /\ s \in PlayerSlots /\ s >= 0 /\ Has(s, m.tid) /\ ~slots[s].played /\ waiting # s
        /\ \A t \in PlayerSlots : Has(t, m.tid) => t = s
        /\ slots[s].opp \in PlayerSlots \cup {-1}
    BY CallerFacts
  <2>2. ~(s < 0)
    BY <2>1, SlotNumbers
  <2> HIDE DEF s
  <2>3. QED
    BY <2>1, <2>2
<1> HIDE DEF s, o, left, peer, answers
<1>5. o # -1 => /\ o \in PlayerSlots /\ o >= 0 /\ o # s /\ slots[o].in_use /\ slots[o].opp = s
                /\ slots[o].tid \in Players /\ slots[o].tid # m.tid
  <2>1. o # -1 => /\ o \in PlayerSlots /\ o >= 0 /\ o # s /\ slots[o].in_use /\ slots[o].opp = s
    BY <1>2, <1>4, SlotNumbers DEF SlotInv, Has
  <2>2. QED
    BY <1>2, <1>4, <2>1 DEF SlotInv, Has
<1>6. waiting' = waiting
  BY <1>3, <1>4
<1>7. /\ left <=> o # -1
      /\ peer = IF o # -1 /\ slots[o].played THEN {slots[o].tid} ELSE {}
  <2>1. left <=> o # -1
    BY <1>4, <1>5, SlotNumbers DEF left
  <2>2. QED
    BY <2>1 DEF peer
<1>8. \A p \in peer : /\ p \in Players /\ p # m.tid /\ Has(o, p) /\ o # -1
                      /\ player[p].at = "PLAY" /\ ~InInbox(p)
  BY <1>2, <1>5, <1>7 DEF HolderInv, Has
<1>9. /\ player' \in [Players -> RpsPlayer] /\ player'[m.tid].at = "out"
      /\ \A p \in peer : player'[p].at = "runs"
      /\ \A p \in Players : p # m.tid /\ p \notin peer => player'[p] = player[p]
  <2>1. /\ DOMAIN answers = {m.tid} \cup peer
        /\ answers[m.tid] = Answer("left", NoMove)
        /\ \A p \in peer : answers[p] = Answer("OPP_QUIT", NoMove)
    BY <1>8 DEF answers
  <2>2. /\ Answer("left", NoMove) \in [result : Results, opp_move : Moves \cup {NoMove}]
        /\ Answer("OPP_QUIT", NoMove) \in [result : Results, opp_move : Moves \cup {NoMove}]
        /\ Answer("left", NoMove).result = "left" /\ Answer("OPP_QUIT", NoMove).result = "OPP_QUIT"
    BY DEF Answer, Results
  <2>3. \A p \in DOMAIN answers :
          answers[p] \in [result : Results, opp_move : Moves \cup {NoMove}]
    BY <2>1, <2>2
  <2>4. /\ player' \in [Players -> RpsPlayer]
        /\ \A p \in Players : p \notin DOMAIN answers => player'[p] = player[p]
        /\ \A p \in Players : p \in DOMAIN answers =>
             player'[p].at = IF answers[p].result \in {"ERR", "left"} THEN "out" ELSE "runs"
    BY <1>2, <1>3, <2>3, AnswersFacts
  <2>5. QED
    BY <1>1, <1>8, <2>1, <2>2, <2>4
<1>10. /\ slots' \in [PlayerSlots -> RpsSlot] /\ ~slots'[s].in_use
       /\ o # -1 => /\ slots'[o].in_use /\ slots'[o].tid = slots[o].tid
                    /\ slots'[o].opp = -1 /\ ~slots'[o].played
       /\ \A t \in PlayerSlots : t # s /\ t # o => slots'[t] = slots[t]
  <2>1. ASSUME NEW x \in RpsSlot
        PROVE  /\ [x EXCEPT !.in_use = FALSE] \in RpsSlot
               /\ [x EXCEPT !.opp = -1, !.played = FALSE] \in RpsSlot
    BY DEF RpsSlot
  <2>2. ASSUME NEW x \in RpsSlot, NEW y, y = [x EXCEPT !.opp = -1, !.played = FALSE]
        PROVE  y.in_use = x.in_use /\ y.tid = x.tid /\ y.opp = -1 /\ ~y.played
    BY <2>2 DEF RpsSlot
  <2>3. ASSUME NEW x \in RpsSlot, NEW y, y = [x EXCEPT !.in_use = FALSE]
        PROVE  ~y.in_use
    BY <2>3 DEF RpsSlot
  <2>4. slots' \in [PlayerSlots -> RpsSlot]
    BY <1>2, <1>3, <2>1
  <2>5. ~slots'[s].in_use
    <3>1. slots'[s] = [slots[s] EXCEPT !.in_use = FALSE] /\ slots[s] \in RpsSlot
      BY <1>2, <1>3, <1>4, <1>5, SlotNumbers
    <3>2. QED
      BY <2>3, <3>1
  <2>6. ASSUME o # -1
        PROVE  /\ slots'[o].in_use /\ slots'[o].tid = slots[o].tid
               /\ slots'[o].opp = -1 /\ ~slots'[o].played
    <3>1. slots'[o] = [slots[o] EXCEPT !.opp = -1, !.played = FALSE] /\ slots[o] \in RpsSlot
      BY <1>2, <1>3, <1>5, <1>7, <2>6
    <3>2. QED
      BY <1>5, <2>2, <2>6, <3>1
  <2>7. \A t \in PlayerSlots : t # s /\ t # o => slots'[t] = slots[t]
    BY <1>3
  <2>8. QED
    BY <2>4, <2>5, <2>6, <2>7
<1>11. \A t \in PlayerSlots, p \in Players : Has(t, p)' <=> Has(t, p) /\ t # s
  <2> SUFFICES ASSUME NEW t \in PlayerSlots, NEW p \in Players
               PROVE  Has(t, p)' <=> Has(t, p) /\ t # s
    OBVIOUS
  <2>1. CASE t = s
    BY <1>10, <2>1 DEF Has
  <2>2. CASE t # s /\ t = o
    BY <1>5, <1>10, <2>2, SlotNumbers DEF Has
  <2>3. CASE t # s /\ t # o
    BY <1>10, <2>3 DEF Has
  <2>4. QED
    BY <2>1, <2>2, <2>3
<1>12. RpsInboxInv' /\ RpsTypeOK'
  BY <1>1, <1>2, <1>6, <1>8, <1>9, <1>10 DEF RpsTypeOK
<1>13. SlotInv'
  <2> SUFFICES ASSUME NEW t \in PlayerSlots, slots'[t].in_use
               PROVE  /\ slots'[t].tid \in Players
                      /\ \A u \in PlayerSlots :
                           slots'[u].in_use /\ slots'[u].tid = slots'[t].tid => u = t
                      /\ slots'[t].opp # -1 =>
                           /\ slots'[slots'[t].opp].in_use /\ slots'[slots'[t].opp].opp = t
                           /\ slots'[t].opp # t
                      /\ slots'[t].played =>
                           /\ slots'[t].opp # -1 /\ ~slots'[slots'[t].opp].played
                           /\ slots'[t].move \in Moves
    BY DEF SlotInv, Has
  <2>1. \A u \in PlayerSlots : slots'[u].in_use =>
          u # s /\ slots[u].in_use /\ slots'[u].tid = slots[u].tid
    <3> SUFFICES ASSUME NEW u \in PlayerSlots, slots'[u].in_use
                 PROVE  u # s /\ slots[u].in_use /\ slots'[u].tid = slots[u].tid
      OBVIOUS
    <3>1. u # s
      BY <1>10
    <3>2. CASE u = o
      BY <1>5, <1>10, <3>1, <3>2, SlotNumbers
    <3>3. CASE u # o
      BY <1>10, <3>1, <3>3
    <3>4. QED
      BY <3>1, <3>2, <3>3
  <2>2. slots'[t].tid \in Players
        /\ \A u \in PlayerSlots : slots'[u].in_use /\ slots'[u].tid = slots'[t].tid => u = t
    BY <1>2, <2>1 DEF SlotInv, Has
  <2>3. CASE t = o
    BY <1>10, <2>2, <2>3, SlotNumbers
  <2>4. CASE t # o
    <3>1. slots[t].in_use /\ slots'[t] = slots[t] /\ t # s
      BY <1>10, <2>1, <2>4
    <3>2. slots[t].opp # -1 => /\ slots[t].opp \in PlayerSlots /\ slots[slots[t].opp].in_use
                               /\ slots[slots[t].opp].opp = t /\ slots[t].opp # t
                               /\ slots[t].played => ~slots[slots[t].opp].played
      <4>1. slots[t].opp \in PlayerSlots \cup {-1}
        BY <1>2 DEF RpsSlot
      <4>2. QED
        BY <1>2, <3>1, <4>1 DEF SlotInv
    <3>3. slots[t].played => slots[t].opp # -1 /\ slots[t].move \in Moves
      BY <1>2, <3>1 DEF SlotInv
    <3>4. slots[t].opp # -1 => slots[t].opp # s /\ slots[t].opp # o
      <4>1. slots[t].opp = s => t = o
        BY <1>4, <3>2, SlotNumbers
      <4>2. slots[t].opp # -1 /\ slots[t].opp = o => t = s
        BY <1>5, <3>2
      <4>3. QED
        BY <2>4, <3>1, <4>1, <4>2
    <3>5. slots[t].opp # -1 => slots'[slots[t].opp] = slots[slots[t].opp]
      BY <1>10, <3>2, <3>4
    <3>6. QED
      BY <2>2, <3>1, <3>2, <3>3, <3>5
  <2>5. QED
    BY <2>3, <2>4
<1>14. HolderInv'
  <2>1. ASSUME NEW t \in PlayerSlots, NEW p \in Players, Has(t, p), t # s
        PROVE  /\ player'[p].at # "out"
               /\ player'[p].at = "SIGNUP" => waiting = t /\ ~InInbox(p)'
               /\ waiting = t => player'[p].at = "SIGNUP" /\ slots'[t].opp = -1
               /\ slots'[t].played => player'[p].at = "PLAY" /\ ~InInbox(p)'
    <3>1. p # m.tid
      BY <1>4, <2>1
    <3>2. CASE p \in peer
      <4>1. t = o
        BY <1>2, <1>5, <1>8, <2>1, <3>2 DEF SlotInv, Has
      <4>2. waiting # t
        BY <1>2, <1>8, <2>1, <3>2 DEF HolderInv
      <4>3. QED
        BY <1>8, <1>9, <1>10, <3>2, <4>1, <4>2
    <3>3. CASE p \notin peer
      <4>1. player'[p] = player[p] /\ (InInbox(p)' <=> InInbox(p))
        BY <1>1, <1>9, <3>1, <3>3
      <4>2. CASE t = o
        BY <1>2, <1>10, <2>1, <4>1, <4>2, SlotNumbers DEF HolderInv
      <4>3. CASE t # o
        <5>1. slots'[t] = slots[t]
          BY <1>10, <2>1, <4>3
        <5>2. QED
          BY <1>2, <2>1, <4>1, <5>1 DEF HolderInv
      <4>4. QED
        BY <4>2, <4>3
    <3>4. QED
      BY <3>2, <3>3
  <2>2. waiting # -1 => slots'[waiting].in_use
    <3>1. waiting # -1 => waiting \in PlayerSlots /\ slots[waiting].in_use /\ waiting # s
      BY <1>2, <1>4 DEF HolderInv
    <3>2. QED
      BY <1>5, <1>10, <3>1
  <2>3. QED
    BY <1>6, <1>11, <2>1, <2>2 DEF HolderInv
<1>15. PlayerInv'
  <2>1. ASSUME NEW p \in Players
        PROVE  /\ player'[p].at \in {"runs", "PLAY", "QUIT"} =>
                    \E t \in PlayerSlots : Has(t, p) /\ t # s
               /\ player'[p].at = "SIGNUP" /\ ~InInbox(p)' =>
                    \E t \in PlayerSlots : Has(t, p) /\ t # s
               /\ player'[p].at = "PLAY" /\ ~InInbox(p)' =>
                    \E t \in PlayerSlots : Has(t, p) /\ t # s /\ slots'[t].played
               /\ player'[p].at = "QUIT" => InInbox(p)'
    <3>1. CASE p = m.tid
      BY <1>9, <3>1
    <3>2. CASE p \in peer
      BY <1>5, <1>8, <1>9, <3>2
    <3>3. CASE p # m.tid /\ p \notin peer
      <4>1. player'[p] = player[p] /\ (InInbox(p)' <=> InInbox(p))
        BY <1>1, <1>9, <3>3
      <4>2. \A t \in PlayerSlots : Has(t, p) => t # s
        BY <1>4, <3>3 DEF Has
      <4>3. \A t \in PlayerSlots : Has(t, p) /\ slots[t].played => slots'[t].played
        <5>1. \A t \in PlayerSlots : Has(t, p) /\ slots[t].played => t # o
          BY <1>5, <1>7, <3>3, SlotNumbers DEF Has
        <5>2. QED
          BY <1>10, <4>2, <5>1
      <4>4. QED
        BY <1>2, <4>1, <4>2, <4>3 DEF PlayerInv
    <3>4. QED
      BY <3>1, <3>2, <3>3
  <2>2. QED
    BY <1>11, <2>1 DEF PlayerInv
<1>16. QED
  BY <1>12, <1>13, <1>14, <1>15 DEF RpsInv

LEMMA RpsStep ==
  ASSUME RpsInv, [RpsNext]_rpsVars
  PROVE  RpsInv'
<1>1. CASE RpsServes
  <2>1. PICK m : m = Head(rpsInbox)
    OBVIOUS
  <2>2. /\ rpsInbox # <<>> /\ rpsInbox' = Tail(rpsInbox)
        /\ \/ m.type = "SIGNUP" /\ HandlesSignup(m)
           \/ m.type = "PLAY" /\ HandlesPlay(m) /\ UNCHANGED waiting
           \/ m.type = "QUIT" /\ HandlesQuit(m)
    BY <1>1, <2>1 DEF RpsServes
  <2>3. QED
    BY <2>1, <2>2, SignupKeepsIt, PlayKeepsIt, QuitKeepsIt
<1>2. ASSUME NEW p \in Players, RpsSignup(p) \/ RpsPlay(p) \/ RpsQuit(p)
      PROVE  RpsInv'
  <2>1. CASE RpsSignup(p)
    BY <2>1, AsksKeepsIt DEF RpsSignup, Calls
  <2>2. CASE RpsPlay(p)
    BY <2>2, AsksKeepsIt DEF RpsPlay, Calls
  <2>3. CASE RpsQuit(p)
    BY <2>3, AsksKeepsIt DEF RpsQuit, Calls
  <2>4. QED
    BY <1>2, <2>1, <2>2, <2>3
<1>3. CASE UNCHANGED rpsVars
  <2>1. UNCHANGED <<rpsInbox, slots, waiting, player>>
    BY <1>3 DEF rpsVars
  <2>2. /\ \A s \in PlayerSlots : \A p : Has(s, p)' <=> Has(s, p)
        /\ \A p : InInbox(p)' <=> InInbox(p)
    BY <2>1 DEF Has, InInbox
  <2>3. RpsTypeOK' /\ RpsInboxInv'
    BY <2>1 DEF RpsInv, RpsTypeOK, RpsInboxInv
  <2>4. SlotInv'
    BY <2>1 DEF RpsInv, SlotInv, Has
  <2>5. HolderInv' /\ PlayerInv'
    BY <2>1, <2>2 DEF RpsInv, HolderInv, PlayerInv
  <2>6. QED
    BY <2>3, <2>4, <2>5 DEF RpsInv
<1>4. QED
  BY <1>1, <1>2, <1>3 DEF RpsNext

\* The slots of the server and what its players wait for agree: pairs are
\* mutual, the unpaired player is the one `waiting' names, a held move is one
\* whose player waits for it.
THEOREM RpsInvariant == RpsSpec => []RpsInv
<1>1. RpsInit => RpsInv
  BY RpsInitially
<1>2. RpsInv /\ [RpsNext]_rpsVars => RpsInv'
  BY RpsStep
<1>3. QED
  BY <1>1, <1>2, PTL DEF RpsSpec

\* A player that waits for an answer is one the server will answer: its call is
\* unread, or it is the unpaired player, or its opponent is there and has not
\* played.
THEOREM PlayersAreRemembered == RpsSpec => []NobodyIsForgotten
<1>1. ASSUME RpsInv
      PROVE  NobodyIsForgotten
  <2> SUFFICES ASSUME NEW p \in Players, player[p].at \in Calls, ~InInbox(p)
               PROVE  LET s == slot_find(p)
                      IN  /\ s >= 0
                          /\ player[p].at = "SIGNUP" => waiting = s
                          /\ player[p].at # "SIGNUP" =>
                               LET o == slots[s].opp
                               IN  /\ player[p].at = "PLAY" /\ slots[s].played
                                   /\ o >= 0 /\ slots[o].in_use /\ slots[o].opp = s
                                   /\ ~slots[o].played
    BY DEF NobodyIsForgotten, Calls
  <2>1. player[p].at \in {"SIGNUP", "PLAY"}
    BY <1>1 DEF RpsInv, PlayerInv, Calls
  <2>2. \E s \in PlayerSlots : Has(s, p) /\ (player[p].at = "PLAY" => slots[s].played)
    BY <1>1, <2>1 DEF RpsInv, PlayerInv
  <2>3. PICK s \in PlayerSlots : s = slot_find(p) /\ Has(s, p)
    BY <2>2, RpsFinds
  <2>4. player[p].at = "PLAY" => slots[s].played
    BY <1>1, <2>2, <2>3 DEF RpsInv, SlotInv, Has
  <2>5. s >= 0 /\ (player[p].at = "SIGNUP" => waiting = s)
    BY <1>1, <2>3, SlotNumbers DEF RpsInv, HolderInv
  <2>6. CASE player[p].at = "SIGNUP"
    BY <2>3, <2>5, <2>6
  <2>7. CASE player[p].at = "PLAY"
    <3>1. slots[s].opp \in PlayerSlots \cup {-1}
      BY <1>1 DEF RpsInv, RpsTypeOK, RpsSlot
    <3>2. /\ slots[s].opp >= 0 /\ slots[slots[s].opp].in_use
          /\ slots[slots[s].opp].opp = s /\ ~slots[slots[s].opp].played
      BY <1>1, <2>3, <2>4, <2>7, <3>1, SlotNumbers DEF RpsInv, SlotInv, Has
    <3>3. QED
      BY <2>3, <2>4, <2>5, <2>7, <3>2
  <2>8. QED
    BY <2>1, <2>6, <2>7
<1>2. QED
  BY <1>1, RpsInvariant, PTL

\* What the two of a round are told agrees.
LEMMA ResultsAgree ==
  ASSUME NEW a \in Moves, NEW b \in Moves
  PROVE  /\ <<Result(a, b), Result(b, a)>> \in {<<"WIN", "LOSE">>, <<"LOSE", "WIN">>, <<"TIE", "TIE">>}
         /\ Result(a, b) = "WIN" <=> beats(a, b)
BY DEF Moves, Result, beats

\* A move is answered with a result only by a round between two players.
LEMMA OnlyRoundsEnd ==
  ASSUME RpsInv, [RpsNext]_rpsVars, NEW p \in Players,
         player[p].at = "PLAY", player'[p].at = "runs", player'[p].got.result # "OPP_QUIT",
         NEW m, m = Head(rpsInbox)
  PROVE  /\ m.tid \in Players /\ m.move \in Moves /\ player[m.tid].at = "PLAY"
         /\ \E s, o \in PlayerSlots, q \in Players :
              /\ s = slot_find(m.tid) /\ Has(s, m.tid) /\ o = slots[s].opp
              /\ RoundEnds(m, s, o, q) /\ (p = m.tid \/ p = q)
<1>0. player \in [Players -> RpsPlayer] /\ waiting \in PlayerSlots \cup {-1}
  BY DEF RpsInv, RpsTypeOK
<1>1. player' # player
  OBVIOUS
<1>2. RpsServes
  <2>1. ASSUME NEW c \in Players, NEW type, NEW move, RpsAsks(c, type, move),
               player[c].at # "PLAY"
        PROVE  FALSE
    <3>1. player' = [player EXCEPT ![c].at = type] /\ c # p
      BY <2>1 DEF RpsAsks
    <3>2. player'[p] = player[p]
      BY <1>0, <3>1
    <3>3. QED
      BY <3>2
  <2>2. \A c \in Players : ~RpsSignup(c) /\ ~RpsPlay(c) /\ ~RpsQuit(c)
    BY <2>1 DEF RpsSignup, RpsPlay, RpsQuit
  <2>3. ~UNCHANGED rpsVars
    BY <1>1 DEF rpsVars
  <2>4. QED
    BY <2>2, <2>3 DEF RpsNext
<1>3. /\ rpsInbox # <<>> /\ rpsInbox' = Tail(rpsInbox)
      /\ \/ m.type = "SIGNUP" /\ HandlesSignup(m)
         \/ m.type = "PLAY" /\ HandlesPlay(m)
         \/ m.type = "QUIT" /\ HandlesQuit(m)
  BY <1>2 DEF RpsServes
<1>4. /\ m.tid \in Players /\ player[m.tid].at = m.type
      /\ m.type = "PLAY" => m.move \in Moves
  BY <1>3, ServedFacts
<1>5. ASSUME m.type = "SIGNUP", HandlesSignup(m)
      PROVE  FALSE
  <2>1. CASE slot_alloc = -1
    <3>1. Answers(AnswerTo(m.tid, "ERR"))
      BY <1>5, <2>1 DEF HandlesSignup
    <3>2. player'[p] = player[p]
      BY <1>4, <1>5, <3>1 DEF Answers, AnswerTo
    <3>3. QED
      BY <3>2
  <2>2. CASE slot_alloc # -1 /\ waiting = -1
    <3>1. slot_alloc >= 0 /\ ~(slot_alloc < 0)
      BY <2>2, RpsAllocs, SlotNumbers
    <3>2. player' = player
      BY <1>5, <2>2, <3>1 DEF HandlesSignup
    <3>3. QED
      BY <1>1, <3>2
  <2>3. CASE slot_alloc # -1 /\ waiting # -1
    <3>1. ~(slot_alloc < 0) /\ ~(waiting < 0) /\ waiting \in PlayerSlots
      BY <1>0, <2>3, RpsAllocs, SlotNumbers
    <3>2. Answers([q \in {slots[waiting].tid, m.tid} |-> Answer("PAIRED", NoMove)])
      BY <1>5, <3>1 DEF HandlesSignup
    <3>3. Has(waiting, slots[waiting].tid) /\ slots[waiting].tid \in Players
      BY <2>3, <3>1 DEF RpsInv, HolderInv, SlotInv, Has
    <3>4. player[slots[waiting].tid].at = "SIGNUP"
      BY <3>1, <3>3 DEF RpsInv, HolderInv
    <3>5. p # slots[waiting].tid /\ p # m.tid
      BY <1>4, <1>5, <3>4
    <3>6. player'[p] = player[p]
      BY <3>2, <3>5 DEF Answers
    <3>7. QED
      BY <3>6
  <2>4. QED
    BY <2>1, <2>2, <2>3
<1>6. ASSUME m.type = "QUIT", HandlesQuit(m)
      PROVE  FALSE
  <2>1. PICK peer : Answers([c \in {m.tid} \cup peer |->
                      Answer(IF c = m.tid THEN "left" ELSE "OPP_QUIT", NoMove)])
    BY <1>6 DEF HandlesQuit
  <2>2. p # m.tid
    BY <1>4, <1>6
  <2>3. player'[p] = player[p] \/ player'[p].got.result = "OPP_QUIT"
    BY <2>1, <2>2 DEF Answers, Answer
  <2>4. QED
    BY <2>3
<1>7. m.type = "PLAY" /\ HandlesPlay(m)
  BY <1>3, <1>5, <1>6
<1>8. PICK s \in PlayerSlots :
        s = slot_find(m.tid) /\ s >= 0 /\ Has(s, m.tid) /\ slots[s].opp \in PlayerSlots \cup {-1}
  BY <1>3, <1>7, CallerFacts
<1>9. slots[s].opp # -1
  <2> SUFFICES ASSUME slots[s].opp = -1 PROVE FALSE
    OBVIOUS
  <2>1. ~(s < 0) /\ s >= 0 /\ slots[s].opp < 0 /\ ~(slots[s].opp >= 0)
    BY <1>8, SlotNumbers
  <2>2. Answers(AnswerTo(m.tid, "OPP_QUIT"))
    BY <1>7, <1>8, <2>1 DEF HandlesPlay
  <2>3. player'[p] = player[p] \/ player'[p].got.result = "OPP_QUIT"
    BY <2>2 DEF Answers, AnswerTo, Answer
  <2>4. QED
    BY <2>3
<1>10. PICK o \in PlayerSlots : o = slots[s].opp /\ o >= 0
  BY <1>8, <1>9, SlotNumbers
<1>11. slots[o].played
  <2> SUFFICES ASSUME ~slots[o].played PROVE FALSE
    OBVIOUS
  <2>1. ~(s < 0) /\ ~(o < 0)
    BY <1>8, <1>10, SlotNumbers
  <2>2. player' = player
    BY <1>7, <1>8, <1>10, <2>1 DEF HandlesPlay
  <2>3. QED
    BY <1>1, <2>2
<1>12. PICK q \in Players : RoundEnds(m, s, o, q)
  BY <1>3, <1>7, <1>8, <1>10, <1>11, RoundFacts
<1>13. p = m.tid \/ p = q
  BY <1>12 DEF RoundEnds
<1>14. QED
  BY <1>4, <1>7, <1>8, <1>10, <1>12, <1>13

\* A result is told to two players at once, who were paired and had each made a
\* move, and it is the result of these two moves.
THEOREM RoundsFair == RpsSpec => RoundsAreFair
<1>1. ASSUME RpsInv, [RpsNext]_rpsVars, NEW p \in Players,
             player[p].at = "PLAY", player'[p].at = "runs", player'[p].got.result # "OPP_QUIT"
      PROVE  \E q \in Players \ {p} :
               /\ player[q].at = "PLAY" /\ player'[q].at = "runs"
               /\ slots[slot_find(p)].opp = slot_find(q)
               /\ <<player'[p].got.result, player'[q].got.result>> \in
                    {<<"WIN", "LOSE">>, <<"LOSE", "WIN">>, <<"TIE", "TIE">>}
               /\ player'[p].got.result = "WIN" <=>
                    beats(player'[q].got.opp_move, player'[p].got.opp_move)
  <2>1. PICK m : m = Head(rpsInbox)
    OBVIOUS
  <2>2. m.tid \in Players /\ m.move \in Moves /\ player[m.tid].at = "PLAY"
    BY <1>1, <2>1, OnlyRoundsEnd
  <2>3. PICK s \in PlayerSlots, o \in PlayerSlots, q \in Players :
          /\ s = slot_find(m.tid) /\ Has(s, m.tid) /\ o = slots[s].opp
          /\ RoundEnds(m, s, o, q) /\ (p = m.tid \/ p = q)
    BY <1>1, <2>1, OnlyRoundsEnd
  <2>4. /\ Has(o, q) /\ q # m.tid /\ player[q].at = "PLAY" /\ slots[o].opp = s
        /\ slots[o].move \in Moves
        /\ player'[m.tid].at = "runs" /\ player'[q].at = "runs"
        /\ player'[m.tid].got = Answer(Result(m.move, slots[o].move), slots[o].move)
        /\ player'[q].got = Answer(Result(slots[o].move, m.move), m.move)
    BY <2>3 DEF RoundEnds
  <2>5. slot_find(q) = o
    <3>1. slot_find(q) \in PlayerSlots /\ Has(slot_find(q), q)
      BY <2>3, <2>4, RpsFinds
    <3>2. QED
      BY <1>1, <2>3, <2>4, <3>1 DEF RpsInv, SlotInv, Has
  <2>6. PICK mine, other :
          /\ mine = Result(m.move, slots[o].move) /\ other = Result(slots[o].move, m.move)
    OBVIOUS
  <2>7. /\ <<mine, other>> \in {<<"WIN", "LOSE">>, <<"LOSE", "WIN">>, <<"TIE", "TIE">>}
        /\ <<other, mine>> \in {<<"WIN", "LOSE">>, <<"LOSE", "WIN">>, <<"TIE", "TIE">>}
        /\ mine = "WIN" <=> beats(m.move, slots[o].move)
        /\ other = "WIN" <=> beats(slots[o].move, m.move)
    BY <2>2, <2>4, <2>6, ResultsAgree
  <2>8. /\ player'[m.tid].got.result = mine /\ player'[m.tid].got.opp_move = slots[o].move
        /\ player'[q].got.result = other /\ player'[q].got.opp_move = m.move
    BY <2>4, <2>6 DEF Answer
  <2>9. CASE p = m.tid
    <3>1. q \in Players \ {p}
      BY <2>4, <2>9
    <3>2. slots[slot_find(p)].opp = slot_find(q)
      BY <2>3, <2>5, <2>9
    <3>3. QED
      BY <2>4, <2>7, <2>8, <2>9, <3>1, <3>2
  <2>10. CASE p = q
    <3>1. m.tid \in Players \ {p}
      BY <2>2, <2>4, <2>10
    <3>2. slots[slot_find(p)].opp = slot_find(m.tid)
      BY <2>3, <2>4, <2>5, <2>10
    <3>3. QED
      BY <2>2, <2>4, <2>7, <2>8, <2>10, <3>1, <3>2
  <2>11. QED
    BY <2>3, <2>9, <2>10
<1>2. RpsInv /\ [RpsNext]_rpsVars =>
        [\A p \in Players :
           player[p].at = "PLAY" /\ player'[p].at = "runs" /\ player'[p].got.result # "OPP_QUIT" =>
             \E q \in Players \ {p} :
               /\ player[q].at = "PLAY" /\ player'[q].at = "runs"
               /\ slots[slot_find(p)].opp = slot_find(q)
               /\ <<player'[p].got.result, player'[q].got.result>> \in
                    {<<"WIN", "LOSE">>, <<"LOSE", "WIN">>, <<"TIE", "TIE">>}
               /\ player'[p].got.result = "WIN" <=>
                    beats(player'[q].got.opp_move, player'[p].got.opp_move)]_rpsVars
  BY <1>1
<1>3. QED
  BY <1>2, RpsInvariant, PTL DEF RpsSpec, RoundsAreFair

-----------------------------------------------------------------------------
(* The observers of the console: the server goes down its list, those ahead *)
(* of it are owed the character it is telling and those behind it are not.  *)

ObserverEntry == [tid : ConsoleTasks, mask : SUBSET {RX, TX}]
ObserverMsg ==
  {m \in [type : {RX, TX, "observe", "unobserve"}, tid : ConsoleTasks \cup {NotifierTid},
          ch : Nat, mask : SUBSET {RX, TX}] :
     /\ m.type # RX => m.tid \in ConsoleTasks
     /\ m.type = "unobserve" => m.mask = {}}

ObserversTypeOK ==
  /\ observers \in Seq(ObserverEntry)
  /\ due \in [ConsoleTasks -> [mask : SUBSET {RX, TX}, all : Seq(Nat)]]
  /\ heard \in [ConsoleTasks -> Seq(Nat)]
  /\ uart1Inbox \in Seq(ObserverMsg)
  /\ consoleCount \in [chars : Nat, calls : Nat]

\* What the server is telling, and whom next.
ServingInv ==
  \/ serving = NotServing
  \/ /\ serving.msg \in ObserverMsg /\ serving.msg.type \in {RX, TX}
     /\ serving = [msg |-> serving.msg, i |-> serving.i]
     /\ serving.i \in 1..(Len(observers) + 1)

Registered(t, j) == j \in DOMAIN observers /\ observers[j].tid = t

ListInv == \A t \in ConsoleTasks, j, k \in DOMAIN observers :
             Registered(t, j) /\ Registered(t, k) => j = k

MaskInv(t) ==
  /\ \A j \in DOMAIN observers : Registered(t, j) => due[t].mask = observers[j].mask
  /\ (\A j \in DOMAIN observers : ~Registered(t, j)) => due[t].mask = {}

\* It has yet to be told what the server is telling.
Owed(t) ==
  /\ serving.i # 0
  /\ \E j \in DOMAIN observers : /\ Registered(t, j) /\ serving.i <= j
                                 /\ serving.msg.type \in observers[j].mask

HeardInv(t) ==
  /\ Owed(t) => Append(heard[t], serving.msg.ch) = due[t].all
  /\ ~Owed(t) => heard[t] = due[t].all

ObserversInv ==
  /\ ObserversTypeOK /\ ServingInv /\ ListInv
  /\ \A t \in ConsoleTasks : MaskInv(t) /\ HeardInv(t)

LEMMA ObserversStart == ObserversInit => ObserversInv
<1> SUFFICES ASSUME ObserversInit PROVE ObserversInv
  OBVIOUS
<1>1. /\ observers = <<>> /\ DOMAIN observers = {} /\ serving = NotServing /\ uart1Inbox = <<>>
      /\ heard = [t \in ConsoleTasks |-> <<>>]
      /\ due = [t \in ConsoleTasks |-> [mask |-> {}, all |-> <<>>]]
      /\ consoleCount = [chars |-> 0, calls |-> 0]
  BY DEF ObserversInit
<1>2. ObserversTypeOK /\ ServingInv
  BY <1>1 DEF ObserversTypeOK, ServingInv
<1>3. ListInv /\ \A t \in ConsoleTasks : MaskInv(t) /\ ~Owed(t)
  BY <1>1 DEF ListInv, MaskInv, Owed, Registered
<1>4. QED
  BY <1>1, <1>2, <1>3 DEF ObserversInv, HeardInv

\* What leaves the list, the inbox and the histories of the observers alone
\* keeps all but their types.
LEMMA ObserversStay ==
  ASSUME ObserversInv, UNCHANGED <<observers, serving, heard, due>>,
         uart1Inbox' \in Seq(ObserverMsg), consoleCount' \in [chars : Nat, calls : Nat]
  PROVE  ObserversInv'
<1>1. ObserversTypeOK' /\ ServingInv'
  BY DEF ObserversInv, ObserversTypeOK, ServingInv
<1>2. ListInv' /\ \A t \in ConsoleTasks : MaskInv(t)' /\ HeardInv(t)'
  BY DEF ObserversInv, ListInv, MaskInv, HeardInv, Owed, Registered
<1>3. QED
  BY <1>1, <1>2 DEF ObserversInv

LEMMA ConsoleAsksKeepIt ==
  ASSUME ObserversInv,
         NotifierSends \/ \E t \in ConsoleTasks :
                            ConsolePutc(t) \/ ConsoleObserve(t) \/ ConsoleUnobserve(t)
  PROVE  ObserversInv'
<1>1. uart1Inbox \in Seq(ObserverMsg) /\ consoleCount \in [chars : Nat, calls : Nat]
  BY DEF ObserversInv, ObserversTypeOK
<1>2. ASSUME NotifierSends PROVE ObserversInv'
  <2> DEFINE m == ConsoleMsg(RX, NotifierTid, consoleCount.chars + 1, {})
  <2>1. /\ uart1Inbox' = Append(uart1Inbox, m) /\ UNCHANGED <<observers, serving, heard, due>>
        /\ consoleCount' = [consoleCount EXCEPT !.chars = @ + 1]
    BY <1>2 DEF NotifierSends
  <2>2. m \in ObserverMsg /\ consoleCount' \in [chars : Nat, calls : Nat]
    BY <1>1, <2>1 DEF ObserverMsg, ConsoleMsg, RX, TX
  <2> HIDE DEF m
  <2>3. uart1Inbox' \in Seq(ObserverMsg)
    BY <1>1, <2>1, <2>2, AppendFacts
  <2>4. QED
    BY <2>1, <2>2, <2>3, ObserversStay
<1>3. ASSUME NEW t \in ConsoleTasks,
             ConsolePutc(t) \/ ConsoleObserve(t) \/ ConsoleUnobserve(t)
      PROVE  ObserversInv'
  <2>1. PICK type \in {TX, "observe", "unobserve"}, ch \in Nat, mask \in SUBSET {RX, TX} :
          Asks(t, type, ch, mask) /\ (type = "unobserve" => mask = {})
    <3>1. CASE ConsolePutc(t)
      BY <1>1, <3>1 DEF ConsolePutc
    <3>2. CASE ConsoleObserve(t)
      BY <3>2 DEF ConsoleObserve, Masks
    <3>3. CASE ConsoleUnobserve(t)
      BY <3>3 DEF ConsoleUnobserve
    <3>4. QED
      BY <1>3, <3>1, <3>2, <3>3
  <2> DEFINE m == ConsoleMsg(type, t, ch, mask)
  <2>2. /\ uart1Inbox' = Append(uart1Inbox, m) /\ UNCHANGED <<observers, serving, heard, due>>
        /\ consoleCount' = [consoleCount EXCEPT !.calls = @ + 1]
    BY <2>1 DEF Asks
  <2>3. m \in ObserverMsg
    BY <2>1 DEF ObserverMsg, ConsoleMsg, RX, TX
  <2>4. consoleCount' \in [chars : Nat, calls : Nat]
    BY <1>1, <2>2
  <2> HIDE DEF m
  <2>5. uart1Inbox' \in Seq(ObserverMsg)
    BY <1>1, <2>2, <2>3, AppendFacts
  <2>6. QED
    BY <2>2, <2>4, <2>5, ObserversStay
<1>4. QED
  BY <1>2, <1>3

\* A character is owed to those whose entry asks for it, and to nobody else.
LEMMA ServesCharKeepsIt ==
  ASSUME ObserversInv, serving.i = 0, NEW m \in ObserverMsg, ServesChar(m),
         uart1Inbox' \in Seq(ObserverMsg), UNCHANGED <<heard, consoleCount>>
  PROVE  ObserversInv'
<1>1. /\ m.type \in {RX, TX} /\ serving' = [msg |-> m, i |-> 1] /\ observers' = observers
      /\ due' = [t \in ConsoleTasks |->
                   IF m.type \in due[t].mask THEN [due[t] EXCEPT !.all = Append(@, m.ch)] ELSE due[t]]
  BY DEF ServesChar
<1>2. /\ observers \in Seq(ObserverEntry) /\ heard \in [ConsoleTasks -> Seq(Nat)] /\ m.ch \in Nat
      /\ due \in [ConsoleTasks -> [mask : SUBSET {RX, TX}, all : Seq(Nat)]]
      /\ consoleCount \in [chars : Nat, calls : Nat] /\ ListInv
      /\ Len(observers) \in Nat /\ DOMAIN observers = 1..Len(observers)
  BY DEF ObserversInv, ObserversTypeOK, ObserverMsg
<1>3. ASSUME NEW t \in ConsoleTasks
      PROVE  /\ due'[t] \in [mask : SUBSET {RX, TX}, all : Seq(Nat)]
             /\ due'[t].mask = due[t].mask
             /\ due'[t].all = IF m.type \in due[t].mask THEN Append(heard[t], m.ch) ELSE heard[t]
  <2>1. MaskInv(t) /\ heard[t] = due[t].all
    BY DEF ObserversInv, HeardInv, Owed
  <2>2. Append(due[t].all, m.ch) \in Seq(Nat)
    BY <1>2, AppendFacts
  <2>3. QED
    BY <1>1, <1>2, <2>1, <2>2
<1>4. ObserversTypeOK'
  BY <1>1, <1>2, <1>3 DEF ObserversTypeOK
<1>5. ServingInv'
  BY <1>1, <1>2 DEF ServingInv
<1>6. ListInv'
  BY <1>1, <1>2 DEF ListInv, Registered
<1>7. ASSUME NEW t \in ConsoleTasks
      PROVE  MaskInv(t)' /\ HeardInv(t)'
  <2>1. MaskInv(t)
    BY DEF ObserversInv
  <2>2. MaskInv(t)'
    BY <1>1, <1>3, <2>1 DEF MaskInv, Registered
  <2>3. Owed(t)' <=> m.type \in due[t].mask
    BY <1>1, <1>2, <2>1 DEF Owed, MaskInv, Registered
  <2>4. QED
    BY <1>1, <1>3, <2>2, <2>3 DEF HeardInv
<1>8. QED
  BY <1>4, <1>5, <1>6, <1>7 DEF ObserversInv

\* Nobody is told of anything while the list changes: it is enough that the
\* list and the masks agree after it.
LEMMA ListChanges ==
  ASSUME ObserversInv, serving.i = 0, UNCHANGED <<serving, heard, consoleCount>>,
         uart1Inbox' \in Seq(ObserverMsg), observers' \in Seq(ObserverEntry), ListInv',
         due' \in [ConsoleTasks -> [mask : SUBSET {RX, TX}, all : Seq(Nat)]],
         \A t \in ConsoleTasks : MaskInv(t)' /\ due'[t].all = due[t].all
  PROVE  ObserversInv'
<1>1. ObserversTypeOK'
  BY DEF ObserversInv, ObserversTypeOK
<1>2. ServingInv'
  BY DEF ObserversInv, ServingInv
<1>3. ASSUME NEW t \in ConsoleTasks PROVE HeardInv(t)'
  BY DEF ObserversInv, HeardInv, Owed
<1>4. QED
  BY <1>1, <1>2, <1>3 DEF ObserversInv

LEMMA RegisterKeepsIt ==
  ASSUME ObserversInv, serving.i = 0, NEW m \in ObserverMsg, ServesObserver(m), m.type = "observe",
         uart1Inbox' \in Seq(ObserverMsg), UNCHANGED <<heard, consoleCount>>
  PROVE  ObserversInv'
<1> DEFINE I == {i \in DOMAIN observers : observers[i].tid = m.tid}
<1>1. /\ observers \in Seq(ObserverEntry) /\ ListInv
      /\ due \in [ConsoleTasks -> [mask : SUBSET {RX, TX}, all : Seq(Nat)]]
      /\ m.tid \in ConsoleTasks /\ m.mask \in SUBSET {RX, TX}
      /\ Len(observers) \in Nat /\ DOMAIN observers = 1..Len(observers)
      /\ \A t \in ConsoleTasks : MaskInv(t)
      /\ serving' = serving
  BY DEF ObserversInv, ObserversTypeOK, ObserverMsg, ServesObserver, RX, TX
<1>2. /\ observers' = register_observer(m.tid, m.mask)
      /\ due' = IF Len(observers) >= MAX_CONSOLE_OBSERVERS /\ I = {}
                THEN due ELSE [due EXCEPT ![m.tid].mask = m.mask]
  BY DEF ServesObserver
<1>3. CASE I # {}
  <2>1. PICK k \in I : k = Min(I)
    <3>1. I \in SUBSET Nat
      BY <1>1
    <3> HIDE DEF I
    <3>2. QED
      BY <1>3, <3>1, MinIsIn
  <2>2. /\ observers' = [observers EXCEPT ![k].mask = m.mask]
        /\ due' = [due EXCEPT ![m.tid].mask = m.mask]
    BY <1>2, <1>3, <2>1 DEF register_observer
  <2>3. /\ k \in DOMAIN observers /\ observers[k].tid = m.tid /\ observers[k] \in ObserverEntry
        /\ \A i \in DOMAIN observers : observers[i] \in ObserverEntry
    BY <1>1, <2>1
  <2>4. /\ DOMAIN observers' = DOMAIN observers /\ observers' \in Seq(ObserverEntry)
        /\ observers'[k].mask = m.mask
        /\ \A i \in DOMAIN observers : observers'[i].tid = observers[i].tid
        /\ \A i \in DOMAIN observers : i # k => observers'[i].mask = observers[i].mask
    <3>1. [observers[k] EXCEPT !.mask = m.mask] \in ObserverEntry
      BY <1>1, <2>3 DEF ObserverEntry
    <3>2. observers' \in Seq(ObserverEntry) /\ DOMAIN observers' = DOMAIN observers
      BY <1>1, <2>2, <2>3, <3>1
    <3>3. QED
      BY <2>2, <2>3, <3>2 DEF ObserverEntry
  <2>5. /\ due' \in [ConsoleTasks -> [mask : SUBSET {RX, TX}, all : Seq(Nat)]]
        /\ due'[m.tid].mask = m.mask
        /\ \A t \in ConsoleTasks : t # m.tid => due'[t].mask = due[t].mask
        /\ \A t \in ConsoleTasks : due'[t].all = due[t].all
    BY <1>1, <2>2
  <2>6. ListInv'
    BY <1>1, <2>4 DEF ListInv, Registered
  <2>7. ASSUME NEW t \in ConsoleTasks PROVE MaskInv(t)'
    <3>1. CASE t = m.tid
      <4>1. \A j \in DOMAIN observers : Registered(t, j)' => j = k
        BY <1>1, <2>3, <2>4, <3>1 DEF ListInv, Registered
      <4>2. Registered(t, k)' /\ k \in DOMAIN observers'
        BY <2>3, <2>4, <3>1 DEF Registered
      <4>3. QED
        BY <2>4, <2>5, <3>1, <4>1, <4>2 DEF MaskInv
    <3>2. CASE t # m.tid
      <4>1. \A i \in DOMAIN observers : Registered(t, i)' <=> Registered(t, i)
        BY <2>4 DEF Registered
      <4>2. \A i \in DOMAIN observers : Registered(t, i) => observers'[i].mask = observers[i].mask
        BY <2>3, <2>4, <3>2 DEF Registered
      <4>3. MaskInv(t)
        BY <1>1
      <4>4. QED
        BY <2>4, <2>5, <3>2, <4>1, <4>2, <4>3 DEF MaskInv
    <3>3. QED
      BY <3>1, <3>2
  <2>8. QED
    BY <1>1, <2>4, <2>5, <2>6, <2>7, ListChanges
<1>4. CASE I = {} /\ Len(observers) >= MAX_CONSOLE_OBSERVERS
  <2>1. observers' = observers /\ due' = due
    BY <1>2, <1>4 DEF register_observer
  <2>2. QED
    BY <1>1, <2>1, ObserversStay DEF ObserversInv, ObserversTypeOK
<1>5. CASE I = {} /\ ~(Len(observers) >= MAX_CONSOLE_OBSERVERS)
  <2> DEFINE e == [tid |-> m.tid, mask |-> m.mask]
  <2>1. observers' = Append(observers, e) /\ due' = [due EXCEPT ![m.tid].mask = m.mask]
    BY <1>2, <1>5 DEF register_observer
  <2>2. e \in ObserverEntry /\ e.tid = m.tid /\ e.mask = m.mask
    BY <1>1 DEF ObserverEntry
  <2> HIDE DEF e
  <2>3. /\ observers' \in Seq(ObserverEntry) /\ DOMAIN observers' = 1..(Len(observers) + 1)
        /\ \A i \in DOMAIN observers : observers'[i] = observers[i]
        /\ observers'[Len(observers) + 1] = e
        /\ \A i \in DOMAIN observers' : i \in DOMAIN observers \/ i = Len(observers) + 1
        /\ Len(observers) + 1 \in DOMAIN observers'
    BY <1>1, <2>1, <2>2, AppendFacts
  <2>4. /\ due' \in [ConsoleTasks -> [mask : SUBSET {RX, TX}, all : Seq(Nat)]]
        /\ due'[m.tid].mask = m.mask
        /\ \A t \in ConsoleTasks : t # m.tid => due'[t].mask = due[t].mask
        /\ \A t \in ConsoleTasks : due'[t].all = due[t].all
    BY <1>1, <2>1
  <2>5. \A i \in DOMAIN observers : observers[i].tid # m.tid
    BY <1>5
  <2>6. ListInv'
    BY <1>1, <2>2, <2>3, <2>5 DEF ListInv, Registered
  <2>7. ASSUME NEW t \in ConsoleTasks PROVE MaskInv(t)'
    <3>1. MaskInv(t)
      BY <1>1
    <3>2. CASE t = m.tid
      BY <1>1, <2>2, <2>3, <2>4, <2>5, <3>2 DEF MaskInv, Registered
    <3>3. CASE t # m.tid
      <4>1. \A i \in DOMAIN observers' : Registered(t, i)' <=> Registered(t, i)
        BY <1>1, <2>2, <2>3, <3>3 DEF Registered
      <4>2. \A i \in DOMAIN observers : Registered(t, i) => observers'[i] = observers[i]
        BY <2>3
      <4>3. \A i \in DOMAIN observers : i \in DOMAIN observers'
        BY <1>1, <2>3
      <4>4. QED
        BY <2>3, <2>4, <3>1, <3>3, <4>1, <4>2, <4>3 DEF MaskInv, Registered
    <3>4. QED
      BY <3>2, <3>3
  <2>8. QED
    BY <1>1, <2>3, <2>4, <2>6, <2>7, ListChanges
<1>6. QED
  BY <1>3, <1>4, <1>5

\* The last takes the place of the one that goes.
LEMMA UnregisterKeepsIt ==
  ASSUME ObserversInv, serving.i = 0, NEW m \in ObserverMsg, ServesObserver(m), m.type = "unobserve",
         uart1Inbox' \in Seq(ObserverMsg), UNCHANGED <<heard, consoleCount>>
  PROVE  ObserversInv'
<1> DEFINE I == {i \in DOMAIN observers : observers[i].tid = m.tid}
<1>1. /\ observers \in Seq(ObserverEntry) /\ ListInv
      /\ due \in [ConsoleTasks -> [mask : SUBSET {RX, TX}, all : Seq(Nat)]]
      /\ m.tid \in ConsoleTasks /\ m.mask = {}
      /\ Len(observers) \in Nat /\ DOMAIN observers = 1..Len(observers)
      /\ \A t \in ConsoleTasks : MaskInv(t)
      /\ serving' = serving
  BY DEF ObserversInv, ObserversTypeOK, ObserverMsg, ServesObserver, RX, TX
<1>2. /\ observers' = unregister_observer(m.tid)
      /\ due' = [due EXCEPT ![m.tid].mask = m.mask]
  BY DEF ServesObserver
<1>3. /\ due' \in [ConsoleTasks -> [mask : SUBSET {RX, TX}, all : Seq(Nat)]]
      /\ due'[m.tid].mask = {}
      /\ \A t \in ConsoleTasks : t # m.tid => due'[t].mask = due[t].mask
      /\ \A t \in ConsoleTasks : due'[t].all = due[t].all
  BY <1>1, <1>2
<1>4. CASE I = {}
  <2>1. observers' = observers
    BY <1>2, <1>4 DEF unregister_observer
  <2>2. ListInv'
    BY <1>1, <2>1 DEF ListInv, Registered
  <2>3. ASSUME NEW t \in ConsoleTasks PROVE MaskInv(t)'
    <3>1. \A j \in DOMAIN observers : Registered(t, j)' <=> Registered(t, j)
      BY <2>1 DEF Registered
    <3>2. MaskInv(t) /\ (t = m.tid => \A j \in DOMAIN observers : ~Registered(t, j))
      BY <1>1, <1>4 DEF Registered
    <3>3. due'[t].mask = due[t].mask
      <4>1. CASE t = m.tid
        BY <1>3, <3>2, <4>1 DEF MaskInv
      <4>2. QED
        BY <1>3, <4>1
    <3>4. QED
      BY <2>1, <3>1, <3>2, <3>3 DEF MaskInv
  <2>4. QED
    BY <1>1, <1>3, <2>1, <2>2, <2>3, ListChanges
<1>5. CASE I # {}
  <2>1. PICK k \in I : k = Min(I)
    <3>1. I \in SUBSET Nat
      BY <1>1
    <3> HIDE DEF I
    <3>2. QED
      BY <1>5, <3>1, MinIsIn
  <2>2. observers' = Front([observers EXCEPT ![k] = Last(observers)])
    BY <1>2, <1>5, <2>1 DEF unregister_observer
  <2>3. k \in 1..Len(observers) /\ observers[k].tid = m.tid
    BY <1>1, <2>1
  <2> DEFINE n == Len(observers)
  <2>4. /\ observers' \in Seq(ObserverEntry) /\ DOMAIN observers' = 1..(n - 1)
        /\ \A i \in 1..(n - 1) : observers'[i] = IF i = k THEN observers[n] ELSE observers[i]
    <3> DEFINE w == [observers EXCEPT ![k] = Last(observers)]
    <3>1. n \in Nat /\ n >= 1 /\ n - 1 \in Nat /\ observers[n] \in ObserverEntry
      BY <1>1, <2>3
    <3>2. /\ w \in Seq(ObserverEntry) /\ Len(w) = n
          /\ \A i \in 1..n : w[i] = IF i = k THEN observers[n] ELSE observers[i]
      BY <1>1, <2>3, <3>1 DEF Last
    <3>3. observers' = SubSeq(w, 1, Len(w) - 1)
      BY <2>2 DEF Front
    <3> HIDE DEF n, w
    <3>4. /\ observers' \in Seq(ObserverEntry) /\ Len(observers') = n - 1
          /\ \A i \in 1..(n - 1) : observers'[i] = w[i]
      BY <3>1, <3>2, <3>3, SubSeqProperties
    <3>5. QED
      BY <3>1, <3>2, <3>4
  <2>5. /\ n \in Nat /\ k \in 1..n
        /\ \A t \in ConsoleTasks, i, j \in 1..n :
             observers[i].tid = t /\ observers[j].tid = t => i = j
    <3>1. \A t \in ConsoleTasks, i, j \in 1..n :
            Registered(t, i) /\ Registered(t, j) => i = j
      BY <1>1 DEF ListInv
    <3>2. \A t, i : i \in 1..n => (Registered(t, i) <=> observers[i].tid = t)
      BY <1>1 DEF Registered
    <3>3. QED
      BY <1>1, <2>3, <3>1, <3>2
  <2> HIDE DEF n
  <2>6. ListInv'
    BY <2>4, <2>5 DEF ListInv, Registered
  <2>7. ASSUME NEW t \in ConsoleTasks PROVE MaskInv(t)'
    <3>1. CASE t = m.tid
      <4>1. \A i \in 1..(n - 1) : observers'[i].tid # m.tid
        <5> SUFFICES ASSUME NEW i \in 1..(n - 1) PROVE observers'[i].tid # m.tid
          OBVIOUS
        <5>1. i \in 1..n /\ n \in 1..n /\ i # n
          BY <2>5
        <5>2. CASE i = k
          BY <1>1, <2>3, <2>4, <2>5, <5>1, <5>2
        <5>3. CASE i # k
          BY <1>1, <2>3, <2>4, <2>5, <5>1, <5>3
        <5>4. QED
          BY <5>2, <5>3
      <4>2. QED
        BY <1>3, <2>4, <3>1, <4>1 DEF MaskInv, Registered
    <3>2. CASE t # m.tid
      <4>1. /\ \A j \in 1..n : observers[j].tid = t => due[t].mask = observers[j].mask
            /\ (\A j \in 1..n : observers[j].tid # t) => due[t].mask = {}
        BY <1>1 DEF MaskInv, Registered, n
      <4>2. \A j \in 1..(n - 1) : observers'[j].tid = t => due[t].mask = observers'[j].mask
        BY <2>4, <2>5, <4>1
      <4>3. (\A j \in 1..(n - 1) : observers'[j].tid # t) => due[t].mask = {}
        <5> SUFFICES ASSUME \A j \in 1..(n - 1) : observers'[j].tid # t,
                            NEW j \in 1..n, observers[j].tid = t
                     PROVE  FALSE
          BY <4>1
        <5>1. j # k
          BY <2>3, <3>2
        <5>2. CASE j = n
          BY <2>4, <2>5, <5>1, <5>2
        <5>3. CASE j # n
          BY <2>4, <2>5, <5>1, <5>3
        <5>4. QED
          BY <5>2, <5>3
      <4>4. QED
        BY <1>3, <2>4, <3>2, <4>2, <4>3 DEF MaskInv, Registered
    <3>3. QED
      BY <3>1, <3>2
  <2>8. QED
    BY <1>1, <1>3, <2>4, <2>6, <2>7, ListChanges
<1>6. QED
  BY <1>4, <1>5

LEMMA Uart1ReceivesKeepsIt ==
  ASSUME ObserversInv, Uart1Receives
  PROVE  ObserversInv'
<1>1. uart1Inbox \in Seq(ObserverMsg) /\ uart1Inbox # <<>> /\ serving.i = 0
      /\ uart1Inbox' = Tail(uart1Inbox) /\ UNCHANGED <<heard, consoleCount>>
  BY DEF ObserversInv, ObserversTypeOK, Uart1Receives
<1>2. Head(uart1Inbox) \in ObserverMsg /\ uart1Inbox' \in Seq(ObserverMsg)
  BY <1>1, TailFacts
<1>3. CASE ServesChar(Head(uart1Inbox))
  BY <1>1, <1>2, <1>3, ServesCharKeepsIt
<1>4. CASE ServesObserver(Head(uart1Inbox))
  <2>1. Head(uart1Inbox).type \in {"observe", "unobserve"}
    BY <1>4 DEF ServesObserver
  <2>2. QED
    BY <1>1, <1>2, <1>4, <2>1, RegisterKeepsIt, UnregisterKeepsIt
<1>5. QED
  BY <1>3, <1>4 DEF Uart1Receives

\* One observer further down the list: it has been told, or it did not ask.
LEMMA TellsNext ==
  ASSUME ObserversInv, serving.i \in DOMAIN observers,
         serving' = [serving EXCEPT !.i = @ + 1],
         UNCHANGED <<observers, uart1Inbox, due, consoleCount>>,
         NEW u \in ConsoleTasks, observers[serving.i].tid = u,
         heard' = IF serving.msg.type \in observers[serving.i].mask
                  THEN [heard EXCEPT ![u] = Append(@, serving.msg.ch)] ELSE heard
  PROVE  ObserversInv'
<1>1. /\ serving.msg \in ObserverMsg /\ serving.msg.type \in {RX, TX} /\ serving.msg.ch \in Nat
      /\ serving = [msg |-> serving.msg, i |-> serving.i]
      /\ serving.i \in 1..Len(observers) /\ Len(observers) \in Nat
      /\ DOMAIN observers = 1..Len(observers)
      /\ heard \in [ConsoleTasks -> Seq(Nat)] /\ ListInv
  <2>1. /\ heard \in [ConsoleTasks -> Seq(Nat)] /\ ListInv /\ ServingInv
        /\ observers \in Seq(ObserverEntry)
    BY DEF ObserversInv, ObserversTypeOK
  <2>2. Len(observers) \in Nat /\ DOMAIN observers = 1..Len(observers)
    BY <2>1
  <2>3. serving # NotServing
    BY <2>2 DEF NotServing
  <2>4. /\ serving.msg \in ObserverMsg /\ serving.msg.type \in {RX, TX}
        /\ serving = [msg |-> serving.msg, i |-> serving.i]
    BY <2>1, <2>3 DEF ServingInv
  <2>5. serving.msg.ch \in Nat
    BY <2>4 DEF ObserverMsg
  <2>6. QED
    BY <2>1, <2>2, <2>4, <2>5
<1>2. serving'.msg = serving.msg /\ serving'.i = serving.i + 1
  BY <1>1
<1>3. heard' \in [ConsoleTasks -> Seq(Nat)]
  <2>1. Append(heard[u], serving.msg.ch) \in Seq(Nat)
    BY <1>1, AppendFacts
  <2>2. QED
    BY <1>1, <2>1
<1>4. ObserversTypeOK'
  BY <1>3 DEF ObserversInv, ObserversTypeOK
<1>5. ServingInv'
  <2>1. serving' = [msg |-> serving'.msg, i |-> serving'.i]
    BY <1>1
  <2>2. serving.i + 1 \in 1..(Len(observers) + 1)
    BY <1>1
  <2>3. QED
    BY <1>1, <1>2, <2>1, <2>2 DEF ServingInv
<1>6. ListInv' /\ \A t \in ConsoleTasks : MaskInv(t)'
  BY DEF ObserversInv, ListInv, MaskInv, Registered
<1>7. ASSUME NEW t \in ConsoleTasks PROVE HeardInv(t)'
  <2>1. HeardInv(t)
    BY DEF ObserversInv
  <2>2. CASE t = u
    <3>1. ~Owed(t)'
      BY <1>1, <1>2, <2>2 DEF Owed, Registered, ListInv
    <3>2. Owed(t) <=> serving.msg.type \in observers[serving.i].mask
      BY <1>1, <2>2 DEF Owed, Registered, ListInv
    <3>3. QED
      BY <1>1, <2>1, <2>2, <3>1, <3>2 DEF HeardInv
  <2>3. CASE t # u
    <3>1. Owed(t)' <=> Owed(t)
      BY <1>1, <1>2, <2>3 DEF Owed, Registered
    <3>2. heard'[t] = heard[t]
      BY <1>1, <2>3
    <3>3. QED
      BY <1>2, <2>1, <3>1, <3>2 DEF HeardInv
  <2>4. QED
    BY <2>2, <2>3
<1>8. QED
  BY <1>4, <1>5, <1>6, <1>7 DEF ObserversInv

LEMMA ToldKeepsIt ==
  ASSUME ObserversInv, Told
  PROVE  ObserversInv'
<1>1. /\ serving.i > Len(observers) /\ serving' = NotServing /\ Len(observers) \in Nat
      /\ DOMAIN observers = 1..Len(observers)
      /\ UNCHANGED <<observers, uart1Inbox, heard, due, consoleCount>>
  BY DEF Told, ObserversInv, ObserversTypeOK
<1>2. serving.i \in Nat
  BY <1>1 DEF ObserversInv, ServingInv, NotServing
<1>3. ObserversTypeOK' /\ ServingInv' /\ ListInv' /\ \A t \in ConsoleTasks : MaskInv(t)'
  BY <1>1 DEF ObserversInv, ObserversTypeOK, ServingInv, ListInv, MaskInv, Registered
<1>4. ASSUME NEW t \in ConsoleTasks PROVE HeardInv(t)'
  <2>1. ~Owed(t)
    BY <1>1, <1>2 DEF Owed
  <2>2. ~Owed(t)'
    BY <1>1 DEF Owed, NotServing
  <2>3. QED
    BY <1>1, <2>1, <2>2 DEF ObserversInv, HeardInv
<1>5. QED
  BY <1>3, <1>4 DEF ObserversInv

LEMMA ObserversStep == ObserversInv /\ [ObserversNext]_observerVars => ObserversInv'
<1> SUFFICES ASSUME ObserversInv, [ObserversNext]_observerVars PROVE ObserversInv'
  OBVIOUS
<1>1. CASE PassesOver
  <2>1. observers[serving.i].tid \in ConsoleTasks
    <3>1. observers \in Seq(ObserverEntry) /\ serving.i \in DOMAIN observers
      BY <1>1 DEF PassesOver, ObserversInv, ObserversTypeOK
    <3>2. observers[serving.i] \in ObserverEntry
      BY <3>1
    <3>3. QED
      BY <3>2 DEF ObserverEntry
  <2>2. QED
    BY <1>1, <2>1, TellsNext DEF PassesOver
<1>2. ASSUME NEW t \in ConsoleTasks, IsTold(t) PROVE ObserversInv'
  BY <1>2, TellsNext DEF IsTold
<1>3. CASE UNCHANGED observerVars
  BY <1>3, ObserversStay DEF observerVars, ObserversInv, ObserversTypeOK
<1>4. QED
  BY <1>1, <1>2, <1>3, ConsoleAsksKeepIt, Uart1ReceivesKeepsIt, ToldKeepsIt DEF ObserversNext

\* The list of the console server and what its observers have heard agree:
\* those it has not reached yet are owed the character it is telling.
THEOREM ObserversInvariant == ObserversSpec => []ObserversInv
<1>1. QED
  BY ObserversStart, ObserversStep, PTL DEF ObserversSpec

\* However observers come, change what they listen to and go, each has been
\* told all that was read or written while it was registered, once and in
\* order, but for the character the server is telling.
THEOREM ObserversHear == ObserversSpec => []ObserversHearAll
<1>1. ASSUME ObserversInv PROVE ObserversHearAll
  <2> SUFFICES ASSUME NEW t \in ConsoleTasks, Owed(t)
               PROVE  serving.msg.type \in due[t].mask /\ Append(heard[t], serving.msg.ch) = due[t].all
    BY <1>1 DEF ObserversInv, HeardInv, ObserversHearAll
  <2>1. QED
    BY <1>1 DEF ObserversInv, HeardInv, MaskInv, Owed
<1>2. QED
  BY <1>1, ObserversInvariant, PTL

-----------------------------------------------------------------------------
(* The page frames.  What the search for a run finds: the first free run of *)
(* n frames from start on, by its equation and the greatest start at which  *)
(* it could differ.                                                         *)

FreeAt(k, n) == k + n <= PMM_POOL_PAGES /\ Used(k, n) = {}
RunsFrom(start, n) == {k \in Nat : start <= k /\ FreeAt(k, n)}
FirstRun(n) == [start \in 0..PMM_POOL_PAGES |->
                  IF RunsFrom(start, n) = {} THEN MMAP_FAILED ELSE Min(RunsFrom(start, n))]

\* One step of the search.
Searched(g, n) == [start \in 0..PMM_POOL_PAGES |->
                     IF start + n > PMM_POOL_PAGES THEN MMAP_FAILED
                     ELSE IF Used(start, n) = {} THEN start
                     ELSE g[Min(Used(start, n)) + 1]]

LEMMA UsedFacts ==
  ASSUME NEW n \in Nat \ {0}, NEW start \in 0..PMM_POOL_PAGES, pmm_bitmap \subseteq Frames,
         start + n <= PMM_POOL_PAGES, Used(start, n) # {}
  PROVE  /\ Min(Used(start, n)) + 1 \in 0..PMM_POOL_PAGES /\ Min(Used(start, n)) + 1 > start
         /\ RunsFrom(start, n) = RunsFrom(Min(Used(start, n)) + 1, n)
<1>1. Used(start, n) \in SUBSET Nat
  <2>1. pmm_bitmap \subseteq Nat
    BY MemoryAssumption DEF Frames
  <2>2. QED
    BY <2>1 DEF Used
<1>2. PICK u \in Nat : u = Min(Used(start, n)) /\ u \in Used(start, n)
  BY <1>1, MinIsIn
<1>3. start <= u /\ u < start + n /\ u \in pmm_bitmap
  BY <1>2 DEF Used, Run
<1>4. u + 1 \in 0..PMM_POOL_PAGES /\ u + 1 > start
  BY <1>3, MemoryAssumption
<1>5. ASSUME NEW k \in RunsFrom(start, n) PROVE k \in RunsFrom(u + 1, n)
  <2>1. k \in Nat /\ start <= k /\ k + n <= PMM_POOL_PAGES /\ Used(k, n) = {}
    BY <1>5 DEF RunsFrom, FreeAt
  <2>2. ~(k <= u)
    <3>1. SUFFICES ASSUME k <= u PROVE FALSE
      OBVIOUS
    <3>2. u \in k..k + n - 1
      BY <1>3, <2>1, <3>1
    <3>3. u \in Used(k, n)
      BY <1>3, <3>2 DEF Used, Run
    <3>4. QED
      BY <2>1, <3>3
  <2>3. u + 1 <= k
    BY <2>1, <2>2
  <2>4. QED
    BY <2>1, <2>3 DEF RunsFrom, FreeAt
<1>6. ASSUME NEW k \in RunsFrom(u + 1, n) PROVE k \in RunsFrom(start, n)
  <2>1. k \in Nat /\ u + 1 <= k
    BY <1>6 DEF RunsFrom
  <2>2. start <= k
    BY <1>3, <2>1
  <2>3. QED
    BY <1>6, <2>1, <2>2 DEF RunsFrom
<1>7. QED
  BY <1>2, <1>4, <1>5, <1>6

LEMMA FirstRunIsSearched ==
  ASSUME NEW n \in Nat \ {0}, pmm_bitmap \subseteq Frames
  PROVE  FirstRun(n) = Searched(FirstRun(n), n)
<1> SUFFICES ASSUME NEW start \in 0..PMM_POOL_PAGES
             PROVE  FirstRun(n)[start] = Searched(FirstRun(n), n)[start]
  BY DEF FirstRun, Searched
<1>1. CASE start + n > PMM_POOL_PAGES
  <2>1. \A k \in Nat : start <= k => ~(k + n <= PMM_POOL_PAGES)
    BY <1>1, MemoryAssumption
  <2>2. RunsFrom(start, n) = {}
    BY <2>1 DEF RunsFrom, FreeAt
  <2>3. QED
    BY <1>1, <2>2 DEF FirstRun, Searched
<1>2. CASE start + n <= PMM_POOL_PAGES /\ Used(start, n) = {}
  <2>1. start \in RunsFrom(start, n) /\ RunsFrom(start, n) \in SUBSET Nat
    BY <1>2 DEF RunsFrom, FreeAt
  <2>2. PICK r \in Nat : r = Min(RunsFrom(start, n)) /\ r \in RunsFrom(start, n) /\ r <= start
    BY <2>1, MinIsIn
  <2>3. start <= r
    BY <2>2 DEF RunsFrom
  <2>4. r = start
    BY <2>2, <2>3
  <2>5. ~(start + n > PMM_POOL_PAGES)
    BY <1>2, MemoryAssumption
  <2>6. QED
    BY <1>2, <2>1, <2>2, <2>4, <2>5 DEF FirstRun, Searched
<1>3. CASE start + n <= PMM_POOL_PAGES /\ Used(start, n) # {}
  <2>1. PICK next \in 0..PMM_POOL_PAGES : /\ next = Min(Used(start, n)) + 1
                                          /\ RunsFrom(start, n) = RunsFrom(next, n)
    BY <1>3, UsedFacts
  <2>2. ~(start + n > PMM_POOL_PAGES)
    BY <1>3, MemoryAssumption
  <2>3. Searched(FirstRun(n), n)[start] = FirstRun(n)[next]
    BY <1>3, <2>1, <2>2 DEF Searched
  <2>4. FirstRun(n)[start] = FirstRun(n)[next]
    BY <2>1 DEF FirstRun
  <2>5. QED
    BY <2>3, <2>4
<1>4. QED
  BY <1>1, <1>2, <1>3, MemoryAssumption

LEMMA ScanFindsFirstRun ==
  ASSUME NEW n \in Nat \ {0}, pmm_bitmap \subseteq Frames
  PROVE  ScanFrom(n) = FirstRun(n)
<1>1. ScanFrom(n) = CHOOSE g : g = Searched(g, n)
  BY DEF ScanFrom, Searched
<1>2. \E g : g = Searched(g, n)
  BY FirstRunIsSearched
<1>3. PICK f : f = ScanFrom(n)
  OBVIOUS
<1>4. f = Searched(f, n)
  BY <1>1, <1>2, <1>3
<1>5. PICK g : g = FirstRun(n) /\ g = Searched(g, n)
  BY FirstRunIsSearched
<1> DEFINE C == {start \in 0..PMM_POOL_PAGES : f[start] # g[start]}
<1>6. C = {}
  <2> SUFFICES ASSUME C # {} PROVE FALSE
    OBVIOUS
  <2>1. PICK c \in C : \A y \in C : y <= c
    BY GreatestBelow, MemoryAssumption
  <2>2. c \in 0..PMM_POOL_PAGES /\ f[c] # g[c]
    OBVIOUS
  <2>3. c + n <= PMM_POOL_PAGES /\ Used(c, n) # {}
    <3>1. ~(c + n > PMM_POOL_PAGES) /\ Used(c, n) # {}
      BY <1>4, <1>5, <2>2 DEF Searched
    <3>2. QED
      BY <2>2, <3>1, MemoryAssumption
  <2>4. PICK next \in 0..PMM_POOL_PAGES : next = Min(Used(c, n)) + 1 /\ next > c
    BY <2>2, <2>3, UsedFacts
  <2>5. ~(c + n > PMM_POOL_PAGES)
    BY <2>2, <2>3, MemoryAssumption
  <2>6. f[c] = f[next] /\ g[c] = g[next]
    BY <1>4, <1>5, <2>2, <2>3, <2>4, <2>5 DEF Searched
  <2>7. next \in C
    BY <2>2, <2>4, <2>6
  <2>8. QED
    BY <2>1, <2>2, <2>4, <2>7
<1>7. \A start \in 0..PMM_POOL_PAGES : f[start] = g[start]
  BY <1>6
<1>8. f = [start \in 0..PMM_POOL_PAGES |-> f[start]] /\ g = [start \in 0..PMM_POOL_PAGES |-> g[start]]
  BY <1>4, <1>5 DEF Searched
<1>9. f = g
  BY <1>7, <1>8
<1>10. QED
  BY <1>3, <1>5, <1>9

\* An allocation gives the first frame of a run that is free, and fails only
\* if there is none.
LEMMA PageRunFacts ==
  ASSUME NEW n \in Nat, pmm_bitmap \subseteq Frames
  PROVE  \/ /\ pmm_alloc_pages(n) = MMAP_FAILED
            /\ n # 0 => \A k \in Nat : ~FreeAt(k, n)
         \/ /\ pmm_alloc_pages(n) \in Nat /\ pmm_alloc_pages(n) # MMAP_FAILED
            /\ n # 0 /\ FreeAt(pmm_alloc_pages(n), n)
<1>1. CASE n = 0
  BY <1>1 DEF pmm_alloc_pages
<1>2. CASE n # 0
  <2>1. pmm_alloc_pages(n) = IF RunsFrom(0, n) = {} THEN MMAP_FAILED ELSE Min(RunsFrom(0, n))
    <3>1. ScanFrom(n) = FirstRun(n)
      BY <1>2, ScanFindsFirstRun
    <3>2. 0 \in 0..PMM_POOL_PAGES
      BY MemoryAssumption
    <3>3. QED
      BY <1>2, <3>1, <3>2 DEF pmm_alloc_pages, FirstRun
  <2>2. \A k : k \in RunsFrom(0, n) <=> k \in Nat /\ FreeAt(k, n)
    BY DEF RunsFrom
  <2>3. CASE RunsFrom(0, n) = {}
    BY <2>1, <2>2, <2>3
  <2>4. CASE RunsFrom(0, n) # {}
    <3>1. RunsFrom(0, n) \in SUBSET Nat
      BY DEF RunsFrom
    <3>2. Min(RunsFrom(0, n)) \in RunsFrom(0, n)
      BY <2>4, <3>1, MinIsIn
    <3>3. \A k \in Nat : k # MMAP_FAILED
      BY DEF MMAP_FAILED
    <3>4. QED
      BY <1>2, <2>1, <2>2, <2>4, <3>2, <3>3
  <2>5. QED
    BY <2>3, <2>4
<1>3. QED
  BY <1>1, <1>2

-----------------------------------------------------------------------------
\* The pages of a length are the frames it reaches into.
LEMMA PagesReached ==
  ASSUME NEW length \in Nat \ {0}
  PROVE  /\ pages_for(length) \in Nat \ {0}
         /\ \A f, b \in Nat : f * PAGE_SIZE < b * PAGE_SIZE + length <=> f < b + pages_for(length)
<1>1. PICK P \in Nat \ {0} : P = PAGE_SIZE
  BY MemoryAssumption
<1>2. PICK n \in Int : n = (length + P - 1) \div P
  BY <1>1
<1>3. n * P < length + P /\ length <= n * P
  BY <1>1, <1>2
<1>4. n > 0
  <2>1. SUFFICES ASSUME n <= 0 PROVE FALSE
    BY <1>2
  <2>2. n * P <= 0
    BY <1>1, <1>2, <2>1
  <2>3. QED
    BY <1>1, <1>2, <1>3, <2>2
<1>5. \A x, y \in Int : x <= y => x * P <= y * P
  BY <1>1
<1>6. ASSUME NEW f \in Nat, NEW b \in Nat
      PROVE  f * P < b * P + length <=> f < b + n
  <2>1. CASE f < b + n
    <3>1. f + 1 <= b + n
      BY <1>2, <2>1
    <3>2. (f + 1) * P <= (b + n) * P
      BY <1>2, <1>5, <3>1
    <3>3. (f + 1) * P = f * P + P /\ (b + n) * P = b * P + n * P
      BY <1>1, <1>2
    <3>4. PICK fp \in Int, bp \in Int, np \in Int : fp = f * P /\ bp = b * P /\ np = n * P
      BY <1>1, <1>2
    <3>5. QED
      BY <1>1, <1>3, <2>1, <3>2, <3>3, <3>4
  <2>2. CASE b + n <= f
    <3>1. (b + n) * P <= f * P
      BY <1>2, <1>5, <2>2
    <3>2. (b + n) * P = b * P + n * P
      BY <1>1, <1>2
    <3>3. PICK fp \in Int, bp \in Int, np \in Int : fp = f * P /\ bp = b * P /\ np = n * P
      BY <1>1, <1>2
    <3>4. QED
      BY <1>1, <1>2, <1>3, <2>2, <3>1, <3>2, <3>3
  <2>3. QED
    BY <1>2, <2>1, <2>2
<1>7. QED
  BY <1>1, <1>2, <1>4, <1>6 DEF pages_for

-----------------------------------------------------------------------------
\* A mapping holds the run of frames that its pages take.
Held(m) == Run(m.base, pages_for(m.length))
HeldBy(S) == UNION {Held(m) : m \in S}
Mappings == [base : Nat, length : Nat \ {0}]

MemTypeOK ==
  /\ pmm_bitmap \subseteq Frames
  /\ mappings \subseteq Mappings
  /\ brk.base \in Nat \cup {-1}

MemInv ==
  /\ MemTypeOK
  /\ \A m \in mappings : Held(m) \subseteq Frames
  /\ \A m1, m2 \in mappings : m1 # m2 => Held(m1) \cap Held(m2) = {}
  /\ \A m \in mappings : Held(m) \cap BrkFrames = {}
  /\ pmm_bitmap = HeldBy(mappings) \cup BrkFrames
  /\ pmm_used = Cardinality(pmm_bitmap)

LEMMA TouchedIsHeld ==
  ASSUME NEW m \in Mappings, Held(m) \subseteq Frames
  PROVE  Touched(m) = Held(m)
<1>1. PICK b \in Nat, l \in Nat \ {0} : b = m.base /\ l = m.length
  BY DEF Mappings
<1>2. PICK n \in Nat \ {0} : n = pages_for(l)
  BY PagesReached
<1>3. \A f \in Nat : f * PAGE_SIZE < b * PAGE_SIZE + l <=> f < b + n
  BY <1>2, PagesReached
<1>4. Held(m) = b..b + n - 1
  BY <1>1, <1>2 DEF Held, Run
<1>5. \A f \in Frames : f \in Nat
  BY MemoryAssumption DEF Frames
<1>6. Touched(m) = {f \in Frames : f * PAGE_SIZE < b * PAGE_SIZE + l /\ f >= b}
  BY <1>1 DEF Touched
<1>7. Touched(m) = {f \in Frames : f < b + n /\ f >= b}
  BY <1>3, <1>5, <1>6
<1>8. \A f \in Nat : f \in b..b + n - 1 <=> f < b + n /\ f >= b
  BY <1>2
<1>9. \A f : f \in Touched(m) <=> f \in Frames /\ f \in Held(m)
  BY <1>4, <1>5, <1>7, <1>8
<1>10. QED
  BY <1>9

\* A run that is free is taken.
LEMMA RunIsTaken ==
  ASSUME NEW n \in Nat, NEW start \in Nat, pmm_bitmap \subseteq Frames, FreeAt(start, n),
         pmm_used = Cardinality(pmm_bitmap), Takes(start, n)
  PROVE  /\ Run(start, n) \subseteq Frames /\ Run(start, n) \cap pmm_bitmap = {}
         /\ pmm_bitmap' = pmm_bitmap \cup Run(start, n) /\ pmm_bitmap' \subseteq Frames
         /\ pmm_used' = Cardinality(pmm_bitmap')
<1>1. Run(start, n) \subseteq Frames
  BY MemoryAssumption DEF FreeAt, Run, Frames
<1>2. Run(start, n) \cap pmm_bitmap = {}
  BY DEF FreeAt, Used
<1>3. pmm_bitmap' = pmm_bitmap \cup Run(start, n)
  BY DEF Takes
<1>4. IsFiniteSet(Frames) 
  BY FS_Interval, MemoryAssumption DEF Frames
<1>5. IsFiniteSet(pmm_bitmap) /\ IsFiniteSet(Run(start, n)) /\ Cardinality(pmm_bitmap) \in Nat
  BY <1>1, <1>4, FS_Subset, FS_CardinalityType
<1>6. Cardinality(Run(start, n)) = n
  <2>1. start + n - 1 \in Int /\ start \in Int
    OBVIOUS
  <2>2. Cardinality(start..start + n - 1) = IF start > start + n - 1 THEN 0 ELSE start + n - 1 - start + 1
    BY <2>1, FS_Interval
  <2>3. QED
    BY <2>2 DEF Run
<1>7. Cardinality(pmm_bitmap \cup Run(start, n))
        = Cardinality(pmm_bitmap) + Cardinality(Run(start, n)) - Cardinality(pmm_bitmap \cap Run(start, n))
  BY <1>5, FS_Union
<1>8. Cardinality(pmm_bitmap \cap Run(start, n)) = 0
  BY <1>2, FS_EmptySet
<1>9. pmm_used' = Cardinality(pmm_bitmap')
  BY <1>3, <1>5, <1>6, <1>7, <1>8 DEF Takes
<1>10. QED
  BY <1>1, <1>2, <1>3, <1>9

LEMMA InUse == ASSUME NEW S PROVE \A f : f \in HeldBy(S) <=> \E o \in S : f \in Held(o)
  BY DEF HeldBy

LEMMA MemInitInv == MemInit => MemInv
<1> SUFFICES ASSUME MemInit PROVE MemInv
  OBVIOUS
<1>1. pmm_bitmap = {} /\ mappings = {} /\ brk.base = -1 /\ pmm_used = 0
  BY DEF MemInit
<1>2. BrkFrames = {}
  BY <1>1 DEF BrkFrames
<1>3. HeldBy(mappings) = {}
  BY <1>1, InUse
<1>4. Cardinality(pmm_bitmap) = 0
  BY <1>1, FS_EmptySet
<1>5. QED
  BY <1>1, <1>2, <1>3, <1>4 DEF MemInv, MemTypeOK

LEMMA MapsARun ==
  ASSUME NEW length \in Lengths, MemInv, kmmap(length)
  PROVE  MemInv'
<1>1. length \in Nat \ {0}
  BY MemoryAssumption DEF kmmap
<1>2. PICK n \in Nat \ {0} : n = pages_for(length)
  BY <1>1, PagesReached
<1>3. PICK start : /\ start = pmm_alloc_pages(n) /\ start # MMAP_FAILED /\ Takes(start, n)
                   /\ mappings' = mappings \cup {[base |-> start, length |-> length]}
                   /\ brk' = brk
  BY <1>2 DEF kmmap
<1>4. pmm_bitmap \subseteq Frames /\ mappings \subseteq Mappings /\ pmm_used = Cardinality(pmm_bitmap)
  BY DEF MemInv, MemTypeOK
<1>5. start \in Nat /\ FreeAt(start, n)
  <2>1. n \in Nat
    BY <1>2
  <2>2. QED
    BY <1>3, <1>4, <2>1, PageRunFacts
<1>6. /\ Run(start, n) \subseteq Frames /\ Run(start, n) \cap pmm_bitmap = {}
      /\ pmm_bitmap' = pmm_bitmap \cup Run(start, n) /\ pmm_bitmap' \subseteq Frames
      /\ pmm_used' = Cardinality(pmm_bitmap')
  BY <1>2, <1>3, <1>4, <1>5, RunIsTaken
<1> DEFINE mine == [base |-> start, length |-> length]
<1>7. mine \in Mappings /\ Held(mine) = Run(start, n)
  BY <1>1, <1>2, <1>5 DEF Held, Mappings
<1>8. BrkFrames' = BrkFrames
  BY <1>3 DEF BrkFrames
<1>9. \A m : m \in mappings' <=> m \in mappings \/ m = mine
  BY <1>3
<1>10. (\A m \in mappings : Held(m) \subseteq pmm_bitmap) /\ BrkFrames \subseteq pmm_bitmap
  BY InUse DEF MemInv
<1> HIDE DEF mine
<1>11. MemTypeOK'
  BY <1>3, <1>4, <1>6, <1>7, <1>9 DEF MemInv, MemTypeOK
<1>12. \A m \in mappings' : Held(m) \subseteq Frames
  BY <1>6, <1>7, <1>9 DEF MemInv
<1>13. \A m \in mappings : Held(m) \cap Held(mine) = {}
  BY <1>6, <1>7, <1>10
<1>14. \A m1, m2 \in mappings' : m1 # m2 => Held(m1) \cap Held(m2) = {}
  BY <1>9, <1>13 DEF MemInv
<1>15. \A m \in mappings' : Held(m) \cap BrkFrames' = {}
  BY <1>6, <1>7, <1>8, <1>9, <1>10 DEF MemInv
<1>16. pmm_bitmap' = HeldBy(mappings') \cup BrkFrames'
  <2>1. pmm_bitmap = HeldBy(mappings) \cup BrkFrames
    BY DEF MemInv
  <2>2. HeldBy(mappings') = HeldBy(mappings) \cup Held(mine)
    BY <1>9, InUse
  <2>3. QED
    BY <1>6, <1>7, <1>8, <2>1, <2>2
<1>17. \A m : Held(m)' = Held(m)
  BY DEF Held, Run, pages_for
<1>18. QED
  BY <1>6, <1>11, <1>12, <1>14, <1>15, <1>16 DEF MemInv, HeldBy, Held, Run, pages_for

LEMMA GivesItsRunBack ==
  ASSUME NEW m \in mappings, MemInv, kmunmap(m)
  PROVE  MemInv'
<1>1. mappings' = mappings \ {m} /\ brk' = brk /\ m \in Mappings
  BY DEF kmunmap, MemInv, MemTypeOK
<1>2. BrkFrames' = BrkFrames
  BY <1>1 DEF BrkFrames
<1>3. pmm_bitmap = HeldBy(mappings) \cup BrkFrames
  BY DEF MemInv
<1>4. Held(m) \subseteq pmm_bitmap /\ Used(m.base, pages_for(m.length)) = Held(m)
  <2>1. Held(m) \subseteq pmm_bitmap
    BY <1>3, InUse
  <2>2. QED
    BY <2>1 DEF Used, Held
<1>5. pmm_bitmap' = pmm_bitmap \ Held(m) /\ pmm_used' = pmm_used - Cardinality(Held(m))
  BY <1>4 DEF kmunmap, pmm_free_pages
<1>6. /\ \A o \in mappings' : Held(o) \cap Held(m) = {}
      /\ BrkFrames \cap Held(m) = {}
  BY <1>1 DEF MemInv
<1>7. pmm_bitmap' = HeldBy(mappings') \cup BrkFrames'
  <2>1. HeldBy(mappings) = HeldBy(mappings') \cup Held(m)
    BY <1>1, InUse
  <2>2. HeldBy(mappings') \cap Held(m) = {}
    BY <1>6, InUse
  <2>3. QED
    BY <1>2, <1>3, <1>5, <1>6, <2>1, <2>2
<1>8. pmm_used' = Cardinality(pmm_bitmap')
  <2>1. pmm_bitmap \subseteq Frames /\ pmm_used = Cardinality(pmm_bitmap)
    BY DEF MemInv, MemTypeOK
  <2>2. IsFiniteSet(pmm_bitmap)
    <3>1. IsFiniteSet(0..PMM_POOL_PAGES - 1)
      BY FS_Interval, MemoryAssumption
    <3>2. QED
      BY <2>1, <3>1, FS_Subset DEF Frames
  <2>3. pmm_bitmap' \subseteq pmm_bitmap /\ Held(m) \subseteq pmm_bitmap
    BY <1>4, <1>5
  <2>4. pmm_bitmap' \cup Held(m) = pmm_bitmap /\ pmm_bitmap' \cap Held(m) = {}
    BY <1>5, <2>3
  <2>5. IsFiniteSet(pmm_bitmap') /\ IsFiniteSet(Held(m))
    BY <2>2, <2>3, FS_Subset
  <2>6. Cardinality(pmm_bitmap) = Cardinality(pmm_bitmap') + Cardinality(Held(m)) - 0
    BY <2>4, <2>5, FS_Union, FS_EmptySet
  <2>7. /\ Cardinality(pmm_bitmap) \in Nat /\ Cardinality(pmm_bitmap') \in Nat
        /\ Cardinality(Held(m)) \in Nat
    BY <2>2, <2>5, FS_CardinalityType
  <2>8. QED
    BY <1>5, <2>1, <2>6, <2>7
<1>9. MemTypeOK'
  BY <1>1, <1>5 DEF MemInv, MemTypeOK
<1>10. /\ \A o \in mappings' : Held(o) \subseteq Frames
       /\ \A m1, m2 \in mappings' : m1 # m2 => Held(m1) \cap Held(m2) = {}
       /\ \A o \in mappings' : Held(o) \cap BrkFrames' = {}
  BY <1>1, <1>2 DEF MemInv
<1>11. QED
  BY <1>7, <1>8, <1>9, <1>10 DEF MemInv, HeldBy, Held, Run, pages_for

LEMMA MovesTheBreak ==
  ASSUME NEW increment, MemInv, ksbrk(increment)
  PROVE  MemInv'
<1>1. mappings' = mappings
  BY DEF ksbrk
<1>2. CASE ~(brk.base < 0)
  <2>1. brk'.base = brk.base /\ pmm_bitmap' = pmm_bitmap /\ pmm_used' = pmm_used
    BY <1>2 DEF ksbrk
  <2>2. BrkFrames' = BrkFrames
    BY <2>1 DEF BrkFrames
  <2>3. QED
    BY <1>1, <2>1, <2>2 DEF MemInv, MemTypeOK, HeldBy, Held, Run, pages_for
<1>3. CASE brk.base < 0
  <2>1. PICK n \in Nat : n = BRK_REGION_PAGES
    BY MemoryAssumption
  <2>2. PICK start : start = pmm_alloc_pages(n) /\ start # MMAP_FAILED
                     /\ Takes(start, n) /\ brk'.base = start
    BY <1>3, <2>1 DEF ksbrk
  <2>3. pmm_bitmap \subseteq Frames /\ pmm_used = Cardinality(pmm_bitmap)
    BY DEF MemInv, MemTypeOK
  <2>4. start \in Nat /\ FreeAt(start, n)
    BY <2>1, <2>2, <2>3, PageRunFacts
  <2>5. /\ Run(start, n) \subseteq Frames /\ Run(start, n) \cap pmm_bitmap = {}
        /\ pmm_bitmap' = pmm_bitmap \cup Run(start, n) /\ pmm_bitmap' \subseteq Frames
        /\ pmm_used' = Cardinality(pmm_bitmap')
    BY <2>1, <2>2, <2>3, <2>4, RunIsTaken
  <2>6. BrkFrames = {}
    BY <1>3 DEF BrkFrames
  <2>7. ~(start < 0)
    BY <2>4
  <2>8. BrkFrames' = Run(start, n)
    BY <2>1, <2>2, <2>7 DEF BrkFrames, Run
  <2>9. pmm_bitmap = HeldBy(mappings)
    BY <2>6 DEF MemInv
  <2>10. \A m \in mappings : Held(m) \cap BrkFrames' = {}
    <3>1. \A m \in mappings : Held(m) \subseteq pmm_bitmap
      BY <2>9, InUse
    <3>2. QED
      BY <2>5, <2>8, <3>1
  <2>11. MemTypeOK'
    BY <1>1, <2>2, <2>4, <2>5 DEF MemInv, MemTypeOK
  <2>12. pmm_bitmap' = HeldBy(mappings) \cup BrkFrames'
    BY <2>5, <2>8, <2>9
  <2>13. QED
    BY <1>1, <2>5, <2>10, <2>11, <2>12 DEF MemInv, HeldBy, Held, Run, pages_for
<1>4. QED
  BY <1>2, <1>3

LEMMA MemNextInv == MemInv /\ [MemNext]_memVars => MemInv'
<1> SUFFICES ASSUME MemInv, [MemNext]_memVars PROVE MemInv'
  OBVIOUS
<1>1. ASSUME NEW length \in Lengths, kmmap(length) PROVE MemInv'
  BY <1>1, MapsARun
<1>2. ASSUME NEW length \in Lengths, ksbrk(length) \/ ksbrk(-length) PROVE MemInv'
  BY <1>2, MovesTheBreak
<1>3. ASSUME NEW m \in mappings, kmunmap(m) PROVE MemInv'
  BY <1>3, GivesItsRunBack
<1>4. CASE UNCHANGED memVars
  <2>1. BrkFrames' = BrkFrames
    BY <1>4 DEF memVars, BrkFrames
  <2>2. QED
    BY <1>4, <2>1 DEF MemInv, MemTypeOK, memVars, HeldBy, Held, Run, pages_for
<1>5. QED
  BY <1>1, <1>2, <1>3, <1>4 DEF MemNext

LEMMA MemIsAccounted == MemInv => FramesAreAccountedFor
<1> SUFFICES ASSUME MemInv PROVE OneHolderEach /\ FailsOnlyWhenFull
  BY DEF FramesAreAccountedFor
<1>1. \A m \in mappings : Touched(m) = Held(m)
  BY TouchedIsHeld DEF MemInv, MemTypeOK
<1>2. OneHolderEach
  <2>1. TouchedFrames = HeldBy(mappings)
    BY <1>1 DEF HeldBy, TouchedFrames
  <2>2. pmm_bitmap = TouchedFrames \cup BrkFrames
    BY <2>1 DEF MemInv
  <2>3. \A m1, m2 \in mappings : m1 # m2 => Touched(m1) \cap Touched(m2) = {}
    BY <1>1 DEF MemInv
  <2>4. \A m \in mappings : Touched(m) \cap BrkFrames = {}
    BY <1>1 DEF MemInv
  <2>5. pmm_used = Cardinality(pmm_bitmap)
    BY DEF MemInv
  <2>6. QED
    BY <2>2, <2>3, <2>4, <2>5, Zenon DEF OneHolderEach
<1>3. ASSUME NEW n \in 1..PMM_POOL_PAGES, pmm_alloc_pages(n) = MMAP_FAILED,
             NEW start \in 0..PMM_POOL_PAGES - n
      PROVE  Run(start, n) \cap pmm_bitmap # {}
  <2>1. n \in Nat /\ n # 0 /\ start \in Nat /\ start + n <= PMM_POOL_PAGES
    BY MemoryAssumption
  <2>2. pmm_bitmap \subseteq Frames
    BY DEF MemInv, MemTypeOK
  <2>3. ~FreeAt(start, n)
    BY <1>3, <2>1, <2>2, PageRunFacts
  <2>4. QED
    BY <2>1, <2>3 DEF FreeAt, Used
<1>4. FailsOnlyWhenFull
  BY <1>3 DEF FailsOnlyWhenFull
<1>5. QED
  BY <1>2, <1>4

\* Every frame in use has one holder, the counter tells how many are in use,
\* and an allocation fails only if no run of free frames is long enough,
\* whatever the sizes of the pool and of a page, and the lengths asked for.
THEOREM FramesAccounted == MemSpec => []FramesAreAccountedFor
<1>1. MemSpec => []MemInv
  BY MemInitInv, MemNextInv, PTL DEF MemSpec
<1>2. QED
  BY <1>1, MemIsAccounted, PTL

-----------------------------------------------------------------------------
(* The array heap of the scheduler. *)

NotAfter(a, b) == a.priority < b.priority \/ (a.priority = b.priority /\ a.time <= b.time)

Timed(h, n) == \A k \in 0..n - 1 : h[k].time \in Nat
AllOnce(h, n) == \A k, l \in 0..n - 1 : h[k].pid = h[l].pid => k = l
HeapOrder(h, n) == \A k \in 1..n - 1 : NotAfter(h[Parent(k)], h[k])
SameEntries(g, h, n) ==
  /\ \A k \in 0..n - 1 : \E l \in 0..n - 1 : g[k] = h[l]
  /\ \A k \in 0..n - 1 : \E l \in 0..n - 1 : h[k] = g[l]

\* In order but for the entry in slot i, which may go before its parent, or
\* after its children.
UpFrom(h, i, n) ==
  \A k \in 1..n - 1 : /\ k # i => NotAfter(h[Parent(k)], h[k])
                      /\ Parent(k) = i /\ i # 0 => NotAfter(h[Parent(i)], h[k])
DownFrom(h, i, n) ==
  \A k \in 1..n - 1 : /\ Parent(k) # i => NotAfter(h[Parent(k)], h[k])
                      /\ Parent(k) = i /\ i # 0 => NotAfter(h[Parent(i)], h[k])

LEMMA PrioritiesCompare == ASSUME NEW e \in Entry PROVE e.priority \in Int /\ e.time \in Int
<1>1. e.priority \in Priorities \cup {255} /\ e.time \in Int
  BY DEF Entry
<1>2. Priorities \cup {255} \subseteq Int
  BY HeapAssumption
<1>3. QED
  BY <1>1, <1>2

LEMMA Compared ==
  ASSUME NEW a \in Entry, NEW b \in Entry, a.time \in Nat, b.time \in Nat
  PROVE  compare_state(a, b) = 1 <=> ~NotAfter(b, a)
<1>1. PICK ap \in Int, bp \in Int : ap = a.priority /\ bp = b.priority
  BY PrioritiesCompare
<1>2. PICK at \in Nat, bt \in Nat : at = a.time /\ bt = b.time
  OBVIOUS
<1>3. at # NoTime /\ bt # NoTime
  BY DEF NoTime
<1>4. compare_state(a, b) = 1 <=> ap < bp \/ (ap = bp /\ at < bt)
  BY <1>1, <1>2, <1>3 DEF compare_state
<1>5. NotAfter(b, a) <=> bp < ap \/ (bp = ap /\ bt <= at)
  BY <1>1, <1>2 DEF NotAfter
<1>6. QED
  BY <1>4, <1>5

LEMMA NeverBeforeItself == ASSUME NEW a \in Entry PROVE compare_state(a, a) # 1
  BY PrioritiesCompare DEF compare_state

LEMMA NotAfterIsAnOrder ==
  ASSUME NEW a \in Entry, NEW b \in Entry, NEW c \in Entry
  PROVE  /\ NotAfter(a, b) \/ NotAfter(b, a)
         /\ NotAfter(a, b) /\ NotAfter(b, c) => NotAfter(a, c)
<1>1. PICK ap \in Int, bp \in Int, cp \in Int : ap = a.priority /\ bp = b.priority /\ cp = c.priority
  BY PrioritiesCompare
<1>2. PICK at \in Int, bt \in Int, ct \in Int : at = a.time /\ bt = b.time /\ ct = c.time
  BY PrioritiesCompare
<1>3. QED
  BY <1>1, <1>2 DEF NotAfter

LEMMA SlotsFacts == Capacity \in Nat \ {0} /\ Slots = 0..Capacity - 1 /\ Slots \subseteq Nat
<1>1. Capacity \in Nat \ {0}
  BY HeapAssumption, FS_CardinalityType DEF Capacity
<1>2. QED
  BY <1>1 DEF Slots

LEMMA ParentFacts ==
  /\ \A k \in Nat : k # 0 => Parent(k) \in 0..k - 1
  /\ Parent(0) = 0
  /\ \A k, i \in Nat : k # 0 => (Parent(k) = i <=> k = 2 * i + 1 \/ k = 2 * i + 2)
<1>1. \A k \in Nat : k # 0 => (k - 1) \div 2 \in 0..k - 1
  OBVIOUS
<1>2. \A k, i \in Nat : k # 0 => ((k - 1) \div 2 = i <=> k = 2 * i + 1 \/ k = 2 * i + 2)
  OBVIOUS
<1>3. QED
  BY <1>1, <1>2 DEF Parent

\* A swap moves two entries and loses none.
LEMMA SwapFacts ==
  ASSUME NEW n \in 0..Capacity, NEW h \in Arrays, NEW i \in 0..n - 1, NEW j \in 0..n - 1
  PROVE  LET s == swap_state(h, i, j)
         IN  /\ s \in Arrays /\ s[j] = h[i] /\ s[i] = h[j]
             /\ \A k \in Slots : k # i /\ k # j => s[k] = h[k]
             /\ SameEntries(s, h, n)
             /\ Timed(h, n) => Timed(s, n)
             /\ AllOnce(h, n) => AllOnce(s, n)
<1> DEFINE s == swap_state(h, i, j)
<1>1. 0..n - 1 \subseteq Slots /\ i \in Slots /\ j \in Slots
  BY SlotsFacts
<1>2. s \in Arrays /\ s[j] = h[i] /\ s[i] = h[j] /\ \A k \in Slots : k # i /\ k # j => s[k] = h[k]
  BY <1>1 DEF swap_state, Arrays
<1> HIDE DEF s
<1>3. SameEntries(s, h, n)
  <2>1. ASSUME NEW k \in 0..n - 1 PROVE (\E l \in 0..n - 1 : s[k] = h[l]) /\ (\E l \in 0..n - 1 : h[k] = s[l])
    <3>1. CASE k = i
      BY <1>2, <3>1
    <3>2. CASE k = j
      BY <1>2, <3>2
    <3>3. CASE k # i /\ k # j
      BY <1>1, <1>2, <3>3
    <3>4. QED
      BY <3>1, <3>2, <3>3
  <2>2. QED
    BY <2>1 DEF SameEntries
<1>4. Timed(h, n) => Timed(s, n)
  BY <1>3 DEF SameEntries, Timed
<1>5. AllOnce(h, n) => AllOnce(s, n)
  <2>1. SUFFICES ASSUME AllOnce(h, n), NEW k \in 0..n - 1, NEW l \in 0..n - 1, s[k].pid = s[l].pid
                 PROVE  k = l
    BY DEF AllOnce
  <2> DEFINE was(m) == IF m = i THEN j ELSE IF m = j THEN i ELSE m
  <2>2. \A m \in 0..n - 1 : was(m) \in 0..n - 1 /\ s[m] = h[was(m)]
    BY <1>1, <1>2
  <2>3. was(k) = was(l)
    <3> HIDE DEF was
    <3>1. QED
      BY <2>1, <2>2 DEF AllOnce
  <2>4. QED
    BY <2>3
<1>6. QED
  BY <1>2, <1>3, <1>4, <1>5 DEF s

LEMMA EntriesCompare ==
  ASSUME NEW n \in 0..Capacity, NEW h \in Arrays, Timed(h, n)
  PROVE  /\ \A i, j \in 0..n - 1 : compare_state(h[i], h[j]) = 1 <=> ~NotAfter(h[j], h[i])
         /\ \A i, j \in 0..n - 1 : NotAfter(h[i], h[j]) \/ NotAfter(h[j], h[i])
         /\ \A i, j, k \in 0..n - 1 : NotAfter(h[i], h[j]) /\ NotAfter(h[j], h[k]) => NotAfter(h[i], h[k])
<1>1. \A i \in 0..n - 1 : h[i] \in Entry /\ h[i].time \in Nat
  BY SlotsFacts DEF Arrays, Timed
<1>2. \A a, b \in Entry : a.time \in Nat /\ b.time \in Nat => (compare_state(a, b) = 1 <=> ~NotAfter(b, a))
  BY Compared
<1>3. \A a, b, c \in Entry : /\ NotAfter(a, b) \/ NotAfter(b, a)
                             /\ NotAfter(a, b) /\ NotAfter(b, c) => NotAfter(a, c)
  BY NotAfterIsAnOrder
<1>4. QED
  BY <1>1, <1>2, <1>3

-----------------------------------------------------------------------------
(* Sifting an entry up. *)

LEMMA UpEnds ==
  ASSUME NEW n \in 0..Capacity, NEW h \in Arrays, NEW i \in 0..n - 1, Timed(h, n), UpFrom(h, i, n),
         compare_state(h[i], h[Parent(i)]) # 1
  PROVE  HeapOrder(h, n)
<1>1. i # 0 => NotAfter(h[Parent(i)], h[i])
  <2>1. i # 0 => Parent(i) \in 0..n - 1
    BY ParentFacts, SlotsFacts
  <2>2. QED
    BY <2>1, EntriesCompare
<1>2. QED
  BY <1>1 DEF UpFrom, HeapOrder

LEMMA UpGoesOn ==
  ASSUME NEW n \in 0..Capacity, NEW h \in Arrays, NEW i \in 0..n - 1, Timed(h, n), UpFrom(h, i, n),
         compare_state(h[i], h[Parent(i)]) = 1
  PROVE  i # 0 /\ Parent(i) \in 0..n - 1 /\ Parent(i) < i /\ UpFrom(swap_state(h, i, Parent(i)), Parent(i), n)
<1>1. i # 0
  <2>1. h[i] \in Entry
    BY SlotsFacts DEF Arrays
  <2>2. QED
    BY <2>1, NeverBeforeItself, ParentFacts
<1>2. PICK p \in 0..n - 1 : p = Parent(i) /\ p < i
  BY <1>1, ParentFacts, SlotsFacts
<1>3. PICK s : /\ s = swap_state(h, i, p) /\ s[p] = h[i] /\ s[i] = h[p]
               /\ \A k \in 0..n - 1 : k # i /\ k # p => s[k] = h[k]
  BY SwapFacts, SlotsFacts
<1>4. NotAfter(h[i], h[p]) /\ ~NotAfter(h[p], h[i])
  BY <1>2, EntriesCompare
<1>5. \A k \in 1..n - 1 : k \in 0..n - 1 /\ Parent(k) \in 0..n - 1 /\ Parent(k) < k
  BY ParentFacts, SlotsFacts
<1>6. ASSUME NEW k \in 1..n - 1, k # p PROVE NotAfter(s[Parent(k)], s[k])
  <2>1. PICK q \in 0..n - 1 : q = Parent(k) /\ q < k
    BY <1>5
  <2>2. CASE k = i
    BY <1>2, <1>3, <1>4, <2>1, <2>2
  <2>3. CASE k # i /\ q = p
    <3>1. NotAfter(h[p], h[k])
      BY <2>1, <2>3 DEF UpFrom
    <3>2. NotAfter(h[i], h[k])
      BY <1>4, <1>5, <3>1, EntriesCompare
    <3>3. QED
      BY <1>3, <1>5, <1>6, <2>1, <2>3, <3>2
  <2>4. CASE k # i /\ q = i
    <3>1. NotAfter(h[p], h[k])
      BY <1>1, <1>2, <2>1, <2>4 DEF UpFrom
    <3>2. QED
      BY <1>3, <1>5, <1>6, <2>1, <2>4, <3>1
  <2>5. CASE k # i /\ q # i /\ q # p
    BY <1>3, <1>5, <1>6, <2>1, <2>5 DEF UpFrom
  <2>6. QED
    BY <2>2, <2>3, <2>4, <2>5
<1>7. ASSUME NEW k \in 1..n - 1, Parent(k) = p, p # 0 PROVE NotAfter(s[Parent(p)], s[k])
  <2>1. PICK g \in 0..n - 1 : g = Parent(p) /\ g < p
    BY <1>5, <1>7
  <2>2. NotAfter(h[g], h[p])
    BY <1>2, <1>7, <2>1 DEF UpFrom
  <2>3. s[g] = h[g]
    BY <1>2, <1>3, <2>1
  <2>4. CASE k = i
    BY <1>3, <2>1, <2>2, <2>3, <2>4
  <2>5. CASE k # i
    <3>1. NotAfter(h[p], h[k])
      BY <1>7, <2>5 DEF UpFrom
    <3>2. NotAfter(h[g], h[k])
      BY <1>5, <2>2, <3>1, EntriesCompare
    <3>3. s[k] = h[k]
      BY <1>3, <1>5, <1>7, <2>5
    <3>4. QED
      BY <2>1, <2>3, <3>2, <3>3
  <2>6. QED
    BY <2>4, <2>5
<1>8. UpFrom(s, p, n)
  BY <1>6, <1>7 DEF UpFrom
<1>9. QED
  BY <1>1, <1>2, <1>3, <1>8

\* One step of the search upwards.
UpStep(up) ==
  [i \in Slots |-> [h \in Arrays |->
     IF compare_state(h[i], h[Parent(i)]) = 1 THEN up[Parent(i)][swap_state(h, i, Parent(i))]
     ELSE h]]

\* Sifting is defined: a function on the first n slots extends to one more.
UpBelow(up, n) ==
  up = [i \in 0..n - 1 |-> [h \in Arrays |->
          IF compare_state(h[i], h[Parent(i)]) = 1 THEN up[Parent(i)][swap_state(h, i, Parent(i))]
          ELSE h]]

LEMMA UpIsDefined == \E up : up = UpStep(up)
<1>1. \A n \in 0..Capacity : \E up : UpBelow(up, n)
  <2> DEFINE Bad == {n \in Nat : n <= Capacity /\ ~\E up : UpBelow(up, n)}
  <2>1. SUFFICES ASSUME Bad # {} PROVE FALSE
    BY SlotsFacts
  <2>2. PICK n \in Bad : \A m \in Bad : n <= m
    BY <2>1, LeastNatural
  <2>3. CASE n = 0
    <3>1. UpBelow([i \in 0..n - 1 |-> 0], n)
      BY <2>3 DEF UpBelow
    <3>2. QED
      BY <3>1
  <2>4. CASE n # 0
    <3>1. n \in Nat \ {0} /\ n <= Capacity /\ n - 1 \in Nat /\ n - 1 <= Capacity
      BY <2>4, SlotsFacts
    <3>2. n - 1 \notin Bad
      BY <2>2, <3>1
    <3>3. PICK up : UpBelow(up, n - 1)
      BY <3>1, <3>2
    <3> DEFINE more == [i \in 0..n - 1 |-> [h \in Arrays |->
                 IF compare_state(h[i], h[Parent(i)]) = 1 THEN up[Parent(i)][swap_state(h, i, Parent(i))]
                 ELSE h]]
    <3>4. \A i \in 0..n - 2 : more[i] = up[i]
      <4> DEFINE step(i) == [h \in Arrays |->
                   IF compare_state(h[i], h[Parent(i)]) = 1 THEN up[Parent(i)][swap_state(h, i, Parent(i))]
                   ELSE h]
      <4>1. 0..n - 1 - 1 = 0..n - 2 /\ 0..n - 2 \subseteq 0..n - 1
        BY <3>1
      <4>2. up = [i \in 0..n - 1 - 1 |-> step(i)] /\ more = [i \in 0..n - 1 |-> step(i)]
        BY <3>3 DEF UpBelow
      <4> HIDE DEF step, more
      <4>3. QED
        BY <4>1, <4>2
    <3>5. \A i \in 0..n - 1 : i # 0 => Parent(i) \in 0..n - 2
      BY <3>1, ParentFacts
    <3>6. \A i \in 0..n - 1, h \in Arrays :
            compare_state(h[i], h[Parent(i)]) = 1 => up[Parent(i)] = more[Parent(i)]
      <4>1. \A h \in Arrays : compare_state(h[0], h[Parent(0)]) # 1
        <5>1. \A h \in Arrays : h[0] \in Entry
          BY SlotsFacts DEF Arrays
        <5>2. QED
          BY <5>1, NeverBeforeItself, ParentFacts
      <4> HIDE DEF more
      <4>2. QED
        BY <3>4, <3>5, <4>1
    <3>7. UpBelow(more, n)
      <4>1. \A i \in 0..n - 1, h \in Arrays : more[i][h] =
               IF compare_state(h[i], h[Parent(i)]) = 1 THEN more[Parent(i)][swap_state(h, i, Parent(i))]
               ELSE h
        BY <3>6
      <4>2. \A i \in 0..n - 1 : more[i] = [h \in Arrays |->
               IF compare_state(h[i], h[Parent(i)]) = 1 THEN more[Parent(i)][swap_state(h, i, Parent(i))]
               ELSE h]
        BY <4>1
      <4>3. more = [i \in 0..n - 1 |-> more[i]]
        OBVIOUS
      <4> HIDE DEF more
      <4>4. QED
        BY <4>2, <4>3 DEF UpBelow
    <3>8. QED
      BY <3>7, <2>2
  <2>5. QED
    BY <2>3, <2>4
<1>2. PICK up : UpBelow(up, Capacity)
  BY <1>1, SlotsFacts
<1>3. QED
  BY <1>2, SlotsFacts DEF UpBelow, UpStep

LEMMA BubbleUpEquation ==
  \E up : up = UpStep(up) /\ \A h, i : bubbleUp(h, i) = up[i][h]
<1>1. PICK up : up = CHOOSE g : g = UpStep(g)
  OBVIOUS
<1>2. up = UpStep(up)
  BY <1>1, UpIsDefined
<1>3. \A h, i : bubbleUp(h, i) = up[i][h]
  BY <1>1 DEF bubbleUp, UpStep
<1>4. QED
  BY <1>2, <1>3

\* What sifting up leaves: the same entries, in heap order.
Sifted(g, h, n) ==
  /\ g \in Arrays /\ Timed(g, n) /\ HeapOrder(g, n) /\ SameEntries(g, h, n)
  /\ AllOnce(h, n) => AllOnce(g, n)

LEMMA SiftedAfterSwap ==
  ASSUME NEW n \in 0..Capacity, NEW h \in Arrays, NEW i \in 0..n - 1, NEW j \in 0..n - 1, NEW g,
         Sifted(g, swap_state(h, i, j), n)
  PROVE  Sifted(g, h, n)
<1>1. PICK s : /\ s = swap_state(h, i, j) /\ SameEntries(s, h, n)
               /\ AllOnce(h, n) => AllOnce(s, n)
  BY SwapFacts
<1>2. SameEntries(g, s, n)
  BY <1>1 DEF Sifted
<1>3. SameEntries(g, h, n)
  <2>1. ASSUME NEW k \in 0..n - 1 PROVE \E l \in 0..n - 1 : g[k] = h[l]
    <3>1. PICK m \in 0..n - 1 : g[k] = s[m]
      BY <1>2 DEF SameEntries
    <3>2. PICK l \in 0..n - 1 : s[m] = h[l]
      BY <1>1 DEF SameEntries
    <3>3. QED
      BY <3>1, <3>2
  <2>2. ASSUME NEW k \in 0..n - 1 PROVE \E l \in 0..n - 1 : h[k] = g[l]
    <3>1. PICK m \in 0..n - 1 : h[k] = s[m]
      BY <1>1 DEF SameEntries
    <3>2. PICK l \in 0..n - 1 : s[m] = g[l]
      BY <1>2 DEF SameEntries
    <3>3. QED
      BY <3>1, <3>2
  <2>3. QED
    BY <2>1, <2>2 DEF SameEntries
<1>4. QED
  BY <1>1, <1>3 DEF Sifted

LEMMA BubblesUp ==
  ASSUME NEW n \in 0..Capacity, NEW h \in Arrays, NEW i \in 0..n - 1, Timed(h, n), UpFrom(h, i, n)
  PROVE  Sifted(bubbleUp(h, i), h, n)
<1>1. PICK up : up = UpStep(up) /\ \A a, k : bubbleUp(a, k) = up[k][a]
  BY BubbleUpEquation
<1> DEFINE Bad == {k \in 0..n - 1 : \E a \in Arrays : Timed(a, n) /\ UpFrom(a, k, n) /\ ~Sifted(up[k][a], a, n)}
<1>2. SUFFICES ASSUME Bad # {} PROVE FALSE
  BY <1>1
<1>3. n \in Nat /\ Bad \in SUBSET Nat
  BY SlotsFacts
<1>4. PICK k \in Bad : \A m \in Bad : k <= m
  BY <1>2, <1>3, LeastNatural
<1>5. k \in 0..n - 1 /\ k \in Slots
  BY <1>3, SlotsFacts
<1>6. PICK a \in Arrays : Timed(a, n) /\ UpFrom(a, k, n) /\ ~Sifted(up[k][a], a, n)
  OBVIOUS
<1>7. up[k][a] = IF compare_state(a[k], a[Parent(k)]) = 1 THEN up[Parent(k)][swap_state(a, k, Parent(k))] ELSE a
  BY <1>1, <1>5, <1>6 DEF UpStep
<1>8. CASE compare_state(a[k], a[Parent(k)]) # 1
  <2>1. HeapOrder(a, n)
    BY <1>5, <1>6, <1>8, UpEnds
  <2>2. SameEntries(a, a, n)
    BY DEF SameEntries
  <2>3. QED
    BY <1>6, <1>7, <1>8, <2>1, <2>2 DEF Sifted
<1>9. CASE compare_state(a[k], a[Parent(k)]) = 1
  <2>1. PICK p \in 0..n - 1 : p = Parent(k) /\ p < k /\ UpFrom(swap_state(a, k, p), p, n)
    BY <1>5, <1>6, <1>9, UpGoesOn
  <2>2. PICK s \in Arrays : s = swap_state(a, k, p) /\ Timed(s, n)
    BY <1>5, <1>6, SwapFacts
  <2>3. p \notin Bad
    BY <1>3, <1>4, <2>1
  <2>4. Sifted(up[p][s], s, n)
    BY <2>1, <2>2, <2>3
  <2>5. Sifted(up[p][s], a, n)
    BY <1>5, <1>6, <2>2, <2>4, SiftedAfterSwap
  <2>6. QED
    BY <1>6, <1>7, <1>9, <2>1, <2>2, <2>5
<1>10. QED
  BY <1>8, <1>9

-----------------------------------------------------------------------------
(* Sifting an entry down. *)

LEMMA SmallestFacts ==
  ASSUME NEW n \in 0..Capacity, NEW h \in Arrays, NEW i \in 0..n - 1, Timed(h, n)
  PROVE  LET m == Smallest(h, n, i)
         IN  /\ m \in 0..n - 1
             /\ m # i => Parent(m) = i /\ m > i /\ ~NotAfter(h[i], h[m])
             /\ \A k \in 1..n - 1 : Parent(k) = i => NotAfter(h[m], h[k])
<1> DEFINE l == 2 * i + 1
           r == 2 * i + 2
           b == IF l < n /\ compare_state(h[l], h[i]) = 1 THEN l ELSE i
           m == IF r < n /\ compare_state(h[r], h[b]) = 1 THEN r ELSE b
<1>1. n \in Nat /\ i \in Nat /\ l \in Nat /\ r \in Nat /\ l > i /\ r > i
  BY SlotsFacts
<1>2. \A k \in 1..n - 1 : Parent(k) = i <=> k = l \/ k = r
  BY <1>1, ParentFacts
<1>3. m = Smallest(h, n, i)
  BY DEF Smallest
<1> HIDE DEF l, r
<1>4. /\ b \in 0..n - 1 /\ (b = i \/ b = l)
      /\ b # i => ~NotAfter(h[i], h[b])
      /\ NotAfter(h[b], h[i])
      /\ l < n => NotAfter(h[b], h[l])
  <2>1. CASE l < n /\ compare_state(h[l], h[i]) = 1
    <3>1. l \in 0..n - 1 /\ b = l
      BY <1>1, <2>1
    <3>2. ~NotAfter(h[i], h[l]) /\ NotAfter(h[l], h[i]) /\ NotAfter(h[l], h[l])
      BY <2>1, <3>1, EntriesCompare
    <3>3. QED
      BY <3>1, <3>2
  <2>2. CASE ~(l < n /\ compare_state(h[l], h[i]) = 1)
    <3>1. b = i
      BY <2>2
    <3>2. l < n => NotAfter(h[i], h[l])
      <4>1. l < n => l \in 0..n - 1
        BY <1>1
      <4>2. QED
        BY <2>2, <4>1, EntriesCompare
    <3>3. NotAfter(h[i], h[i])
      BY EntriesCompare
    <3>4. QED
      BY <3>1, <3>2, <3>3
  <2>3. QED
    BY <2>1, <2>2
<1> HIDE DEF b
<1>5. /\ m \in 0..n - 1 /\ (m = i \/ m = l \/ m = r)
      /\ m # i => ~NotAfter(h[i], h[m])
      /\ l < n => NotAfter(h[m], h[l])
      /\ r < n => NotAfter(h[m], h[r])
  <2>1. CASE r < n /\ compare_state(h[r], h[b]) = 1
    <3>1. r \in 0..n - 1 /\ m = r
      BY <1>1, <2>1
    <3>2. ~NotAfter(h[b], h[r]) /\ NotAfter(h[r], h[b]) /\ NotAfter(h[r], h[r])
      BY <1>4, <2>1, <3>1, EntriesCompare
    <3>3. l < n => NotAfter(h[r], h[l])
      <4>1. l < n => l \in 0..n - 1
        BY <1>1
      <4>2. QED
        BY <1>4, <3>1, <3>2, <4>1, EntriesCompare
    <3>4. ~NotAfter(h[i], h[r])
      BY <1>4, <3>1, <3>2, EntriesCompare
    <3>5. QED
      BY <3>1, <3>2, <3>3, <3>4
  <2>2. CASE ~(r < n /\ compare_state(h[r], h[b]) = 1)
    <3>1. m = b
      BY <2>2
    <3>2. r < n => NotAfter(h[b], h[r])
      <4>1. r < n => r \in 0..n - 1
        BY <1>1
      <4>2. QED
        BY <1>4, <2>2, <4>1, EntriesCompare
    <3>3. QED
      BY <1>4, <3>1, <3>2
  <2>3. QED
    BY <2>1, <2>2
<1> HIDE DEF m
<1>6. m # i => m \in 1..n - 1 /\ m > i
  BY <1>1, <1>5
<1>7. \A k \in 1..n - 1 : Parent(k) = i => NotAfter(h[m], h[k])
  BY <1>1, <1>2, <1>5
<1>8. QED
  BY <1>2, <1>3, <1>5, <1>6, <1>7

LEMMA DownEnds ==
  ASSUME NEW n \in 0..Capacity, NEW h \in Arrays, NEW i \in 0..n - 1, Timed(h, n), DownFrom(h, i, n),
         Smallest(h, n, i) = i
  PROVE  HeapOrder(h, n)
<1>1. \A k \in 1..n - 1 : Parent(k) = i => NotAfter(h[i], h[k])
  BY SmallestFacts
<1>2. QED
  BY <1>1 DEF DownFrom, HeapOrder

LEMMA DownGoesOn ==
  ASSUME NEW n \in 0..Capacity, NEW h \in Arrays, NEW i \in 0..n - 1, Timed(h, n), DownFrom(h, i, n),
         NEW m, m = Smallest(h, n, i), m # i
  PROVE  m \in 0..n - 1 /\ m > i /\ DownFrom(swap_state(h, i, m), m, n)
<1>1. /\ m \in 0..n - 1 /\ Parent(m) = i /\ m > i /\ ~NotAfter(h[i], h[m])
      /\ \A k \in 1..n - 1 : Parent(k) = i => NotAfter(h[m], h[k])
  BY SmallestFacts
<1>2. PICK s : /\ s = swap_state(h, i, m) /\ s[m] = h[i] /\ s[i] = h[m]
               /\ \A k \in 0..n - 1 : k # i /\ k # m => s[k] = h[k]
  <2>1. \A k \in 0..n - 1 : k \in Slots
    BY SlotsFacts
  <2>2. PICK s : s = swap_state(h, i, m)
    OBVIOUS
  <2>3. /\ s[m] = h[i] /\ s[i] = h[m]
        /\ \A k \in Slots : k # i /\ k # m => s[k] = h[k]
    BY <1>1, <2>2, SwapFacts
  <2>4. QED
    BY <2>1, <2>2, <2>3
<1>3. NotAfter(h[m], h[i])
  BY <1>1, EntriesCompare
<1>4. \A k \in 1..n - 1 : k \in 0..n - 1 /\ Parent(k) \in 0..n - 1 /\ Parent(k) < k
  BY ParentFacts, SlotsFacts
<1>5. ASSUME NEW k \in 1..n - 1, Parent(k) # m PROVE NotAfter(s[Parent(k)], s[k])
  <2>1. PICK q \in 0..n - 1 : q = Parent(k) /\ q < k /\ k \in 0..n - 1
    BY <1>4
  <2>2. CASE k = m
    BY <1>1, <1>2, <1>3, <2>1, <2>2
  <2>3. CASE k # m /\ q = i
    <3>1. NotAfter(h[m], h[k]) /\ k # i
      <4>1. Parent(k) = i /\ k # i
        BY <2>1, <2>3
      <4>2. QED
        BY <1>1, <4>1
    <3>2. QED
      BY <1>2, <2>1, <2>3, <3>1
  <2>4. CASE k = i
    <3>1. i # 0 /\ q # i
      BY <2>1, <2>4
    <3>2. NotAfter(h[q], h[m])
      <4>1. m \in 1..n - 1
        BY <1>1
      <4>2. QED
        BY <1>1, <2>1, <2>4, <3>1, <4>1 DEF DownFrom
    <3>3. s[q] = h[q]
      BY <1>2, <1>5, <2>1, <3>1
    <3>4. QED
      BY <1>2, <2>1, <2>4, <3>2, <3>3
  <2>5. CASE k # m /\ k # i /\ q # i
    BY <1>2, <1>5, <2>1, <2>5 DEF DownFrom
  <2>6. QED
    BY <2>2, <2>3, <2>4, <2>5
<1>6. ASSUME NEW k \in 1..n - 1, Parent(k) = m PROVE NotAfter(s[i], s[k])
  <2>1. k \in 0..n - 1 /\ k # m /\ k # i
    BY <1>1, <1>4, <1>6
  <2>2. NotAfter(h[m], h[k])
    BY <1>1, <1>6 DEF DownFrom
  <2>3. QED
    BY <1>2, <2>1, <2>2
<1>7. DownFrom(s, m, n)
  BY <1>1, <1>5, <1>6 DEF DownFrom
<1>8. QED
  BY <1>1, <1>2, <1>7

LEMMA SmallestIsBelow ==
  ASSUME NEW n \in 0..Capacity, NEW h \in Arrays, NEW i \in Slots
  PROVE  Smallest(h, n, i) # i => Smallest(h, n, i) \in Slots /\ Smallest(h, n, i) > i
<1> DEFINE l == 2 * i + 1
           r == 2 * i + 2
<1>1. l > i /\ r > i /\ (l < n => l \in Slots) /\ (r < n => r \in Slots)
  BY SlotsFacts
<1>2. Smallest(h, n, i) = i \/ (Smallest(h, n, i) = l /\ l < n) \/ (Smallest(h, n, i) = r /\ r < n)
  BY DEF Smallest
<1>3. QED
  BY <1>1, <1>2

\* One step of the search downwards.
DownStep(down, n) ==
  [i \in Slots |-> [h \in Arrays |->
     LET m == Smallest(h, n, i)
     IN  IF m = i THEN h ELSE down[m][swap_state(h, i, m)]]]

\* A function on the last c slots extends to one more.
DownBelow(down, n, c) ==
  down = [i \in Capacity - c..Capacity - 1 |-> [h \in Arrays |->
            LET m == Smallest(h, n, i)
            IN  IF m = i THEN h ELSE down[m][swap_state(h, i, m)]]]

LEMMA DownIsDefined == ASSUME NEW n \in 0..Capacity PROVE \E down : down = DownStep(down, n)
<1>1. \A c \in 0..Capacity : \E down : DownBelow(down, n, c)
  <2> DEFINE Bad == {c \in Nat : c <= Capacity /\ ~\E down : DownBelow(down, n, c)}
  <2>1. SUFFICES ASSUME Bad # {} PROVE FALSE
    <3>1. \A c \in 0..Capacity : c \in Nat /\ c <= Capacity
      BY SlotsFacts
    <3>2. QED
      BY <3>1, Zenon
  <2>2. PICK c \in Bad : \A m \in Bad : c <= m
    BY <2>1, LeastNatural
  <2>3. CASE c = 0
    <3>1. Capacity - c..Capacity - 1 = {}
      BY <2>3, SlotsFacts
    <3>2. DownBelow([i \in Capacity - c..Capacity - 1 |-> 0], n, c)
      BY <3>1 DEF DownBelow
    <3>3. QED
      BY <3>2
  <2>4. CASE c # 0
    <3>1. c \in Nat \ {0} /\ c <= Capacity /\ c - 1 \in Nat /\ c - 1 <= Capacity
      BY <2>4, SlotsFacts
    <3>2. c - 1 \notin Bad
      BY <2>2, <3>1
    <3>3. PICK down : DownBelow(down, n, c - 1)
      BY <3>1, <3>2
    <3> DEFINE D == Capacity - c..Capacity - 1
               step(i) == [h \in Arrays |->
                   LET m == Smallest(h, n, i)
                   IN  IF m = i THEN h ELSE down[m][swap_state(h, i, m)]]
               more == [i \in D |-> step(i)]
    <3>4. \A i \in D : i # Capacity - c => more[i] = down[i]
      <4>1. \A i \in D : i # Capacity - c => i \in Capacity - (c - 1)..Capacity - 1
        BY <3>1, SlotsFacts
      <4>2. down = [i \in Capacity - (c - 1)..Capacity - 1 |-> step(i)]
        BY <3>3 DEF DownBelow
      <4>3. \A i \in D : more[i] = step(i)
        OBVIOUS
      <4> HIDE DEF step, more, D
      <4>4. QED
        BY <4>1, <4>2, <4>3
    <3>5. \A i \in D : i \in Slots /\ i >= Capacity - c
      BY <3>1, SlotsFacts
    <3>6. \A i \in D, h \in Arrays :
            Smallest(h, n, i) # i => down[Smallest(h, n, i)] = more[Smallest(h, n, i)]
      <4>1. SUFFICES ASSUME NEW i \in D, NEW h \in Arrays, NEW m, m = Smallest(h, n, i), m # i
                     PROVE  down[m] = more[m]
        BY Zenon
      <4>2. m \in Slots /\ m > i
        BY <3>5, <4>1, SmallestIsBelow
      <4>3. m \in D /\ m # Capacity - c
        BY <3>1, <3>5, <4>2, SlotsFacts
      <4> HIDE DEF more
      <4>4. QED
        BY <3>4, <4>3
    <3>7. DownBelow(more, n, c)
      <4>1. \A i \in D, h \in Arrays : more[i][h] =
               IF Smallest(h, n, i) = i THEN h
               ELSE more[Smallest(h, n, i)][swap_state(h, i, Smallest(h, n, i))]
        BY <3>6
      <4>2. \A i \in D : more[i] = [h \in Arrays |-> 
               IF Smallest(h, n, i) = i THEN h
               ELSE more[Smallest(h, n, i)][swap_state(h, i, Smallest(h, n, i))]]
        BY <4>1
      <4>3. more = [i \in D |-> more[i]]
        OBVIOUS
      <4> HIDE DEF more
      <4>4. QED
        BY <4>2, <4>3 DEF DownBelow
    <3>8. QED
      BY <3>7, <2>2
  <2>5. QED
    BY <2>3, <2>4
<1>2. PICK down : DownBelow(down, n, Capacity)
  BY <1>1, SlotsFacts
<1>3. Capacity - Capacity..Capacity - 1 = Slots
  BY SlotsFacts
<1>4. QED
  BY <1>2, <1>3, Zenon DEF DownBelow, DownStep

LEMMA BubbleDownEquation ==
  ASSUME NEW n \in 0..Capacity
  PROVE  \E down : down = DownStep(down, n) /\ \A h, i : bubbleDown(h, n, i) = down[i][h]
<1>1. PICK down : down = CHOOSE g : g = DownStep(g, n)
  OBVIOUS
<1>2. down = DownStep(down, n)
  BY <1>1, DownIsDefined
<1>3. \A h, i : bubbleDown(h, n, i) = down[i][h]
  BY <1>1 DEF bubbleDown, DownStep
<1>4. QED
  BY <1>2, <1>3

LEMMA BubblesDown ==
  ASSUME NEW n \in 0..Capacity, NEW h \in Arrays, NEW i \in 0..n - 1, Timed(h, n), DownFrom(h, i, n)
  PROVE  Sifted(bubbleDown(h, n, i), h, n)
<1>1. PICK down : down = DownStep(down, n) /\ \A a, k : bubbleDown(a, n, k) = down[k][a]
  BY BubbleDownEquation
<1> DEFINE Bad == {k \in 0..n - 1 : \E a \in Arrays : Timed(a, n) /\ DownFrom(a, k, n) /\ ~Sifted(down[k][a], a, n)}
<1>2. SUFFICES ASSUME Bad # {} PROVE FALSE
  BY <1>1
<1>3. n \in Nat /\ Bad \in SUBSET (0..n)
  BY SlotsFacts
<1>4. PICK k \in Bad : \A m \in Bad : m <= k
  BY <1>2, <1>3, GreatestBelow
<1>5. k \in 0..n - 1 /\ k \in Slots
  BY <1>3, SlotsFacts
<1>6. PICK a \in Arrays : Timed(a, n) /\ DownFrom(a, k, n) /\ ~Sifted(down[k][a], a, n)
  OBVIOUS
<1>7. PICK m : m = Smallest(a, n, k)
  OBVIOUS
<1>8. down[k][a] = IF m = k THEN a ELSE down[m][swap_state(a, k, m)]
  <2>1. down[k] = [b \in Arrays |-> LET l == Smallest(b, n, k)
                                   IN  IF l = k THEN b ELSE down[l][swap_state(b, k, l)]]
    BY <1>1, <1>5 DEF DownStep
  <2>2. QED
    BY <1>6, <1>7, <2>1
<1>9. CASE m = k
  <2>1. HeapOrder(a, n)
    BY <1>5, <1>6, <1>7, <1>9, DownEnds
  <2>2. SameEntries(a, a, n)
    BY DEF SameEntries
  <2>3. QED
    BY <1>6, <1>8, <1>9, <2>1, <2>2 DEF Sifted
<1>10. CASE m # k
  <2>1. m \in 0..n - 1 /\ m > k /\ DownFrom(swap_state(a, k, m), m, n)
    BY <1>5, <1>6, <1>7, <1>10, DownGoesOn
  <2>2. PICK s \in Arrays : s = swap_state(a, k, m) /\ Timed(s, n)
    BY <1>5, <1>6, <2>1, SwapFacts
  <2>3. m \notin Bad
    BY <1>3, <1>4, <2>1
  <2>4. Sifted(down[m][s], s, n)
    BY <2>1, <2>2, <2>3
  <2>5. Sifted(down[m][s], a, n)
    BY <1>5, <1>6, <2>1, <2>2, <2>4, SiftedAfterSwap
  <2>6. QED
    BY <1>6, <1>8, <1>10, <2>2, <2>5
<1>11. QED
  BY <1>9, <1>10

-----------------------------------------------------------------------------
(* The invariant of the heap: it is one, of entries with distinct tasks, and *)
(* its tasks are those that were enqueued.                                   *)

HeapTypeOK == harr \in Arrays /\ size \in 0..Capacity /\ now \in Nat

HeapInv ==
  /\ HeapTypeOK
  /\ Timed(harr, size) /\ AllOnce(harr, size) /\ HeapOrder(harr, size)
  /\ InHeap \subseteq Pids /\ InHeap = DOMAIN arrived

\* The stamp of an entry is the time at which it was enqueued.
StampsTell == \A k \in 0..size - 1 : harr[k].time = arrived[harr[k].pid]

LEMMA TopGoesFirst ==
  ASSUME NEW n \in 0..Capacity, NEW h \in Arrays, Timed(h, n), HeapOrder(h, n)
  PROVE  \A k \in 0..n - 1 : NotAfter(h[0], h[k])
<1> DEFINE Bad == {k \in 0..n - 1 : ~NotAfter(h[0], h[k])}
<1>1. SUFFICES ASSUME Bad # {} PROVE FALSE
  OBVIOUS
<1>2. n \in Nat /\ Bad \in SUBSET Nat
  BY SlotsFacts
<1>3. PICK k \in Bad : \A m \in Bad : k <= m
  BY <1>1, <1>2, LeastNatural
<1>4. k \in 0..n - 1 /\ ~NotAfter(h[0], h[k]) /\ 0 \in 0..n - 1
  BY <1>2
<1>5. k # 0
  BY <1>4, EntriesCompare
<1>6. PICK p \in 0..n - 1 : p = Parent(k) /\ p < k
  BY <1>2, <1>4, <1>5, ParentFacts
<1>7. NotAfter(h[0], h[p])
  BY <1>2, <1>3, <1>6
<1>8. NotAfter(h[p], h[k])
  BY <1>2, <1>4, <1>5, <1>6 DEF HeapOrder
<1>9. QED
  BY <1>4, <1>6, <1>7, <1>8, EntriesCompare

LEMMA HeapCount ==
  ASSUME HeapInv PROVE Cardinality(InHeap) = size /\ IsFiniteSet(InHeap)
<1> DEFINE f == [k \in 1..size |-> harr[k - 1].pid]
<1>1. size \in Nat
  BY SlotsFacts DEF HeapInv, HeapTypeOK
<1>2. \A k \in 1..size : k - 1 \in 0..size - 1
  BY <1>1
<1>3. f \in [1..size -> InHeap]
  BY <1>2 DEF InHeap
<1>4. \A i, j \in 1..size : f[i] = f[j] => i = j
  <2>1. ASSUME NEW i \in 1..size, NEW j \in 1..size, f[i] = f[j] PROVE i = j
    <3>1. i - 1 = j - 1
      BY <1>2, <2>1 DEF HeapInv, AllOnce
    <3>2. QED
      BY <3>1
  <2>2. QED
    BY <2>1
<1>5. \A x \in InHeap : \E i \in 1..size : f[i] = x
  <2>1. ASSUME NEW x \in InHeap PROVE \E i \in 1..size : f[i] = x
    <3>1. PICK k \in 0..size - 1 : x = harr[k].pid
      BY DEF InHeap
    <3>2. k + 1 \in 1..size /\ k + 1 - 1 = k
      BY <1>1
    <3>3. f[k + 1] = x
      BY <3>1, <3>2
    <3>4. QED
      BY <3>2, <3>3
  <2>2. QED
    BY <2>1
<1>6. IsFiniteSet(InHeap)
  BY FS_Subset, HeapAssumption DEF HeapInv
<1>7. Cardinality(InHeap) = size
  <2> HIDE DEF f
  <2>1. QED
    BY <1>1, <1>3, <1>4, <1>5, DistinctCount
<1>8. QED
  BY <1>6, <1>7

\* There is room for a task that is not in the heap.
LEMMA HeapIsNotFull ==
  ASSUME HeapInv, NEW p \in Pids \ InHeap
  PROVE  size \in Slots /\ size + 1 \in 0..Capacity
<1>1. Cardinality(InHeap) = size /\ IsFiniteSet(InHeap) /\ IsFiniteSet(Pids)
  BY HeapCount, HeapAssumption
<1>2. Cardinality(InHeap \cup {p}) = size + 1 /\ IsFiniteSet(InHeap \cup {p})
  BY <1>1, FS_AddElement
<1>3. InHeap \cup {p} \subseteq Pids
  BY DEF HeapInv
<1>4. Cardinality(InHeap \cup {p}) <= Cardinality(Pids)
  BY <1>1, <1>3, FS_Subset
<1>5. size + 1 <= Capacity /\ size \in Nat
  BY <1>2, <1>4, SlotsFacts DEF Capacity, HeapInv, HeapTypeOK
<1>6. QED
  BY <1>5, SlotsFacts

\* An insert leaves the entries and the new one.
LEMMA InsertKeeps ==
  ASSUME HeapInv, NEW p \in Pids, NEW prio \in Priorities, insertKey(p, prio)
  PROVE  /\ p \notin InHeap /\ size' = size + 1 /\ size' \in 0..Capacity
         /\ harr' \in Arrays /\ Timed(harr', size') /\ HeapOrder(harr', size') /\ AllOnce(harr', size')
         /\ now' \in Nat /\ arrived' = [q \in InHeap \cup {p} |-> IF q = p THEN now' ELSE arrived[q]]
         /\ \A k \in 0..size' - 1 : \/ harr'[k].pid = p /\ harr'[k].time = Stamp(now, now')
                                    \/ \E l \in 0..size - 1 : harr'[k] = harr[l]
         /\ \A l \in 0..size - 1 : \E k \in 0..size' - 1 : harr'[k] = harr[l]
         /\ \E k \in 0..size' - 1 : harr'[k].pid = p
<1>1. p \in Pids \ InHeap /\ size' = size + 1
  BY DEF insertKey
<1>2. PICK later \in now..MaxNow :
        /\ harr' = bubbleUp([harr EXCEPT ![size] = [pid |-> p, priority |-> prio, time |-> Stamp(now, later)]], size)
        /\ now' = later
        /\ arrived' = [q \in InHeap \cup {p} |-> IF q = p THEN later ELSE arrived[q]]
  BY DEF insertKey
<1>3. harr \in Arrays /\ size \in Nat /\ now \in Nat /\ later \in Nat
  BY <1>2, SlotsFacts, HeapAssumption DEF HeapInv, HeapTypeOK
<1>4. size \in Slots /\ size + 1 \in 0..Capacity
  BY <1>1, HeapIsNotFull
<1> DEFINE e == [pid |-> p, priority |-> prio, time |-> Stamp(now, later)]
           a == [harr EXCEPT ![size] = e]
           n == size + 1
<1>5. Stamp(now, later) \in Nat
  <2>1. PICK L \in Nat \ {0} : L = LoRange
    BY HeapAssumption
  <2>2. now \div L \in Nat /\ later % L \in Nat
    BY <1>3, <2>1
  <2>3. L * (now \div L) \in Nat
    BY <2>1, <2>2
  <2>4. QED
    BY <2>1, <2>2, <2>3 DEF Stamp
<1>6. e \in Entry /\ e.time \in Nat /\ e.pid = p
  BY <1>5 DEF Entry
<1> HIDE DEF e
<1>7. a \in Arrays /\ a[size] = e /\ \A k \in 0..size - 1 : a[k] = harr[k] /\ k # size
  <2>1. a \in Arrays /\ a[size] = e
    BY <1>3, <1>4, <1>6 DEF Arrays
  <2>2. \A k \in 0..size - 1 : k \in Slots /\ k # size
    BY <1>3, <1>4, SlotsFacts
  <2>3. QED
    BY <1>3, <2>1, <2>2 DEF Arrays
<1>8. \A k \in 0..n - 1 : k = size \/ k \in 0..size - 1
  BY <1>3
<1> HIDE DEF a
<1>9. Timed(a, n)
  BY <1>6, <1>7, <1>8 DEF Timed, HeapInv
<1>10. AllOnce(a, n)
  <2>1. \A k \in 0..size - 1 : harr[k].pid # p
    BY <1>1 DEF InHeap
  <2>2. \A k, l \in 0..size - 1 : harr[k].pid = harr[l].pid => k = l
    BY DEF HeapInv, AllOnce
  <2>3. QED
    BY <1>6, <1>7, <1>8, <2>1, <2>2 DEF AllOnce
<1>11. UpFrom(a, size, n)
  <2>1. ASSUME NEW k \in 1..n - 1
        PROVE  (k # size => NotAfter(a[Parent(k)], a[k])) /\ Parent(k) # size
    <3>1. PICK q \in 0..size - 1 : q = Parent(k) /\ q < k
      BY <1>3, ParentFacts
    <3>2. k # size => k \in 1..size - 1 /\ k \in 0..size - 1
      BY <1>3
    <3>3. k # size => NotAfter(harr[q], harr[k])
      BY <3>1, <3>2 DEF HeapInv, HeapOrder
    <3>4. QED
      BY <1>3, <1>7, <3>1, <3>2, <3>3
  <2>2. QED
    BY <2>1 DEF UpFrom
<1>12. Sifted(harr', a, n)
  <2>1. n \in 0..Capacity /\ size \in 0..n - 1
    BY <1>3, <1>4
  <2>2. harr' = bubbleUp(a, size)
    BY <1>2 DEF a, e
  <2> HIDE DEF n
  <2>3. QED
    BY <1>7, <1>9, <1>11, <2>1, <2>2, BubblesUp
<1>13. \A k \in 0..n - 1 : harr'[k] = e \/ \E l \in 0..size - 1 : harr'[k] = harr[l]
  <2>1. ASSUME NEW k \in 0..n - 1 PROVE harr'[k] = e \/ \E l \in 0..size - 1 : harr'[k] = harr[l]
    <3>1. PICK l \in 0..n - 1 : harr'[k] = a[l]
      BY <1>12 DEF Sifted, SameEntries
    <3>2. QED
      BY <1>7, <1>8, <3>1
  <2>2. QED
    BY <2>1
<1>14. \A l \in 0..n - 1 : \E k \in 0..n - 1 : a[l] = harr'[k]
  BY <1>12 DEF Sifted, SameEntries
<1>15. \A l \in 0..size - 1 : \E k \in 0..n - 1 : harr'[k] = harr[l]
  <2>1. \A l \in 0..size - 1 : l \in 0..n - 1
    BY <1>3
  <2>2. QED
    BY <1>7, <1>14, <2>1
<1>16. \E k \in 0..n - 1 : harr'[k] = e
  <2>1. size \in 0..n - 1
    BY <1>3
  <2>2. QED
    BY <1>7, <1>14, <2>1
<1>17. e.pid = p /\ e.time = Stamp(now, later)
  BY DEF e
<1>18. QED
  BY <1>1, <1>2, <1>3, <1>4, <1>10, <1>12, <1>13, <1>15, <1>16, <1>17 DEF Sifted

\* An extraction leaves the entries but the first.
LEMMA ExtractKeeps ==
  ASSUME HeapInv, extractMin
  PROVE  /\ size \in Nat \ {0} /\ size' = size - 1 /\ size' \in 0..Capacity
         /\ harr' \in Arrays /\ Timed(harr', size') /\ HeapOrder(harr', size') /\ AllOnce(harr', size')
         /\ \A k \in 0..size' - 1 : \E l \in 1..size - 1 : harr'[k] = harr[l]
         /\ \A l \in 1..size - 1 : \E k \in 0..size' - 1 : harr'[k] = harr[l]
<1>1. harr \in Arrays /\ size \in Nat \ {0} /\ size <= Capacity
  BY SlotsFacts DEF HeapInv, HeapTypeOK, extractMin
<1>2. size' = size - 1 /\ size - 1 \in 0..Capacity
  BY <1>1, SlotsFacts DEF extractMin
<1>3. CASE size = 1
  <2>1. harr' = harr /\ size' = 0
    BY <1>2, <1>3 DEF extractMin
  <2>2. 0..size' - 1 = {} /\ 1..size - 1 = {} /\ 1..size' - 1 = {}
    BY <1>3, <2>1
  <2>3. QED
    BY <1>1, <1>2, <2>1, <2>2 DEF Timed, HeapOrder, AllOnce
<1>4. CASE size # 1
  <2> DEFINE n == size - 1
             a == [harr EXCEPT ![0] = harr[n]]
  <2>1. n \in 0..Capacity /\ 0 \in 0..n - 1 /\ n \in 0..size - 1 /\ n \in 1..size - 1
    BY <1>1, <1>2, <1>4
  <2>2. \A k \in 0..size - 1 : k \in Slots
    BY <1>1, SlotsFacts
  <2>3. a \in Arrays /\ a[0] = harr[n] /\ \A k \in 1..n - 1 : a[k] = harr[k] /\ k \in 1..size - 1 /\ k # n /\ k # 0
    <3>1. n \in Slots /\ 0 \in Slots
      BY <1>1, <2>1, SlotsFacts
    <3>2. a \in Arrays /\ a[0] = harr[n]
      BY <1>1, <3>1 DEF Arrays
    <3>3. \A k \in 1..n - 1 : k \in Slots /\ k # 0 /\ k # n /\ k \in 1..size - 1
      BY <1>1, SlotsFacts
    <3>4. QED
      BY <1>1, <3>2, <3>3 DEF Arrays
  <2>4. harr' = bubbleDown(a, n, 0)
    BY <1>4 DEF extractMin
  <2>5. \A k \in 0..n - 1 : k = 0 \/ k \in 1..n - 1
    BY <1>1
  <2>6. \A k \in 1..size - 1 : k \in 0..size - 1
    BY <1>1
  <2> HIDE DEF a
  <2>7. Timed(a, n)
    BY <2>1, <2>3, <2>5, <2>6 DEF Timed, HeapInv
  <2>8. AllOnce(a, n)
    <3>1. \A k, l \in 1..size - 1 : harr[k].pid = harr[l].pid => k = l
      BY <2>6 DEF HeapInv, AllOnce
    <3>2. QED
      BY <2>1, <2>3, <2>5, <3>1 DEF AllOnce
  <2>9. DownFrom(a, 0, n)
    <3>1. ASSUME NEW k \in 1..n - 1, Parent(k) # 0 PROVE NotAfter(a[Parent(k)], a[k])
      <4>1. PICK q \in 1..n - 1 : q = Parent(k)
        BY <1>1, <3>1, ParentFacts
      <4>2. NotAfter(harr[q], harr[k])
        BY <2>3, <4>1 DEF HeapInv, HeapOrder
      <4>3. QED
        BY <2>3, <4>1, <4>2
    <3>2. QED
      BY <3>1 DEF DownFrom
  <2>10. Sifted(harr', a, n)
    <3> HIDE DEF n
    <3>1. QED
      BY <2>1, <2>3, <2>4, <2>7, <2>9, BubblesDown
  <2>11. \A k \in 0..n - 1 : \E l \in 1..size - 1 : harr'[k] = harr[l]
    <3>1. ASSUME NEW k \in 0..n - 1 PROVE \E l \in 1..size - 1 : harr'[k] = harr[l]
      <4>1. PICK l \in 0..n - 1 : harr'[k] = a[l]
        BY <2>10 DEF Sifted, SameEntries
      <4>2. QED
        BY <2>1, <2>3, <2>5, <4>1
    <3>2. QED
      BY <3>1
  <2>12. \A l \in 1..size - 1 : \E k \in 0..n - 1 : harr'[k] = harr[l]
    <3>1. ASSUME NEW l \in 1..size - 1 PROVE \E k \in 0..n - 1 : harr[l] = a[k]
      <4>1. CASE l = n
        BY <2>1, <2>3, <4>1
      <4>2. CASE l # n
        <5>1. l \in 1..n - 1 /\ l \in 0..n - 1
          BY <1>1, <4>2
        <5>2. QED
          BY <2>3, <5>1
      <4>3. QED
        BY <4>1, <4>2
    <3>2. \A k \in 0..n - 1 : \E l \in 0..n - 1 : a[k] = harr'[l]
      BY <2>10 DEF Sifted, SameEntries
    <3>3. ASSUME NEW l \in 1..size - 1 PROVE \E k \in 0..n - 1 : harr'[k] = harr[l]
      <4>1. PICK m \in 0..n - 1 : harr[l] = a[m]
        BY <3>1
      <4>2. PICK k \in 0..n - 1 : a[m] = harr'[k]
        BY <3>2
      <4>3. QED
        BY <4>1, <4>2
    <3>4. QED
      BY <3>3
  <2>13. QED
    BY <1>1, <1>2, <2>1, <2>8, <2>10, <2>11, <2>12 DEF Sifted
<1>5. QED
  BY <1>3, <1>4

LEMMA HeapInitially == HInit => HeapInv /\ StampsTell
<1> SUFFICES ASSUME HInit PROVE HeapInv /\ StampsTell
  OBVIOUS
<1>1. size = 0 /\ now = 0 /\ arrived = [p \in {} |-> 0] /\ harr = [i \in Slots |-> Unused]
  BY DEF HInit
<1>2. 0..size - 1 = {} /\ 1..size - 1 = {}
  BY <1>1
<1>3. harr \in Arrays
  <2>1. Unused \in Entry
    BY DEF Unused, Entry, NoTime
  <2>2. QED
    BY <1>1, <2>1 DEF Arrays
<1>4. InHeap = {} /\ DOMAIN arrived = {}
  BY <1>1, <1>2 DEF InHeap
<1>5. QED
  BY <1>1, <1>2, <1>3, <1>4, SlotsFacts
     DEF HeapInv, HeapTypeOK, StampsTell, Timed, AllOnce, HeapOrder

LEMMA InsertHolds ==
  ASSUME HeapInv, NEW p \in Pids, NEW prio \in Priorities, insertKey(p, prio)
  PROVE  HeapInv' /\ InHeap' = InHeap \cup {p}
<1>1. InHeap' = {harr'[k].pid : k \in 0..size' - 1}
  BY DEF InHeap
<1>2. InHeap' = InHeap \cup {p}
  <2>1. ASSUME NEW q \in InHeap' PROVE q \in InHeap \cup {p}
    <3>1. PICK k \in 0..size' - 1 : q = harr'[k].pid
      BY <1>1
    <3>2. harr'[k].pid = p \/ \E l \in 0..size - 1 : harr'[k] = harr[l]
      BY InsertKeeps
    <3>3. QED
      BY <3>1, <3>2 DEF InHeap
  <2>2. ASSUME NEW q \in InHeap PROVE q \in InHeap'
    <3>1. PICK l \in 0..size - 1 : q = harr[l].pid
      BY DEF InHeap
    <3>2. PICK k \in 0..size' - 1 : harr'[k] = harr[l]
      BY InsertKeeps
    <3>3. QED
      BY <1>1, <3>1, <3>2
  <2>3. p \in InHeap'
    <3>1. PICK k \in 0..size' - 1 : harr'[k].pid = p
      BY InsertKeeps
    <3>2. QED
      BY <1>1, <3>1
  <2>4. QED
    BY <2>1, <2>2, <2>3
<1>3. DOMAIN arrived' = InHeap'
  BY <1>2, InsertKeeps
<1>4. InHeap' \subseteq Pids
  BY <1>2 DEF HeapInv
<1>5. harr' \in Arrays /\ size' \in 0..Capacity /\ now' \in Nat
      /\ Timed(harr', size') /\ HeapOrder(harr', size') /\ AllOnce(harr', size')
  BY InsertKeeps
<1>6. QED
  BY <1>2, <1>3, <1>4, <1>5 DEF HeapInv, HeapTypeOK, Timed, HeapOrder, AllOnce, NotAfter

LEMMA ExtractHolds ==
  ASSUME HeapInv, extractMin
  PROVE  HeapInv' /\ InHeap' = InHeap \ {harr[0].pid}
<1>1. InHeap' = {harr'[k].pid : k \in 0..size' - 1} /\ InHeap = {harr[k].pid : k \in 0..size - 1}
  BY DEF InHeap
<1>2. size \in Nat \ {0}
  BY ExtractKeeps
<1>3. 0 \in 0..size - 1 /\ \A l \in 1..size - 1 : l \in 0..size - 1 /\ l # 0
  BY <1>2
<1>4. \A l \in 0..size - 1 : l = 0 \/ l \in 1..size - 1
  BY <1>2
<1>5. \A l \in 1..size - 1 : harr[l].pid # harr[0].pid
  BY <1>3 DEF HeapInv, AllOnce
<1>6. InHeap' = InHeap \ {harr[0].pid}
  <2>1. ASSUME NEW q \in InHeap' PROVE q \in InHeap \ {harr[0].pid}
    <3>1. PICK k \in 0..size' - 1 : q = harr'[k].pid
      BY <1>1
    <3>2. PICK l \in 1..size - 1 : harr'[k] = harr[l]
      BY ExtractKeeps
    <3>3. QED
      BY <1>1, <1>3, <1>5, <3>1, <3>2
  <2>2. ASSUME NEW q \in InHeap \ {harr[0].pid} PROVE q \in InHeap'
    <3>1. PICK l \in 1..size - 1 : q = harr[l].pid
      BY <1>1, <1>4
    <3>2. PICK k \in 0..size' - 1 : harr'[k] = harr[l]
      BY ExtractKeeps
    <3>3. QED
      BY <1>1, <3>1, <3>2
  <2>3. QED
    BY <2>1, <2>2
<1>7. DOMAIN arrived' = InHeap' /\ now' = now
  BY <1>6 DEF extractMin
<1>8. InHeap' \subseteq Pids /\ now' \in Nat
  BY <1>6, <1>7 DEF HeapInv, HeapTypeOK
<1>9. harr' \in Arrays /\ size' \in 0..Capacity
      /\ Timed(harr', size') /\ HeapOrder(harr', size') /\ AllOnce(harr', size')
  BY ExtractKeeps
<1>10. QED
  BY <1>6, <1>7, <1>8, <1>9 DEF HeapInv, HeapTypeOK, Timed, HeapOrder, AllOnce, NotAfter

LEMMA HeapStep == HeapInv /\ [HNext]_heapVars => HeapInv'
<1> SUFFICES ASSUME HeapInv, [HNext]_heapVars PROVE HeapInv'
  OBVIOUS
<1>1. CASE Tick \/ UNCHANGED heapVars
  <2>1. harr' = harr /\ size' = size /\ arrived' = arrived /\ now' \in Nat
    BY <1>1 DEF Tick, heapVars, HeapInv, HeapTypeOK
  <2>2. InHeap' = InHeap
    BY <2>1 DEF InHeap
  <2>3. QED
    BY <2>1, <2>2 DEF HeapInv, HeapTypeOK, Timed, HeapOrder, AllOnce, NotAfter
<1>2. CASE \E p \in Pids, prio \in Priorities : insertKey(p, prio)
  BY <1>2, InsertHolds
<1>3. CASE extractMin
  BY <1>3, ExtractHolds
<1>4. QED
  BY <1>1, <1>2, <1>3 DEF HNext

\* The array is a heap by priority and then by stamp, and holds each task that
\* was enqueued once, however inserts and extractions follow each other and
\* whenever the timer wraps.
THEOREM HeapInvariant == HSpec => []HeapInv
<1>1. QED
  BY HeapInitially, HeapStep, PTL DEF HSpec

LEMMA StampsStep ==
  ASSUME HeapInv, StampsTell, [HNext]_heapVars,
         [size' > size => now' \div LoRange = now \div LoRange]_heapVars
  PROVE  StampsTell'
<1>1. CASE Tick \/ UNCHANGED heapVars
  BY <1>1 DEF Tick, heapVars, StampsTell
<1>2. CASE extractMin
  <2>1. InHeap' = InHeap \ {harr[0].pid} /\ arrived' = [q \in InHeap \ {harr[0].pid} |-> arrived[q]]
    BY <1>2, ExtractHolds DEF extractMin
  <2>2. ASSUME NEW k \in 0..size' - 1 PROVE harr'[k].time = arrived'[harr'[k].pid]
    <3>1. PICK l \in 1..size - 1 : harr'[k] = harr[l]
      BY <1>2, ExtractKeeps
    <3>2. l \in 0..size - 1
      BY <1>2, <3>1, ExtractKeeps
    <3>3. harr'[k].pid \in InHeap'
      BY <2>2 DEF InHeap
    <3>4. QED
      BY <2>1, <3>1, <3>2, <3>3 DEF StampsTell
  <2>3. QED
    BY <2>2 DEF StampsTell
<1>3. ASSUME NEW p \in Pids, NEW prio \in Priorities, insertKey(p, prio) PROVE StampsTell'
  <2>1. /\ p \notin InHeap /\ size' = size + 1 /\ size \in Nat
        /\ arrived' = [q \in InHeap \cup {p} |-> IF q = p THEN now' ELSE arrived[q]]
        /\ now' \in Nat
    <3>1. size \in Nat
      BY SlotsFacts DEF HeapInv, HeapTypeOK
    <3>2. QED
      BY <1>3, <3>1, InsertKeeps
  <2>2. now' \div LoRange = now \div LoRange
    BY <2>1 DEF heapVars
  <2>3. Stamp(now, now') = now'
    <3>1. PICK L \in Nat \ {0} : L = LoRange
      BY HeapAssumption
    <3>2. PICK t \in Nat : t = now'
      BY <2>1
    <3>3. L * (t \div L) + (t % L) = t
      BY Z3
    <3>4. QED
      BY <2>2, <3>1, <3>2, <3>3 DEF Stamp
  <2>4. ASSUME NEW k \in 0..size' - 1 PROVE harr'[k].time = arrived'[harr'[k].pid]
    <3>1. CASE harr'[k].pid = p /\ harr'[k].time = Stamp(now, now')
      BY <2>1, <2>3, <3>1
    <3>2. CASE \E l \in 0..size - 1 : harr'[k] = harr[l]
      <4>1. PICK l \in 0..size - 1 : harr'[k] = harr[l]
        BY <3>2
      <4>2. harr[l].pid \in InHeap
        BY DEF InHeap
      <4>3. QED
        BY <2>1, <4>1, <4>2 DEF StampsTell
    <3>3. QED
      BY <1>3, <3>1, <3>2, InsertKeeps
  <2>5. QED
    BY <2>4 DEF StampsTell
<1>4. QED
  BY <1>1, <1>2, <1>3 DEF HNext

LEMMA BestLeaves ==
  ASSUME HeapInv, StampsTell, HNext, NEW e \in Queued, NEW f \in Queued, Leaves(e)
  PROVE  \/ e.priority < f.priority
         \/ e.priority = f.priority /\ arrived[e.pid] <= arrived[f.pid]
<1>1. PICK i \in 0..size - 1, j \in 0..size - 1 : e = harr[i] /\ f = harr[j]
  BY DEF Queued
<1>2. e.pid \in InHeap /\ e.pid \notin InHeap'
  BY <1>1 DEF InHeap, Leaves
<1>3. extractMin
  <2>1. ~Tick
    BY <1>2 DEF Tick, InHeap
  <2>2. ASSUME NEW p \in Pids, NEW prio \in Priorities, insertKey(p, prio) PROVE FALSE
    BY <1>2, <2>2, InsertHolds
  <2>3. QED
    BY <2>1, <2>2 DEF HNext
<1>4. e.pid = harr[0].pid
  BY <1>2, <1>3, ExtractHolds
<1>5. size \in Nat \ {0} /\ size \in 0..Capacity /\ 0 \in 0..size - 1
  BY <1>3, ExtractKeeps DEF HeapInv, HeapTypeOK
<1>6. i = 0
  BY <1>1, <1>4, <1>5 DEF HeapInv, AllOnce
<1>7. NotAfter(harr[0], harr[j])
  BY <1>5, TopGoesFirst DEF HeapInv, HeapTypeOK
<1>8. harr[0].time = arrived[harr[0].pid] /\ harr[j].time = arrived[harr[j].pid]
  BY <1>5 DEF StampsTell
<1>9. QED
  BY <1>1, <1>6, <1>7, <1>8 DEF NotAfter

\* Whatever the number of tasks, an extraction takes the one of the best
\* priority that was enqueued first, and the heap keeps the others, as long as
\* the low half of the timer does not wrap between the two reads of an insert.
THEOREM BestIsFirst == HSpec /\ NoWrapWhileRead => BestThenOldestFirst
<1>1. HSpec /\ NoWrapWhileRead => []StampsTell
  BY HeapInitially, HeapInvariant, StampsStep, PTL DEF HSpec, NoWrapWhileRead
<1>2. HeapInv => HoldsAllOnce
  BY HeapCount DEF HoldsAllOnce, HeapInv
<1>3. ASSUME HeapInv, StampsTell, [HNext]_heapVars
      PROVE  [\A e, f \in Queued :
                Leaves(e) => \/ e.priority < f.priority
                             \/ e.priority = f.priority /\ arrived[e.pid] <= arrived[f.pid]]_heapVars
  BY <1>3, BestLeaves
<1>4. QED
  BY <1>1, <1>2, <1>3, HeapInvariant, PTL DEF HSpec, BestThenOldestFirst

==============================================================================
