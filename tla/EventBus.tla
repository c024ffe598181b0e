------------------------------ MODULE EventBus -------------------------------
(***************************************************************************)
(* Topics and their observers (eventbus.c, observer.c).  A subscription    *)
(* takes an entry of the pool of its kind, "fn" for a callback and "tid"   *)
(* for a task that gets a message, and attaches it to the subject of the   *)
(* topic.  kmain initialises the bus; no task of the image uses it yet.    *)
(*                                                                         *)
(* The calls of several tasks: each call is one step (no task is           *)
(* interrupted in the middle of a change), except publishing, which blocks *)
(* in the Send() to a task while others go on, subscribe and detach; an    *)
(* interrupt may let them do so between two callbacks as well.  One        *)
(* publish is followed at a time: publishes change nothing that another    *)
(* one reads.                                                              *)
(***************************************************************************)
EXTENDS Integers, Sequences, FiniteSetsExt, Functions

CONSTANTS
  TopicNames, Observers,
  EVENTBUS_MAX_TOPICS, EVENTBUS_MAX_OBS, SUBJECT_MAX_OBS,
  MaxBusCalls  \* bound: subscriptions made

ASSUME BusAssumption ==
  EVENTBUS_MAX_TOPICS \in Nat /\ EVENTBUS_MAX_OBS \in Nat /\ SUBJECT_MAX_OBS \in Nat

VARIABLES
  g_topics,  \* the topics in use: [name, obs, count], obs with its unused slots
  pool,      \* the entries in use of both pools: [topic_idx, who]
  publisher, \* subject_notify(): topic, next observer, count when it began
  told,      \* history: the entries that this publish has updated
  joined     \* history: subscriptions made

busVars == <<g_topics, pool, publisher, told, joined>>

Kinds == {"fn", "tid"}
BusEntries == Kinds \X (1..EVENTBUS_MAX_OBS)
NoEntry == <<"fn", 0>>
NotPublishing ==
  [topic |-> 0, i |-> 0, n |-> 0, obs |-> <<>>, left |-> {}, came |-> {}, refilled |-> FALSE]

\* eventbus_init: topics in use are the first ones, as none is ever given back.
BusInit ==
  /\ g_topics = <<>>
  /\ pool = [e \in {} |-> [topic_idx |-> 0, who |-> "none"]]
  /\ publisher = NotPublishing /\ told = <<>> /\ joined = 0

\* 0 if there is no such topic.  (A name of 32 characters or more is cut when it
\* is stored and never found again; TopicNames are shorter.)
find_topic(topics, name) ==
  LET I == {i \in DOMAIN topics : topics[i].name = name}
  IN  IF I = {} THEN 0 ELSE Min(I)

subject_init(name) == [name |-> name, obs |-> [i \in 1..SUBJECT_MAX_OBS |-> NoEntry], count |-> 0]

\* The topics with this one among them, unless the pool of topics is full.
find_or_create_topic(name) ==
  IF find_topic(g_topics, name) = 0 /\ Len(g_topics) < EVENTBUS_MAX_TOPICS
  THEN Append(g_topics, subject_init(name)) ELSE g_topics

Attached(t) == {t.obs[i] : i \in 1..t.count}

subject_attach(t, e) ==
  IF e \in Attached(t) \/ t.count >= SUBJECT_MAX_OBS THEN t
  ELSE [t EXCEPT !.obs[t.count + 1] = e, !.count = @ + 1]

\* Seeded fault: the last one is not moved into the gap.
JustShrinks(t, e) == IF e \in Attached(t) THEN [t EXCEPT !.count = @ - 1] ELSE t

\* The last one takes the place of the one that leaves; its own stays as it was.
subject_detach(t, e) ==
  LET I == {i \in 1..t.count : t.obs[i] = e}
  IN  IF I = {} THEN t ELSE [t EXCEPT !.obs[Min(I)] = t.obs[t.count], !.count = @ - 1]

\* Only properties read what this keeps of a publish under way: who has left its
\* subject since it began, who has come, and whether one came after one had left.
Noted(p, was, is) ==
  [p EXCEPT !.left = @ \cup (was \ is), !.came = @ \cup (is \ was),
            !.refilled = @ \/ (p.left # {} /\ is \ was # {})]

TracksChanges ==
  publisher' =
    IF publisher = NotPublishing THEN publisher
    ELSE Noted(publisher, Attached(g_topics[publisher.topic]),
                          Attached(g_topics'[publisher.topic]))

\* eventbus_subscribe_fn and _tid.  The entry stays taken when the subject has
\* no room for it (the caller gets -1).
Subscribes(kind, name, who) ==
  /\ joined < MaxBusCalls
  /\ joined' = joined + 1
  /\ LET topics == find_or_create_topic(name)
         t == find_topic(topics, name)
         free == {i \in 1..EVENTBUS_MAX_OBS : <<kind, i>> \notin DOMAIN pool}
     IN  IF t = 0 \/ free = {}
         THEN g_topics' = topics /\ UNCHANGED pool
         ELSE LET e == <<kind, Min(free)>>
              IN  /\ g_topics' = [topics EXCEPT ![t] = subject_attach(@, e)]
                  /\ pool' = [x \in DOMAIN pool \cup {e} |->
                                IF x = e THEN [topic_idx |-> t, who |-> who] ELSE pool[x]]
  /\ TracksChanges
  /\ UNCHANGED told

\* eventbus_detach_fn and _tid: the first entry of this observer and topic.
Detaches(kind, name, who) ==
  LET t == find_topic(g_topics, name)
      I == {i \in 1..EVENTBUS_MAX_OBS :
              <<kind, i>> \in DOMAIN pool /\ pool[<<kind, i>>] = [topic_idx |-> t, who |-> who]}
      e == <<kind, Min(I)>>
  IN  /\ t # 0 /\ I # {}
      /\ g_topics' = [g_topics EXCEPT ![t] = subject_detach(@, e)]
      /\ pool' = Restrict(pool, DOMAIN pool \ {e})
      /\ TracksChanges
      /\ UNCHANGED <<told, joined>>

\* eventbus_publish: subject_notify takes the count once.  obs, which only a
\* property reads, is what was attached then.
Publishes(name) ==
  /\ publisher = NotPublishing /\ find_topic(g_topics, name) # 0
  /\ LET t == g_topics[find_topic(g_topics, name)]
     IN  publisher' = [NotPublishing EXCEPT
                         !.topic = find_topic(g_topics, name), !.i = 1, !.n = t.count,
                         !.obs = SubSeq([i \in 1..SUBJECT_MAX_OBS |-> t.obs[i]], 1, t.count)]
  /\ told' = <<>>
  /\ UNCHANGED <<g_topics, pool, joined>>

\* Seeded fault: the count is read again before each update().
Recounts ==
  /\ publisher # NotPublishing
  /\ IF publisher.i > g_topics[publisher.topic].count
     THEN publisher' = NotPublishing /\ UNCHANGED told
     ELSE /\ told' = Append(told, g_topics[publisher.topic].obs[publisher.i])
          /\ publisher' = [publisher EXCEPT !.i = @ + 1]
  /\ UNCHANGED <<g_topics, pool, joined>>

\* One update(), of the observer now in the slot, or the end of the loop.
Updates ==
  /\ publisher # NotPublishing
  /\ IF publisher.i > publisher.n
     THEN publisher' = NotPublishing /\ UNCHANGED told
     ELSE /\ told' = Append(told, g_topics[publisher.topic].obs[publisher.i])
          /\ publisher' = [publisher EXCEPT !.i = @ + 1]
  /\ UNCHANGED <<g_topics, pool, joined>>

Detach == \E k \in Kinds, n \in TopicNames, w \in Observers : Detaches(k, n, w)
Subscribe == \E k \in Kinds, n \in TopicNames, w \in Observers : Subscribes(k, n, w)

BusNext == Subscribe \/ Detach \/ (\E n \in TopicNames : Publishes(n)) \/ Updates
BusSpec == BusInit /\ [][BusNext]_busVars

-----------------------------------------------------------------------------
(* Properties. *)

AttachedAreInUse ==
  \A i \in DOMAIN g_topics :
    LET t == g_topics[i]
    IN  /\ \A e \in Attached(t) : e \in DOMAIN pool /\ pool[e].topic_idx = i
        /\ Cardinality(Attached(t)) = t.count

PublishReturns == publisher # NotPublishing /\ publisher' = NotPublishing

\* The observers attached all the time since the publish began.
Stayed == Range(publisher.obs) \ publisher.left

\* No entry is updated that was not attached at some time since it began.  (Its
\* owner may have detached, and the entry belong to another by then.)
OnlyTheAttached == Range(told) \subseteq Range(publisher.obs) \cup publisher.came

\* However often observers come and go, no subject holds an entry that was
\* given back, one of another topic, or one twice.  When a publish returns, and
\* nobody detached from its subject while it was blocked in an update, it has
\* updated those attached when it began, each once and in order.  If some did
\* detach, the last one's old slot, which stays as it was, still makes up for
\* those moved in front of the loop: all who stayed are updated, though maybe
\* twice, as long as no other observer was put into that slot.
ObserversAreServed ==
  /\ []AttachedAreInUse
  /\ [][PublishReturns =>
          /\ publisher.left = {} => told = publisher.obs
          /\ ~publisher.refilled => Stayed \subseteq Range(told)
          /\ OnlyTheAttached]_busVars

\* "A publish() call synchronously invokes every registered observer for that
\* topic" (eventbus.h): all those who stayed until it returns.
EveryObserverIsInvoked == [][PublishReturns => Stayed \subseteq Range(told)]_busVars
=============================================================================
