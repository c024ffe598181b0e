----------------------------- MODULE Rendezvous -----------------------------
(***************************************************************************)
(* The kernel under the tasks SmpOS really runs.  Every service loops on   *)
(* Receive and replies to the tids Receive gave it, each once; a task does *)
(* not send to itself, and exits only when nobody waits for it             *)
(* (nameserver.c, clockserver.c, rps.c, apu_core_server.c, marklin.c).     *)
(* Under this discipline Send/Receive/Reply is a rendezvous.               *)
(***************************************************************************)
EXTENDS Kernel

CONSTANT Servers  \* tasks that answer each request before the next Receive

ASSUME RendezvousAssumption ==
  /\ Servers \subseteq (1..Len(Boot)) \ {Idle}
  /\ NUMPROCS < QUEUESIZE

VARIABLES
  sent_to,  \* PROCS[t].message_sent.tid; 0 before the first Send
  owed      \* tids a task got from Receive and has not replied to

rvVars == <<vars, sent_to, owed>>

RInit ==
  /\ Init
  /\ sent_to = [t \in Tids |-> 0]
  /\ owed = [t \in Tids |-> {}]

\* The tid Receive hands to task r.
Hands(r, sender) == owed' = [owed EXCEPT ![r] = @ \cup {sender}]

IsServer == PID \in Servers

RExit ==
  /\ ~IsServer
  /\ owed[PID] = {} /\ mailbox[PID] = <<>>
  /\ Kill
  /\ UNCHANGED <<sent_to, owed>>

RSchedule ==
  /\ \/ Yield
     \/ /\ ~IsServer
        /\ \/ \E t \in FreeSlots, prio \in Priorities : KernelCreate(t, prio)
           \/ KernelCreateFails
     \/ EventStep
  /\ UNCHANGED <<sent_to, owed>>

RSend(dest) ==
  /\ ~IsServer
  /\ dest # PID
  /\ \/ /\ SendRefused(dest)
        /\ UNCHANGED <<sent_to, owed>>
     \/ /\ SendQueues(dest)
        /\ sent_to' = [sent_to EXCEPT ![PID] = dest]
        /\ UNCHANGED owed
     \/ /\ SendDelivers(dest)
        /\ sent_to' = [sent_to EXCEPT ![PID] = dest]
        /\ Hands(dest, Head(Append(mailbox[dest], PID)))

RReceive ==
  /\ IsServer => owed[PID] = {}
  /\ UNCHANGED sent_to
  /\ \/ ReceiveParks /\ UNCHANGED owed
     \/ ReceivePops /\ Hands(PID, Head(mailbox[PID]))

RReply(dest) ==
  /\ PID # NoTask
  /\ dest \in owed[PID]
  /\ ReplyRefused(dest) \/ ReplyWakes(dest)
  /\ owed' = [owed EXCEPT ![PID] = @ \ {dest}]
  /\ UNCHANGED sent_to

RNext ==
  \/ RExit
  \/ RSchedule
  \/ \E dest \in Tids : RSend(dest)
  \/ RReceive
  \/ \E dest \in Tids : RReply(dest)

RSpec == RInit /\ [][RNext]_rvVars

(***************************************************************************)
(* Fairness.  Equal priorities are served in the order they were enqueued  *)
(* (module ReadyHeap), so a task that is again and again one of the best   *)
(* to run is run; and an interrupt cannot preempt a server for ever before *)
(* its next system call.                                                   *)
(***************************************************************************)
Runs(s) == RNext /\ PID' = s
ServerCall(s) == PID = s /\ (RReceive \/ \E dest \in Tids : RReply(dest))

FairRSpec ==
  /\ RSpec
  /\ \A s \in Servers : SF_rvVars(Runs(s)) /\ SF_rvVars(ServerCall(s))

-----------------------------------------------------------------------------
\* The mailbox positions that hold a message of task t, and its holders.
Posts(t) == {p \in Tids \X (1..QUEUESIZE) :
               p[2] \in DOMAIN mailbox[p[1]] /\ mailbox[p[1]][p[2]] = t}
Holders(t) == {s \in Tids : t \in owed[s]}

\* A task waits for a reply exactly when its message is either in one mailbox,
\* once, or has been received by one task that has not replied; and that
\* task is the one it was sent to.  No message is lost, delivered twice or
\* answered by another task, and no reply is refused.  Nor does a ring ever
\* fill: head == tail always means empty, and Send never returns -2.
MessagesConserved ==
  \A t \in Tids :
    /\ Len(mailbox[t]) < NUMPROCS
    /\ Cardinality(Posts(t)) + Cardinality(Holders(t)) = waiting_reply[t]
    /\ \A p \in Posts(t) : p[1] = sent_to[t]
    /\ \A s \in Holders(t) : s = sent_to[t]

\* The tids a sender is behind in its destination's mailbox.
Ahead(s, t) == {mailbox[s][i] : i \in {j \in DOMAIN mailbox[s] :
                  \A k \in 1..j : mailbox[s][k] # t}}

\* "Messages should be processed in FIFO order"
\* (layer2-messaging/tests/README.md): nobody overtakes a queued message.
NoOvertaking ==
  [][\A s, t \in Tids :
       (t \in Range(mailbox[s]) /\ t \in Range(mailbox'[s])) =>
          Ahead(s, t)' \subseteq Ahead(s, t)]_rvVars

\* A message a server holds is one of a task that still waits for it:
\* every accepted Send to a server is answered.
SendIsAnswered ==
  \A t \in Tids :
    (waiting_reply[t] = 1 /\ sent_to[t] \in Servers) ~> (waiting_reply[t] = 0)
=============================================================================
