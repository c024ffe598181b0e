----------------------------- MODULE ApuServer ------------------------------
(***************************************************************************)
(* Jobs for the accelerator cores: a client's APUBatch(), the server task  *)
(* of each core, the job slot it shares with the core, and the completion  *)
(* interrupt on its way back (apu_client.c, apu_core_server.c, accel.c,    *)
(* syscall.c).                                                             *)
(*                                                                         *)
(* Core and server run at the same time.  The core clears the slot before  *)
(* it raises its interrupt, so a fast job's interrupt may come when its    *)
(* server has already answered; it then stays queued as a stale event.     *)
(*                                                                         *)
(* A job is known by the client it is for.  Left out: the direct path of   *)
(* APUDispatch() and APUBatch() without a server, and the answer to a      *)
(* malformed request: kmain starts the servers at a better priority than   *)
(* any client's, and the client stubs only send DISPATCH.                  *)
(***************************************************************************)
EXTENDS Integers, Sequences, FiniteSets

CONSTANTS
  ApuClients,
  Cores,      \* the accelerator cores, 1..APU_BATCH_MAX
  MaxBatches  \* bound: calls of APUBatch()

ASSUME ApuAssumption ==
  /\ IsFiniteSet(Cores) /\ Cores = 1..Cardinality(Cores) /\ Cores # {}
  /\ MaxBatches \in Nat
  /\ 0 \notin ApuClients

NoJob == 0

VARIABLES
  fn,         \* accel_jobs[k].fn: the job in core k's slot, or NULL
  worker,     \* where core k's loop is, and the job it read from the slot
  sgi,        \* core k's completion interrupt is pending at core 0
  done_q,     \* AWAIT_INTERRUPT[APUk_DONE_EVENT].eventq_len
  apu_server, \* where core k's server is, and the client it serves
  apu_inbox,  \* clients whose request the server has not received
  batch,      \* a client's call: its jobs are for cores 1..n, the next is `next'
  sends,      \* a client blocks in Send()
  ran,        \* history: how often the jobs of a client's call ran, by core
  batches     \* history: calls made

apuVars == <<fn, worker, sgi, done_q, apu_server, apu_inbox, batch, sends, ran, batches>>
coreVars == <<fn, worker, sgi, ran>>
serverVars == <<done_q, apu_server, apu_inbox>>
clientVars == <<batch, sends, batches>>

NoBatch == [n |-> 0, next |-> 1]

AInit ==
  /\ fn = [k \in Cores |-> NoJob]
  /\ worker = [k \in Cores |-> [at |-> "waits", job |-> NoJob]]
  /\ sgi = [k \in Cores |-> FALSE]
  /\ done_q = [k \in Cores |-> 0]
  /\ apu_server = [k \in Cores |-> [at |-> "receives", client |-> NoJob]]
  /\ apu_inbox = [k \in Cores |-> <<>>]
  /\ batch = [c \in ApuClients |-> NoBatch]
  /\ sends = [c \in ApuClients |-> FALSE]
  /\ ran = [c \in ApuClients |-> [k \in Cores |-> 0]]
  /\ batches = 0

(***************************************************************************)
(* The core: secondary_worker_c()                                          *)
(***************************************************************************)
WorkerTakes(k) ==
  /\ worker[k].at = "waits" /\ fn[k] # NoJob
  /\ worker' = [worker EXCEPT ![k] = [at |-> "runs", job |-> fn[k]]]
  /\ UNCHANGED <<fn, sgi, ran, serverVars, clientVars>>

WorkerRuns(k) ==
  /\ worker[k].at = "runs"
  /\ ran' = [ran EXCEPT ![worker[k].job][k] = @ + 1]
  /\ worker' = [worker EXCEPT ![k].at = "ran"]
  /\ UNCHANGED <<fn, sgi, serverVars, clientVars>>

Clears(k, from, to) ==
  /\ worker[k].at = from
  /\ fn' = [fn EXCEPT ![k] = NoJob]
  /\ worker' = [worker EXCEPT ![k] = [at |-> to, job |-> NoJob]]
  /\ UNCHANGED <<sgi, ran, serverVars, clientVars>>

\* A pending software interrupt is pending once.
Signals(k, from, to) ==
  /\ worker[k].at = from
  /\ sgi' = [sgi EXCEPT ![k] = TRUE]
  /\ worker' = [worker EXCEPT ![k] = [at |-> to, job |-> NoJob]]
  /\ UNCHANGED <<fn, ran, serverVars, clientVars>>

WorkerCompletes(k) == Clears(k, "ran", "signals") \/ Signals(k, "signals", "waits")

\* Seeded fault: an interrupt that finds no task waiting is lost.
ApuIRQDropped(k) ==
  /\ sgi[k]
  /\ sgi' = [sgi EXCEPT ![k] = FALSE]
  /\ apu_server' = IF apu_server[k].at = "awaits"
                   THEN [apu_server EXCEPT ![k].at = "checks"] ELSE apu_server
  /\ UNCHANGED <<fn, worker, ran, done_q, apu_inbox, clientVars>>

\* Core 0 takes the interrupt: the server is woken, or the event queued.
ApuDoneIRQ(k) ==
  /\ sgi[k]
  /\ sgi' = [sgi EXCEPT ![k] = FALSE]
  /\ IF apu_server[k].at = "awaits"
     THEN /\ apu_server' = [apu_server EXCEPT ![k].at = "checks"]
          /\ UNCHANGED done_q
     ELSE /\ done_q' = [done_q EXCEPT ![k] = @ + 1]
          /\ UNCHANGED apu_server
  /\ UNCHANGED <<fn, worker, ran, apu_inbox, clientVars>>

(***************************************************************************)
(* The server of a core: apu_core_server_loop()                            *)
(***************************************************************************)

\* Receive(), then accel_dispatch().
ServerDispatches(k) ==
  /\ apu_server[k].at = "receives" /\ apu_inbox[k] # <<>>
  /\ apu_inbox' = [apu_inbox EXCEPT ![k] = Tail(@)]
  /\ fn' = [fn EXCEPT ![k] = Head(apu_inbox[k])]
  /\ apu_server' = [apu_server EXCEPT ![k] = [at |-> "checks", client |-> Head(apu_inbox[k])]]
  /\ UNCHANGED <<worker, sgi, ran, done_q, clientVars>>

ServerReplies(k) ==
  LET c == apu_server[k].client
  IN /\ apu_server' = [apu_server EXCEPT ![k] = [at |-> "receives", client |-> NoJob]]
     /\ sends' = [sends EXCEPT ![c] = FALSE]

\* accel_is_busy(): the answer may be stale when AwaitEvent() is called.
ServerChecks(k) ==
  /\ apu_server[k].at = "checks"
  /\ IF fn[k] = NoJob
     THEN ServerReplies(k)
     ELSE apu_server' = [apu_server EXCEPT ![k].at = "calls"] /\ UNCHANGED sends
  /\ UNCHANGED <<coreVars, done_q, apu_inbox, batch, batches>>

\* Seeded fault: an event is taken for the completion of the job at hand.
ServerTrustsEvent(k) ==
  /\ apu_server[k].at = "calls"
  /\ IF done_q[k] > 0
     THEN ServerReplies(k) /\ done_q' = [done_q EXCEPT ![k] = @ - 1]
     ELSE /\ apu_server' = [apu_server EXCEPT ![k].at = "awaits"]
          /\ UNCHANGED <<sends, done_q>>
  /\ UNCHANGED <<coreVars, apu_inbox, batch, batches>>

\* AwaitEvent() takes a queued event, stale or not, or blocks.
ServerAwaits(k) ==
  /\ apu_server[k].at = "calls"
  /\ IF done_q[k] > 0
     THEN /\ done_q' = [done_q EXCEPT ![k] = @ - 1]
          /\ apu_server' = [apu_server EXCEPT ![k].at = "checks"]
     ELSE /\ apu_server' = [apu_server EXCEPT ![k].at = "awaits"]
          /\ UNCHANGED done_q
  /\ UNCHANGED <<coreVars, apu_inbox, clientVars>>

(***************************************************************************)
(* A client: APUBatch() sends job i to the server of core i, one at a time *)
(***************************************************************************)
BatchStarts(c, n) ==
  /\ batch[c] = NoBatch /\ batches < MaxBatches
  /\ batch' = [batch EXCEPT ![c] = [n |-> n, next |-> 1]]
  /\ ran' = [ran EXCEPT ![c] = [k \in Cores |-> 0]]
  /\ batches' = batches + 1
  /\ UNCHANGED <<fn, worker, sgi, serverVars, sends>>

BatchSends(c) ==
  LET k == batch[c].next
  IN /\ ~sends[c] /\ k <= batch[c].n
     /\ sends' = [sends EXCEPT ![c] = TRUE]
     /\ apu_inbox' = [apu_inbox EXCEPT ![k] = Append(@, c)]
     /\ batch' = [batch EXCEPT ![c].next = k + 1]
     /\ UNCHANGED <<coreVars, done_q, apu_server, batches>>

BatchReturns(c) ==
  /\ ~sends[c] /\ batch[c].n > 0 /\ batch[c].next > batch[c].n
  /\ batch' = [batch EXCEPT ![c] = NoBatch]
  /\ UNCHANGED <<coreVars, serverVars, sends, batches>>

ANext ==
  \/ \E k \in Cores :
       \/ WorkerTakes(k) \/ WorkerRuns(k) \/ WorkerCompletes(k) \/ ApuDoneIRQ(k)
       \/ ServerDispatches(k) \/ ServerChecks(k) \/ ServerAwaits(k)
  \/ \E c \in ApuClients :
       \/ \E n \in Cores : BatchStarts(c, n)
       \/ BatchSends(c) \/ BatchReturns(c)

\* The cores run by themselves, jobs end, and core 0 takes its interrupts in
\* every task; the servers go before their clients, which loop over their jobs.
AFairness ==
  /\ \A k \in Cores :
       /\ WF_apuVars(WorkerTakes(k) \/ WorkerRuns(k) \/ WorkerCompletes(k))
       /\ WF_apuVars(ApuDoneIRQ(k))
       /\ WF_apuVars(ServerDispatches(k) \/ ServerChecks(k) \/ ServerAwaits(k))
  /\ \A c \in ApuClients : WF_apuVars(BatchSends(c) \/ BatchReturns(c))

ASpec == AInit /\ [][ANext]_apuVars /\ AFairness

-----------------------------------------------------------------------------

\* A core runs a client's job at most once, and has run it exactly once when
\* its server goes back to Receive(): a client is not answered early, because
\* of a stale event, nor is its job run again.
RanOnceWhenAnswered ==
  /\ \A c \in ApuClients, k \in Cores : ran[c][k] <= 1
  /\ \A c \in ApuClients : \A k \in 1..(batch[c].next - 1) :
       (~sends[c] \/ k < batch[c].next - 1) => ran[c][k] = 1

\* A job slot is filled only when it is empty and the core has let go of the
\* job before it: no job is overwritten, and no core clears another's.
SlotIsFreeWhenFilled ==
  [][\A k \in Cores :
       (fn'[k] # fn[k] /\ fn'[k] # NoJob) =>
         fn[k] = NoJob /\ worker[k].at \in {"waits", "signals"}]_apuVars

\* Every call of APUBatch() returns.
BatchEnds == \A c \in ApuClients : (batch[c] # NoBatch) ~> (batch[c] = NoBatch)
=============================================================================
