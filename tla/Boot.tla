-------------------------------- MODULE Boot ---------------------------------
(***************************************************************************)
(* The start of the system: kmain() (main.c) creates the tasks and leaves  *)
(* them to the scheduler; each registers with the name server, and those   *)
(* of the UARTs look each other up.  Only the part of a task up to its     *)
(* main loop matters here, and the loops of io_notifier and of the two     *)
(* UART servers.  A step of a task goes up to its next system call; an     *)
(* interrupt may come before any step, and puts the task behind the others *)
(* of its priority.                                                        *)
(***************************************************************************)
EXTENDS NameServer, SequencesExt

CONSTANT MaxInterrupts  \* bound: interrupts during the start

VARIABLES
  ready,      \* the ready heap: tids in the order in which they were enqueued
  at,         \* where each task goes on when it runs
  inbox,      \* messages a task has not received
  held,       \* the message a task has received
  answer,     \* what the last Send() of a task returned
  knows,      \* a UART server's io_notifier_tid; io_notifier's tids of the servers
  event_q,    \* the queued UART events, each the channel it is for
  event,      \* the event io_notifier holds
  ns_tid,     \* the name server, as RegisterAs() and WhoIs() know it
  interrupts  \* history: how many there were

bootVars == <<ns_table, ready, at, inbox, held, answer, knows, event_q, event, ns_tid, interrupts>>

Ns == 1
Notifier == 2
Uart2 == 3
Uart1 == 4
Services == 5..10  \* three APU servers, clock, RPS and Marklin server
Idle == 11
Shell == 12
Tids == 1..12
UartServers == {Uart1, Uart2}

\* A server is known by its tid, and so the tid stands for its name.
Priority == <<0, 0, 0, 0, 4, 4, 4, 5, 6, 6, 255, 20>>

\* In the order of kmain's creations.
Created == <<Ns, Notifier, Uart2, Uart1, 5, 6, 7, 8, 9, 10, Idle, Shell>>

Unknown == -1
NoMessage == [tid |-> 0, type |-> "none", name |-> 0]

\* Seeded fault: the name server is known only when it has run.
TidNotSet == -1

\* NameServerSetTid: kmain sets the tid before any task runs.
NameServerTid == Ns

BootInit ==
  /\ ns_table = <<>>
  /\ ready = Created
  /\ at = [t \in Tids |-> "starts"]
  /\ inbox = [t \in Tids |-> <<>>]
  /\ held = [t \in Tids |-> NoMessage]
  /\ answer = [t \in Tids |-> Unknown]
  /\ knows = [t \in UartServers \cup {Notifier} |-> [u \in UartServers |-> Unknown]]
  /\ event_q = <<>> /\ event = "none"
  /\ ns_tid = NameServerTid
  /\ interrupts = 0

\* The task that runs: of the best priority the one enqueued first.
Top ==
  LET best == Min({Priority[t] : t \in Range(ready)})
  IN  ready[Min({i \in DOMAIN ready : Priority[ready[i]] = best})]
Others == SelectSeq(ready, LAMBDA t : t # Top)
Requeues == ready' = Append(Others, Top)
GoesTo(next) == at' = [at EXCEPT ![Top] = next]

-----------------------------------------------------------------------------
(* System calls of the task that runs. *)

\* It goes on at `next' when it is answered.  A receiver that waits has the
\* message at once.
Sends(dest, m, next) ==
  IF at[dest] = "parked"
  THEN /\ at' = [at EXCEPT ![Top] = next, ![dest] = "got"]
       /\ held' = [held EXCEPT ![dest] = m]
       /\ ready' = Append(Others, dest)
       /\ UNCHANGED inbox
  ELSE /\ GoesTo(next)
       /\ inbox' = [inbox EXCEPT ![dest] = Append(@, m)]
       /\ ready' = Others
       /\ UNCHANGED held

Receives ==
  /\ IF inbox[Top] = <<>>
     THEN GoesTo("parked") /\ ready' = Others /\ UNCHANGED <<inbox, held>>
     ELSE /\ GoesTo("got")
          /\ held' = [held EXCEPT ![Top] = Head(inbox[Top])]
          /\ inbox' = [inbox EXCEPT ![Top] = Tail(@)]
          /\ Requeues
  /\ UNCHANGED <<answer, knows>>

Replies(dest, value, next) ==
  /\ answer' = [answer EXCEPT ![dest] = value]
  /\ ready' = Append(Append(Others, Top), dest)
  /\ GoesTo(next)
  /\ UNCHANGED <<inbox, held>>

\* RegisterAs and WhoIs, which do nothing as long as the server is not known.
Calls(type, name, next) ==
  IF ns_tid < 0
  THEN /\ GoesTo(next)
       /\ answer' = [answer EXCEPT ![Top] = Unknown]
       /\ UNCHANGED <<ready, inbox, held>>
  ELSE Sends(ns_tid, [tid |-> Top, type |-> type, name |-> name], next) /\ UNCHANGED answer

-----------------------------------------------------------------------------
(* Tasks. *)

\* MyTid() yields; only then the server knows itself and takes messages.
NameServerSteps ==
  /\ Top = Ns
  /\ \/ /\ at[Ns] = "starts" /\ GoesTo("named") /\ Requeues
        /\ UNCHANGED <<ns_table, ns_tid, inbox, held, answer, knows>>
     \/ /\ at[Ns] = "named" /\ ns_tid' = Ns /\ ns_table' = ns_add(Ns, Ns)
        /\ Receives
     \/ /\ at[Ns] = "got"
        /\ LET m == held[Ns]
           IN  /\ ns_table' = IF m.type = "REGISTER" THEN ns_add(m.name, m.tid) ELSE ns_table
               /\ Replies(m.tid, IF m.type = "WHOIS" THEN ns_find(m.name) ELSE 0, "serves")
        /\ UNCHANGED <<ns_tid, knows>>
     \/ at[Ns] = "serves" /\ Receives /\ UNCHANGED <<ns_table, ns_tid>>
  /\ UNCHANGED <<event_q, event>>

\* APU, clock, RPS and Marklin server: MyTid(), RegisterAs(), Receive().
ServiceSteps ==
  /\ Top \in Services
  /\ \/ at[Top] = "starts" /\ GoesTo("named") /\ Requeues /\ UNCHANGED <<inbox, held, answer, knows>>
     \/ at[Top] = "named" /\ Calls("REGISTER", Top, "serves") /\ UNCHANGED knows
     \/ at[Top] = "serves" /\ Receives
  /\ UNCHANGED <<ns_table, ns_tid, event_q, event>>

\* Before every Receive() the server asks for io_notifier's tid, and answers a
\* message only if it is from that tid.
UartServerSteps ==
  /\ Top \in UartServers
  /\ \/ at[Top] = "starts" /\ Calls("REGISTER", Top, "asks") /\ UNCHANGED knows
     \/ at[Top] = "asks" /\ Calls("WHOIS", Notifier, "serves") /\ UNCHANGED knows
     \/ /\ at[Top] = "serves" /\ knows[Top][Top] # answer[Top]
        /\ knows' = [knows EXCEPT ![Top][Top] = answer[Top]]
        /\ UNCHANGED <<ready, at, inbox, held, answer>>
     \/ at[Top] = "serves" /\ knows[Top][Top] = answer[Top] /\ Receives
     \/ /\ at[Top] = "got" /\ UNCHANGED knows
        /\ IF held[Top].tid = knows[Top][Top] THEN Replies(held[Top].tid, 0, "asks")
           ELSE GoesTo("asks") /\ UNCHANGED <<ready, inbox, held, answer>>
  /\ UNCHANGED <<ns_table, ns_tid, event_q, event>>

\* The tids are looked up after AwaitEvent(), until they are known.
NotifierAwaits ==
  /\ Top = Notifier /\ at[Notifier] = "calls"
  /\ IF event_q = <<>>
     THEN GoesTo("awaits") /\ ready' = Others /\ UNCHANGED <<event_q, event>>
     ELSE GoesTo("asks Uart1") /\ Requeues /\ event' = Head(event_q) /\ event_q' = Tail(event_q)
  /\ UNCHANGED <<ns_table, ns_tid, inbox, held, answer, knows>>

NotifierLooksUp(u, asks, hears, next) ==
  /\ Top = Notifier
  /\ \/ at[Notifier] = asks /\ knows[Notifier][u] <= 0 /\ Calls("WHOIS", u, hears) /\ UNCHANGED knows
     \/ /\ at[Notifier] = asks /\ knows[Notifier][u] > 0 /\ GoesTo(next)
        /\ UNCHANGED <<ready, inbox, held, answer, knows>>
     \/ /\ at[Notifier] = hears /\ GoesTo(next)
        /\ knows' = [knows EXCEPT ![Notifier][u] = answer[Notifier]]
        /\ UNCHANGED <<ready, inbox, held, answer>>
  /\ UNCHANGED <<ns_table, ns_tid, event_q, event>>

\* An event for a server that has not registered is dropped.
NotifierForwards ==
  /\ Top = Notifier /\ at[Notifier] = "forwards"
  /\ LET dest == knows[Notifier][IF event = "console" THEN Uart1 ELSE Uart2]
     IN  IF dest > 0 THEN Sends(dest, [tid |-> Notifier, type |-> event, name |-> 0], "calls")
         ELSE GoesTo("calls") /\ UNCHANGED <<ready, inbox, held>>
  /\ event' = "none"
  /\ UNCHANGED <<ns_table, ns_tid, answer, knows, event_q>>

NotifierSteps ==
  \/ /\ Top = Notifier /\ at[Notifier] = "starts" /\ Calls("REGISTER", Notifier, "calls")
     /\ UNCHANGED <<ns_table, ns_tid, knows, event_q, event>>
  \/ NotifierAwaits
  \/ NotifierLooksUp(Uart1, "asks Uart1", "hears Uart1", "asks Uart2")
  \/ NotifierLooksUp(Uart2, "asks Uart2", "hears Uart2", "forwards")
  \/ NotifierForwards

\* term_getc(): it looks the console server up and waits for a character.
ShellSteps ==
  /\ Top = Shell
  /\ \/ at[Shell] = "starts" /\ Calls("WHOIS", Uart1, "knows")
     \/ /\ at[Shell] = "knows" /\ answer[Shell] > 0 /\ UNCHANGED answer
        /\ Sends(answer[Shell], [tid |-> Shell, type |-> "IO_GETC", name |-> 0], "reads")
  /\ UNCHANGED <<ns_table, ns_tid, knows, event_q, event>>

\* The timer, or a UART with an event for one of the channels.
Interrupt(source) ==
  /\ interrupts < MaxInterrupts
  /\ interrupts' = interrupts + 1
  /\ IF source # "timer" /\ at[Notifier] = "awaits"
     THEN /\ at' = [at EXCEPT ![Notifier] = "asks Uart1"] /\ event' = source
          /\ ready' = Append(Append(Others, Top), Notifier)
          /\ UNCHANGED event_q
     ELSE /\ Requeues
          /\ event_q' = IF source = "timer" THEN event_q ELSE Append(event_q, source)
          /\ UNCHANGED <<at, event>>
  /\ UNCHANGED <<ns_table, ns_tid, inbox, held, answer, knows>>

BootNext ==
  \/ /\ NameServerSteps \/ ServiceSteps \/ UartServerSteps \/ NotifierSteps \/ ShellSteps
     /\ UNCHANGED interrupts
  \/ \E source \in {"timer", "console", "marklin"} : Interrupt(source)

-----------------------------------------------------------------------------
(* Properties. *)

\* A task that begins to run finds every server of a better priority in the
\* name server's table, however calls and up to MaxInterrupts interrupts have
\* put those behind their equals.
BetterAreRegistered ==
  at[Top] = "starts" =>
    \A s \in {Ns, Notifier} \cup UartServers \cup Services :
      Priority[s] < Priority[Top] => ns_find(s) = s

\* "Register synchronously so UART1_CONSOLE_server's WhoIs("io_notifier")
\* resolves before our first Send" (io_notifier.c): when the console server
\* receives an event it knows from whom; else it does not answer, and
\* io_notifier is blocked for ever.
NotifierIsKnown ==
  at[Uart1] = "got" /\ held[Uart1].tid = Notifier => knows[Uart1][Uart1] = Notifier
=============================================================================
