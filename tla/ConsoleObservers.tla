--------------------------- MODULE ConsoleObservers ---------------------------
(***************************************************************************)
(* The observers and the logs of the console server                        *)
(* (UART1_CONSOLE_server.c): tasks that register to be told of the         *)
(* characters received and written.  The server tells an observer with a   *)
(* Send(), and blocks until it has answered.                               *)
(*                                                                         *)
(* An observer that itself waits for the server then waits for ever, and   *)
(* so does the server: this stops the model, as it stops the program.  It  *)
(* can happen whenever a registered observer calls the server, to          *)
(* unregister too.  No task of the image registers.                        *)
(***************************************************************************)
EXTENDS Integers, Sequences, SequencesExt, FiniteSetsExt

CONSTANTS
  ConsoleTasks,            \* tids that observe and write
  NotifierTid,
  MAX_CONSOLE_OBSERVERS, CONSOLE_LOG_SIZE,
  MaxConsoleChars, MaxObserverCalls  \* bounds: characters received, calls made

VARIABLES
  observers,    \* the array, up to observer_count
  logs,         \* rx_log and tx_log
  serving,      \* the message the server handles, and the next observer to tell
  uart1Inbox,   \* messages it has not received
  task,         \* each task: "runs", or the call it is in
  heard,        \* what each task has been told
  due,          \* history: what it was to be told, since it was answered
  consoleCount  \* history: characters received and calls made

observerVars == <<observers, logs, serving, uart1Inbox, task, heard, due, consoleCount>>

RX == "rx"
TX == "tx"
Masks == {{RX}, {TX}, {RX, TX}}
NotServing == [msg |-> [type |-> "none", tid |-> 0, ch |-> 0, mask |-> {}], i |-> 0]
ConsoleMsg(type, tid, ch, mask) == [type |-> type, tid |-> tid, ch |-> ch, mask |-> mask]

ObserversInit ==
  /\ observers = <<>>
  /\ logs = [e \in {RX, TX} |-> <<>>]
  /\ serving = NotServing
  /\ uart1Inbox = <<>>
  /\ task = [t \in ConsoleTasks |-> "runs"]
  /\ heard = [t \in ConsoleTasks |-> <<>>]
  /\ due = [t \in ConsoleTasks |-> [mask |-> {}, all |-> <<>>]]
  /\ consoleCount = [chars |-> 0, calls |-> 0]

-----------------------------------------------------------------------------
(* Callers. *)

\* A character comes from the notifier, which is answered at once.
NotifierSends ==
  /\ consoleCount.chars < MaxConsoleChars
  /\ ~\E i \in DOMAIN uart1Inbox : uart1Inbox[i].tid = NotifierTid
  /\ consoleCount' = [consoleCount EXCEPT !.chars = @ + 1]
  /\ uart1Inbox' = Append(uart1Inbox, ConsoleMsg(RX, NotifierTid, consoleCount.chars + 1, {}))
  /\ UNCHANGED <<observers, logs, serving, task, heard, due>>

Asks(t, type, ch, mask) ==
  /\ task[t] = "runs" /\ consoleCount.calls < MaxObserverCalls
  /\ consoleCount' = [consoleCount EXCEPT !.calls = @ + 1]
  /\ task' = [task EXCEPT ![t] = type]
  /\ uart1Inbox' = Append(uart1Inbox, ConsoleMsg(type, t, ch, mask))
  /\ UNCHANGED <<observers, logs, serving, heard, due>>

ConsolePutc(t) == Asks(t, TX, consoleCount.calls + 1, {})
ConsoleObserve(t) == \E mask \in Masks : Asks(t, "observe", 0, mask)
ConsoleUnobserve(t) == Asks(t, "unobserve", 0, {})

\* A task receives the notification that is for it, and answers it.
IsTold(t) ==
  /\ task[t] = "runs" /\ serving.i \in DOMAIN observers /\ observers[serving.i].tid = t
  /\ serving.msg.type \in observers[serving.i].mask
  /\ heard' = [heard EXCEPT ![t] = Append(@, serving.msg.ch)]
  /\ serving' = [serving EXCEPT !.i = @ + 1]
  /\ UNCHANGED <<observers, logs, uart1Inbox, task, due, consoleCount>>

-----------------------------------------------------------------------------
(* The server. *)

\* rx_log_push, tx_log_push: the oldest character goes when the log is full.
Logged(log, ch) == IF Len(log) < CONSOLE_LOG_SIZE THEN Append(log, ch) ELSE Append(Tail(log), ch)

register_observer(tid, mask) ==
  LET I == {i \in DOMAIN observers : observers[i].tid = tid}
  IN  IF I # {} THEN [observers EXCEPT ![Min(I)].mask = mask]
      ELSE IF Len(observers) >= MAX_CONSOLE_OBSERVERS THEN observers
      ELSE Append(observers, [tid |-> tid, mask |-> mask])

\* Seeded fault: the last one goes, whoever asked.
DropsTheLast(tid) == IF observers = <<>> THEN observers ELSE Front(observers)

\* The last observer takes the place of the one that goes.
unregister_observer(tid) ==
  LET I == {i \in DOMAIN observers : observers[i].tid = tid}
  IN  IF I = {} THEN observers ELSE Front([observers EXCEPT ![Min(I)] = Last(observers)])

\* A character: logged, then told to the observers it concerns.
ServesChar(msg) ==
  /\ msg.type \in {RX, TX}
  /\ logs' = [logs EXCEPT ![msg.type] = Logged(@, msg.ch)]
  /\ serving' = [msg |-> msg, i |-> 1]
  /\ due' = [t \in ConsoleTasks |->
               IF msg.type \in due[t].mask THEN [due[t] EXCEPT !.all = Append(@, msg.ch)] ELSE due[t]]
  /\ UNCHANGED <<observers, task>>

ServesObserver(msg) ==
  /\ msg.type \in {"observe", "unobserve"}
  /\ observers' = IF msg.type = "observe" THEN register_observer(msg.tid, msg.mask)
                  ELSE unregister_observer(msg.tid)
  /\ task' = [task EXCEPT ![msg.tid] = "runs"]
  /\ due' = IF msg.type = "observe" /\ Len(observers) >= MAX_CONSOLE_OBSERVERS
               /\ ~\E i \in DOMAIN observers : observers[i].tid = msg.tid
            THEN due ELSE [due EXCEPT ![msg.tid].mask = msg.mask]
  /\ UNCHANGED <<logs, serving>>

Uart1Receives ==
  /\ serving.i = 0 /\ uart1Inbox # <<>>
  /\ uart1Inbox' = Tail(uart1Inbox)
  /\ ServesChar(Head(uart1Inbox)) \/ ServesObserver(Head(uart1Inbox))
  /\ UNCHANGED <<heard, consoleCount>>

\* An observer that does not ask for this event is passed over.
PassesOver ==
  /\ serving.i \in DOMAIN observers
  /\ serving.msg.type \notin observers[serving.i].mask
  /\ serving' = [serving EXCEPT !.i = @ + 1]
  /\ UNCHANGED <<observers, logs, uart1Inbox, task, heard, due, consoleCount>>

\* All have been told; a task that wrote is answered.
Told ==
  /\ serving.i > Len(observers)
  /\ serving' = NotServing
  /\ task' = IF serving.msg.type = TX THEN [task EXCEPT ![serving.msg.tid] = "runs"] ELSE task
  /\ UNCHANGED <<observers, logs, uart1Inbox, heard, due, consoleCount>>

ObserversNext ==
  \/ NotifierSends \/ Uart1Receives \/ PassesOver \/ Told
  \/ \E t \in ConsoleTasks :
       ConsolePutc(t) \/ ConsoleObserve(t) \/ ConsoleUnobserve(t) \/ IsTold(t)

ObserversSpec == ObserversInit /\ [][ObserversNext]_observerVars

-----------------------------------------------------------------------------
(* Properties. *)

\* From the answer to ConsoleObserve() to that to ConsoleUnobserve() a task is
\* told every character of its kind once, in the order of the logs, and nothing
\* else; the server is behind by at most the character it is telling.
ObserversHearAll ==
  \A t \in ConsoleTasks :
    \/ heard[t] = due[t].all
    \/ /\ serving.msg.type \in due[t].mask
       /\ Append(heard[t], serving.msg.ch) = due[t].all
=============================================================================
