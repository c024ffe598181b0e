---------------------------- MODULE ConsoleInput ----------------------------
(***************************************************************************)
(* A keystroke's way to the task that reads it: the receive FIFO of the    *)
(* UART, the interrupt handler (syscall.c, ExceptionASYNC), the kernel's   *)
(* event queue, io_notifier, the console server and its two lists, and the *)
(* reader: a shell in ConsoleGetc(), or a game in ConsolePoll().           *)
(*                                                                         *)
(* A character is the number at which it was typed.  Send/Receive/Reply is *)
(* the rendezvous module Rendezvous shows it to be.  The server's logs and *)
(* observers are in ConsoleObservers.                                      *)
(***************************************************************************)
EXTENDS Integers, Sequences, FiniteSets, SequencesExt

CONSTANTS
  RxFifo,       \* depth of the UART's receive FIFO (16)
  EventSlots,   \* slots of the kernel's event queue (NUMPROCS)
  QUEUELENGTH,  \* slots of the console server's lists (100)
  ReadBy,       \* the calls the reader makes: "getc", "poll" or both
  MaxChars,     \* bound: characters typed
  MaxUnread,    \* bound: characters typed ahead of the reader
  MaxPolls      \* bound: characters returned by ConsolePoll()

ASSUME ConsoleAssumption ==
  /\ {RxFifo, EventSlots, QUEUELENGTH} \subseteq Nat \ {0}
  /\ RxFifo <= EventSlots
  /\ ReadBy \subseteq {"getc", "poll"}
  /\ MaxChars \in Nat /\ MaxUnread \in Nat /\ MaxPolls \in Nat

VARIABLES
  typed,       \* characters typed so far
  rx_fifo,     \* the UART's receive FIFO
  event_q,     \* AWAIT_INTERRUPT[UARTINTER]: its ring and head, tail, len
  notifier,    \* where io_notifier is, and the character it holds
  registered,  \* the console server has registered with the name server
  inbox,       \* messages the console server has not received
  interrupts,  \* console_interrupt_list
  calls,       \* length of console_call_list: the reader waits in it
  reader,      \* "runs", or the request the reader waits for
  got,         \* characters ConsoleGetc() returned
  polled,      \* characters ConsolePoll() returned
  dropped,     \* history: characters that arrived before the server registered
  burst        \* history: for each character, those its interrupt drained

conVars == <<typed, rx_fifo, event_q, notifier, registered, inbox, interrupts,
             calls, reader, got, polled, dropped, burst>>
kernelVars == <<typed, rx_fifo, event_q, burst>>
consoleVars == <<interrupts, calls, reader, got, polled>>

Chars == 1..MaxChars
NoChar == 0

\* A ring of n slots, as the kernel and the server lay it out: writing past a
\* full ring is not prevented.
EmptyRing(n) == [q |-> [i \in 0..(n - 1) |-> NoChar], head |-> 0, tail |-> 0, len |-> 0]
Put(r, c) == [q |-> [r.q EXCEPT ![r.tail] = c], head |-> r.head,
              tail |-> (r.tail + 1) % Cardinality(DOMAIN r.q), len |-> r.len + 1]
\* Put() for each of cs, which are no more than the ring has slots.
PutAll(r, cs) ==
  LET n == Cardinality(DOMAIN r.q)
      nth(i) == ((i - r.tail) % n) + 1  \* which of cs slot i gets
  IN  [q |-> [i \in DOMAIN r.q |-> IF nth(i) <= Len(cs) THEN cs[nth(i)] ELSE r.q[i]],
       head |-> r.head, tail |-> (r.tail + Len(cs)) % n, len |-> r.len + Len(cs)]
First(r) == r.q[r.head]
Take(r) == [r EXCEPT !.head = (@ + 1) % Cardinality(DOMAIN r.q), !.len = @ - 1]

CInit ==
  /\ typed = 0
  /\ rx_fifo = <<>>
  /\ event_q = EmptyRing(EventSlots)
  /\ notifier = [at |-> "calls", ch |-> NoChar]
  /\ registered = FALSE
  /\ inbox = <<>>
  /\ interrupts = EmptyRing(QUEUELENGTH)
  /\ calls = 0
  /\ reader = "runs"
  /\ got = <<>>
  /\ polled = <<>>
  /\ dropped = {}
  /\ burst = [c \in Chars |-> {}]

Type ==
  /\ typed < MaxChars /\ Len(rx_fifo) < RxFifo
  /\ typed - Len(got) - Cardinality(dropped) < MaxUnread
  /\ typed' = typed + 1
  /\ rx_fifo' = Append(rx_fifo, typed + 1)
  /\ UNCHANGED <<event_q, notifier, registered, inbox, consoleVars, dropped, burst>>

\* Seeded fault: each character is queued at the head of those drained before.
ReceiveReversed ==
  /\ rx_fifo # <<>>
  /\ rx_fifo' = <<>>
  /\ event_q' = FoldRight(LAMBDA c, r : Put(r, c), rx_fifo, event_q)
  /\ burst' = [c \in Chars |-> IF c \in Range(rx_fifo) THEN Range(rx_fifo) ELSE burst[c]]
  /\ UNCHANGED <<typed, notifier, registered, inbox, consoleVars, dropped>>

\* The receive interrupt reads one character, queues all others the FIFO
\* holds, then hands the first to a waiting notifier or queues it too.
ReceiveIRQ ==
  LET queued == PutAll(event_q, Tail(rx_fifo))
      awaited == notifier.at = "awaits"
  IN /\ rx_fifo # <<>>
     /\ rx_fifo' = <<>>
     /\ event_q' = IF awaited THEN queued ELSE Put(queued, Head(rx_fifo))
     /\ notifier' = IF awaited THEN [at |-> "holds", ch |-> Head(rx_fifo)] ELSE notifier
     /\ burst' = [c \in Chars |-> IF c \in Range(rx_fifo) THEN Range(rx_fifo) ELSE burst[c]]
     /\ UNCHANGED <<typed, registered, inbox, consoleVars, dropped>>

\* Seeded fault: an await that finds an event leaves it in the queue.
AwaitKeepsEvent ==
  /\ notifier.at = "calls"
  /\ notifier' = IF event_q.len # 0 THEN [at |-> "holds", ch |-> First(event_q)]
                 ELSE [at |-> "awaits", ch |-> NoChar]
  /\ UNCHANGED <<kernelVars, registered, inbox, consoleVars, dropped>>

NotifierAwaits ==
  /\ notifier.at = "calls"
  /\ IF event_q.len # 0
     THEN /\ notifier' = [at |-> "holds", ch |-> First(event_q)]
          /\ event_q' = Take(event_q)
     ELSE /\ notifier' = [at |-> "awaits", ch |-> NoChar]
          /\ UNCHANGED event_q
  /\ UNCHANGED <<typed, rx_fifo, burst, registered, inbox, consoleVars, dropped>>

\* WhoIs() after AwaitEvent(): an event for a server that has not registered
\* is dropped.
NotifierForwards ==
  /\ notifier.at = "holds"
  /\ IF registered
     THEN /\ notifier' = [notifier EXCEPT !.at = "sends"]
          /\ inbox' = Append(inbox, "RXIC")
          /\ UNCHANGED dropped
     ELSE /\ notifier' = [at |-> "calls", ch |-> NoChar]
          /\ dropped' = dropped \cup {notifier.ch}
          /\ UNCHANGED inbox
  /\ UNCHANGED <<kernelVars, registered, consoleVars>>

ServerRegisters ==
  /\ ~registered
  /\ registered' = TRUE
  /\ UNCHANGED <<kernelVars, notifier, inbox, consoleVars, dropped>>

\* match_getc() with list `list' and n calls: the oldest character answers the
\* oldest call.
match_getc(list, n) ==
  IF n > 0 /\ list.len > 0
  THEN /\ interrupts' = Take(list)
       /\ calls' = n - 1
       /\ reader' = "runs"
       /\ got' = Append(got, First(list))
  ELSE /\ interrupts' = list
       /\ calls' = n
       /\ UNCHANGED <<reader, got>>

\* Seeded fault: the character is queued, and matched at the next call only.
ServeRXICLater ==
  /\ registered /\ inbox # <<>> /\ Head(inbox) = "RXIC"
  /\ inbox' = Tail(inbox)
  /\ notifier' = [at |-> "calls", ch |-> NoChar]
  /\ interrupts' = Put(interrupts, notifier.ch)
  /\ UNCHANGED <<kernelVars, registered, dropped, calls, reader, got, polled>>

\* The notifier is answered before the character is queued.
ServeRXIC ==
  /\ registered /\ inbox # <<>> /\ Head(inbox) = "RXIC"
  /\ inbox' = Tail(inbox)
  /\ notifier' = [at |-> "calls", ch |-> NoChar]
  /\ match_getc(Put(interrupts, notifier.ch), calls)
  /\ UNCHANGED <<kernelVars, registered, dropped, polled>>

ServeGetc ==
  /\ registered /\ inbox # <<>> /\ Head(inbox) = "getc"
  /\ inbox' = Tail(inbox)
  /\ match_getc(interrupts, calls + 1)
  /\ UNCHANGED <<kernelVars, notifier, registered, dropped, polled>>

\* IO_PEEK: the oldest character is copied, and stays in the list.
ServePeek ==
  /\ registered /\ inbox # <<>> /\ Head(inbox) = "poll"
  /\ inbox' = Tail(inbox)
  /\ reader' = "runs"
  /\ polled' = IF interrupts.len > 0 THEN Append(polled, First(interrupts)) ELSE polled
  /\ UNCHANGED <<kernelVars, notifier, registered, dropped, interrupts, calls, got>>

\* The reader finds the server through WhoIs(), then asks: term_readline() with
\* ConsoleGetc(), ui_read_key() with ConsolePoll().
ReaderAsks(call) ==
  /\ registered
  /\ call \in ReadBy
  /\ reader = "runs"
  /\ reader' = call
  /\ inbox' = Append(inbox, call)
  /\ UNCHANGED <<kernelVars, notifier, registered, dropped, interrupts, calls, got, polled>>

ReaderGets == ReaderAsks("getc")
ReaderPolls == Len(polled) < MaxPolls /\ ReaderAsks("poll")

CNext ==
  \/ Type \/ ReceiveIRQ
  \/ NotifierAwaits \/ NotifierForwards
  \/ ServerRegisters \/ ServeRXIC \/ ServeGetc \/ ServePeek
  \/ ReaderGets \/ ReaderPolls

\* Interrupts are unmasked in every task, and the tasks of this path are
\* scheduled first in, first out, so each gets to do its next step; a shell
\* reads its next character again and again.
CFairness ==
  /\ WF_conVars(ReceiveIRQ)
  /\ WF_conVars(NotifierAwaits) /\ WF_conVars(NotifierForwards)
  /\ WF_conVars(ServerRegisters)
  /\ WF_conVars(ServeRXIC \/ ServeGetc \/ ServePeek)
  /\ SF_conVars(ReaderGets)

CSpec == CInit /\ [][CNext]_conVars /\ CFairness

-----------------------------------------------------------------------------
Positions(r) == {i \in DOMAIN r.q : (i - r.head) % Cardinality(DOMAIN r.q) < r.len}

\* The places a character can be.
Places(c) ==
  {<<"uart", i>> : i \in {j \in DOMAIN rx_fifo : rx_fifo[j] = c}} \cup
  {<<"kernel", i>> : i \in {j \in Positions(event_q) : event_q.q[j] = c}} \cup
  {<<"notifier", i>> : i \in {j \in {1} : notifier.ch = c}} \cup
  {<<"server", i>> : i \in {j \in Positions(interrupts) : interrupts.q[j] = c}} \cup
  {<<"read", i>> : i \in {j \in DOMAIN got : got[j] = c}} \cup
  {<<"dropped", i>> : i \in {j \in {1} : c \in dropped}}

\* Every character typed is in exactly one place on its way, or was read once,
\* or dropped because no server had registered: none is lost between the
\* interrupt handler, the notifier and the server, none is read twice.
EachCharInOnePlace == \A c \in 1..typed : Cardinality(Places(c)) = 1

\* Characters are read in the order they were typed, except that the first one
\* of an interrupt may come after others the same interrupt drained.
InOrderUpToBurst ==
  \A i, j \in DOMAIN got :
    (i < j /\ got[i] > got[j]) =>
      /\ got[i] \in burst[got[j]]
      /\ \A c \in burst[got[j]] : got[j] <= c

\* A character the notifier finds a server for is read in the end.
EveryKeyIsRead == \A c \in Chars : (c <= typed) ~> (c \in Range(got) \cup dropped)

\* shell_readline(): "Read one line from the console": the characters of a
\* line are read in the order in which they were typed.
KeysInOrder == \A i, j \in DOMAIN got : i < j => got[i] <= got[j]
=============================================================================
