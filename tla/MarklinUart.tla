---------------------------- MODULE MarklinUart -----------------------------
(***************************************************************************)
(* The serial line of UART2 to the train hardware: its interrupts          *)
(* (syscall.c), the kernel's event queue, io_notifier, the Marklin server  *)
(* of UART2 (UART2_MARKLIN_server.c) and clients in Putc(), Getc() and     *)
(* awaitCTS() (io_api.c).                                                  *)
(*                                                                         *)
(* A byte goes out only when the box is ready for it: its line CTS must    *)
(* have gone low and high again since the byte before.  The server learns  *)
(* of this by events, and counts in putc_state: 1 ready, 0 byte written,   *)
(* 2 transmit interrupt seen, 3 CTS low seen.  TX interrupts are masked    *)
(* (rpi.c, enable_RX_and_TX), but the handler looks at the raw status, so  *)
(* a transmission is reported with the next interrupt of the line.         *)
(*                                                                         *)
(* External: the UART, without FIFOs, and the box.  The box takes          *)
(* milliseconds where an interrupt takes microseconds: it neither raises   *)
(* CTS nor sends a byte while an interrupt of its last action is pending.  *)
(***************************************************************************)
EXTENDS NameServer, SequencesExt

CONSTANTS
  Clients,   \* tids of the tasks that use the line
  MaxCalls,  \* bound: calls the clients make
  MaxRx      \* bound: bytes the box sends of itself

VARIABLES
  uart,    \* external: the transmit and receive registers, raw TXIC, RXIC, CTSMIM
  cts,     \* external: the line CTS, 0 or 1
  box,     \* external: "ready", "busy", or "takes" the byte on the line
  sent,    \* history: how many bytes the box has sent
  event_q, \* events no task waited for
  notif,   \* io_notifier: where it is, and its event
  server,  \* UART2_MARKLIN_server: registered, its call lists, putc_state, awaitcts
  inbox,   \* messages the server has not received
  client,  \* what each client waits for: "runs", "putc", "getc" or "cts"
  calls,   \* history: calls made
  got      \* history: bytes returned by Getc()

marklinVars == <<ns_table, uart, cts, box, sent, event_q, notif, server, inbox, client, calls, got>>
device == <<uart, cts, box, sent>>
history == <<calls, got>>

NsTid == 1
NotifTid == 2
ServerTid == 3
NoByte == 0

ASSUME MarklinAssumption ==
  NS_MAX_NAMES \in Nat /\ Clients \subseteq Nat \ {NsTid, NotifTid, ServerTid}

Event(type, val) == [type |-> type, val |-> val]
Nothing == Event("none", NoByte)
Msg(tid, type, val) == [tid |-> tid, type |-> type, val |-> val]

MInit ==
  /\ ns_table = <<[name |-> "name_server", tid |-> NsTid]>>
  /\ uart = [tx |-> FALSE, rx |-> NoByte, TXIC |-> FALSE, RXIC |-> FALSE, CTSMIM |-> FALSE]
  /\ cts = 1 /\ box = "ready" /\ sent = 0
  /\ event_q = <<>>
  /\ notif = [at |-> "starts", event |-> Nothing]
  /\ server = [up |-> FALSE, putc |-> <<>>, putc_state |-> 1, getc |-> <<>>, rx |-> <<>>,
               awaitcts |-> [v \in {0, 1} |-> <<>>]]
  /\ inbox = <<>>
  /\ client = [c \in Clients |-> "runs"]
  /\ calls = 0 /\ got = <<>>

-----------------------------------------------------------------------------
(* External: the line and the box. *)

BoxTakesByte ==
  /\ uart.tx /\ box # "takes"
  /\ uart' = [uart EXCEPT !.tx = FALSE, !.TXIC = TRUE]
  /\ box' = "takes"
  /\ UNCHANGED <<ns_table, cts, sent, event_q, notif, server, inbox, client, history>>

CtsFalls ==
  /\ box = "takes" /\ cts = 1
  /\ cts' = 0 /\ box' = "busy"
  /\ uart' = [uart EXCEPT !.CTSMIM = TRUE]
  /\ UNCHANGED <<ns_table, sent, event_q, notif, server, inbox, client, history>>

CtsRises ==
  /\ box = "busy" /\ ~uart.CTSMIM
  /\ cts' = 1 /\ box' = "ready"
  /\ uart' = [uart EXCEPT !.CTSMIM = TRUE]
  /\ UNCHANGED <<ns_table, sent, event_q, notif, server, inbox, client, history>>

BoxSends ==
  /\ sent < MaxRx /\ uart.rx = NoByte /\ ~uart.RXIC
  /\ sent' = sent + 1
  /\ uart' = [uart EXCEPT !.rx = sent + 1, !.RXIC = TRUE]
  /\ UNCHANGED <<ns_table, cts, box, event_q, notif, server, inbox, client, history>>

-----------------------------------------------------------------------------
(* The interrupt handler, and io_notifier. *)

\* unblock_return: the event goes to the notifier or into the queue.
Delivers(e) ==
  IF notif.at = "awaits"
  THEN notif' = [at |-> "looks up", event |-> e] /\ UNCHANGED event_q
  ELSE event_q' = Append(event_q, e) /\ UNCHANGED notif

\* RXIC and CTSMIM are unmasked.  One cause is served, TXIC before the others;
\* an interrupt that is still pending comes again.
MarklinIRQ ==
  /\ uart.RXIC \/ uart.CTSMIM
  /\ CASE uart.TXIC -> /\ Delivers(Event("TXIC", NoByte))
                       /\ uart' = [uart EXCEPT !.TXIC = FALSE]
       [] ~uart.TXIC /\ uart.RXIC -> /\ Delivers(Event("RXIC", uart.rx))
                                     /\ uart' = [uart EXCEPT !.RXIC = FALSE, !.rx = NoByte]
       [] OTHER -> /\ Delivers(Event("CTSMIM", cts))
                   /\ uart' = [uart EXCEPT !.CTSMIM = FALSE]
  /\ UNCHANGED <<ns_table, cts, box, sent, server, inbox, client, history>>

NotifierRegisters ==
  /\ notif.at = "starts"
  /\ ns_table' = ns_add("io_notifier", NotifTid)
  /\ notif' = [notif EXCEPT !.at = "calls"]
  /\ UNCHANGED <<device, event_q, server, inbox, client, history>>

\* AwaitEvent(UARTINTER)
NotifierAwaits ==
  /\ notif.at = "calls"
  /\ IF event_q = <<>>
     THEN notif' = [notif EXCEPT !.at = "awaits"] /\ UNCHANGED event_q
     ELSE notif' = [at |-> "looks up", event |-> Head(event_q)] /\ event_q' = Tail(event_q)
  /\ UNCHANGED <<ns_table, device, server, inbox, client, history>>

\* Seeded fault: transmit events are not passed on.
DropsTXIC ==
  /\ notif.at = "looks up"
  /\ IF ns_find("Uart2Marklin") > 0 /\ notif.event.type # "TXIC"
     THEN /\ notif' = [notif EXCEPT !.at = "sends"]
          /\ inbox' = Append(inbox, Msg(NotifTid, notif.event.type, notif.event.val))
     ELSE /\ notif' = [at |-> "calls", event |-> Nothing]
          /\ UNCHANGED inbox
  /\ UNCHANGED <<ns_table, device, event_q, server, client, history>>

\* An event that comes before the server has registered is dropped.
NotifierForwards ==
  /\ notif.at = "looks up"
  /\ IF ns_find("Uart2Marklin") > 0
     THEN /\ notif' = [notif EXCEPT !.at = "sends"]
          /\ inbox' = Append(inbox, Msg(NotifTid, notif.event.type, notif.event.val))
     ELSE /\ notif' = [at |-> "calls", event |-> Nothing]
          /\ UNCHANGED inbox
  /\ UNCHANGED <<ns_table, device, event_q, server, client, history>>

-----------------------------------------------------------------------------
(* Clients. *)

Asks(c, type, val, wait) ==
  /\ client[c] = "runs" /\ calls < MaxCalls
  /\ ns_find("Uart2Marklin") = ServerTid
  /\ inbox' = Append(inbox, Msg(c, type, val))
  /\ client' = [client EXCEPT ![c] = wait]
  /\ calls' = calls + 1
  /\ UNCHANGED <<ns_table, device, event_q, notif, server, got>>

Putc(c) == Asks(c, "PUTC", NoByte, "putc")
Getc(c) == Asks(c, "GETC", NoByte, "getc")
awaitCTS(c) == \E v \in {0, 1} : Asks(c, "CTS", v, "cts")

-----------------------------------------------------------------------------
(* The server.  It handles one message in three parts: the event or call   *)
(* itself, the start of the putc at the head of the list, and the answers. *)

\* Seeded fault: the transmit interrupt answers the putc.
AnswersAtTXIC(sv, m) ==
  IF m.type = "TXIC" /\ sv.putc # <<>> /\ sv.putc_state = 0 THEN [sv EXCEPT !.putc_state = 4]
  ELSE sv

\* The putc handshake.  State 4 stands for an entry in putc_interrupt_list:
\* the putc at the head is answered in this pass, which makes the state 1.
Handshake(sv, m) ==
  CASE m.type = "CTSMIM" /\ m.val = 1 /\ sv.putc # <<>> /\ sv.putc_state = 3 ->
         [sv EXCEPT !.putc_state = 4]
    [] m.type = "CTSMIM" /\ m.val = 0 /\ sv.putc # <<>> /\ sv.putc_state = 2 ->
         [sv EXCEPT !.putc_state = 3]
    [] m.type = "TXIC" /\ sv.putc # <<>> /\ sv.putc_state = 0 -> [sv EXCEPT !.putc_state = 2]
    [] OTHER -> sv

\* Seeded fault: a byte received is put before those that wait.
EnqueuesFirst(sv, m) ==
  CASE m.type = "RXIC" -> [sv EXCEPT !.rx = <<m.val>> \o @]
    [] m.type = "GETC" -> [sv EXCEPT !.getc = Append(@, m.tid)]
    [] m.type = "PUTC" -> [sv EXCEPT !.putc = Append(@, m.tid)]
    [] OTHER -> sv

Enqueues(sv, m) ==
  CASE m.type = "RXIC" -> [sv EXCEPT !.rx = Append(@, m.val)]
    [] m.type = "GETC" -> [sv EXCEPT !.getc = Append(@, m.tid)]
    [] m.type = "PUTC" -> [sv EXCEPT !.putc = Append(@, m.tid)]
    [] OTHER -> sv

\* Seeded fault: a client is made to wait for the value CTS already has.
WaitsAnyhow(sv, m) ==
  CASE m.type = "CTSMIM" -> [sv EXCEPT !.awaitcts[cts] = <<>>]
    [] m.type = "CTS" -> [sv EXCEPT !.awaitcts[m.val] = Append(@, m.tid)]
    [] OTHER -> sv

\* On a change of CTS those who wait for the value it has now are answered.
AwaitsCts(sv, m) ==
  CASE m.type = "CTSMIM" -> [sv EXCEPT !.awaitcts[cts] = <<>>]
    [] m.type = "CTS" /\ m.val # cts -> [sv EXCEPT !.awaitcts[m.val] = Append(@, m.tid)]
    [] OTHER -> sv

CtsAnswered(m) ==
  CASE m.type = "CTSMIM" -> Range(server.awaitcts[cts])
    [] m.type = "CTS" /\ m.val = cts -> {m.tid}
    [] OTHER -> {}

\* uart_putc of the head of the list, if the line is ready.
Starts(sv) == sv.putc # <<>> /\ sv.putc_state = 1

PutcAnswered(sv) == sv.putc # <<>> /\ sv.putc_state = 4
GetcAnswered(sv) == sv.getc # <<>> /\ sv.rx # <<>>

ServerRegisters ==
  /\ ~server.up
  /\ server' = [server EXCEPT !.up = TRUE]
  /\ ns_table' = ns_add("Uart2Marklin", ServerTid)
  /\ UNCHANGED <<device, event_q, notif, inbox, client, history>>

ServerHandles ==
  /\ server.up /\ inbox # <<>>
  /\ LET m == Head(inbox)
         heard == AwaitsCts(Enqueues(Handshake(server, m), m), m)
         started == IF Starts(heard) THEN [heard EXCEPT !.putc_state = 0] ELSE heard
         putDone == IF PutcAnswered(started) THEN {Head(started.putc)} ELSE {}
         getDone == IF GetcAnswered(started) THEN {Head(started.getc)} ELSE {}
         done == CtsAnswered(m) \cup putDone \cup getDone
     IN  /\ uart' = IF Starts(heard) THEN [uart EXCEPT !.tx = TRUE] ELSE uart
         /\ server' =
              [started EXCEPT
                 !.putc = IF putDone = {} THEN @ ELSE Tail(@),
                 !.putc_state = IF putDone = {} THEN @ ELSE 1,
                 !.getc = IF getDone = {} THEN @ ELSE Tail(@),
                 !.rx = IF getDone = {} THEN @ ELSE Tail(@)]
         /\ client' = [c \in Clients |-> IF c \in done THEN "runs" ELSE client[c]]
         /\ got' = IF getDone = {} THEN got ELSE Append(got, Head(started.rx))
         /\ notif' = IF m.tid = ns_find("io_notifier")
                     THEN [at |-> "calls", event |-> Nothing] ELSE notif
  /\ inbox' = Tail(inbox)
  /\ UNCHANGED <<ns_table, cts, box, sent, event_q, calls>>

-----------------------------------------------------------------------------

Line == BoxTakesByte \/ CtsFalls \/ CtsRises
Notifier == NotifierRegisters \/ NotifierAwaits \/ NotifierForwards
Server == ServerRegisters \/ ServerHandles
Client == \E c \in Clients : Putc(c) \/ Getc(c) \/ awaitCTS(c)

MNext == Line \/ BoxSends \/ MarklinIRQ \/ Notifier \/ Server \/ Client

\* The box finishes what it began, interrupts are taken, and the notifier and
\* the server, of equal priority and first in first out, run.
MFairness ==
  /\ WF_marklinVars(Line) /\ WF_marklinVars(MarklinIRQ)
  /\ WF_marklinVars(Notifier) /\ WF_marklinVars(Server)

MSpec == MInit /\ [][MNext]_marklinVars
MFairSpec == MSpec /\ MFairness

-----------------------------------------------------------------------------
(* Properties. *)

\* A byte is written only when the box is ready: the byte before has left the
\* register, and CTS has been low and is high again.
NoOverrun ==
  [][uart'.tx /\ ~uart.tx => box = "ready" /\ cts = 1 /\ ~uart.TXIC]_marklinVars

\* The bytes on their way from the interrupt to the server, and where they are:
\* in the inbox, at the notifier, in the event queue or in the register.
Pending ==
  LET bytes(place, q) == {[place |-> place, nth |-> i, byte |-> q[i].val] :
                            i \in {j \in DOMAIN q : q[j].type = "RXIC"}}
  IN  bytes(1, inbox)
      \cup bytes(2, IF notif.at = "looks up" THEN <<notif.event>> ELSE <<>>)
      \cup bytes(3, event_q)
      \cup bytes(4, IF uart.RXIC THEN <<Event("RXIC", uart.rx)>> ELSE <<>>)

Before(p, q) == p.place < q.place \/ (p.place = q.place /\ p.nth < q.nth)

\* Once the server is there, it has the bytes from some byte on, in the order in
\* which the box sent them, and each later byte is in one place on its way, no
\* byte behind a later one: what was not lost before is not lost or doubled.
BytesInOrder ==
  server.up =>
    LET received == got \o server.rx
    IN  \E n \in 0..(sent - Len(received)) :
          /\ \A i \in DOMAIN received : received[i] = n + i
          /\ {p.byte : p \in Pending} = (n + Len(received) + 1)..sent
          /\ \A p, q \in Pending : Before(p, q) => p.byte < q.byte

\* No client is left waiting for the value CTS has, once the server knows of
\* the last change.
CtsWaiterIsWoken ==
  event_q = <<>> /\ notif.at = "awaits" /\ inbox = <<>> /\ ~uart.CTSMIM =>
    server.awaitcts[cts] = <<>>

\* A putc whose byte was written is answered: no event of the handshake is lost
\* or comes too early.
PutcFinishes == server.putc_state # 1 ~> server.putc_state = 1
=============================================================================
