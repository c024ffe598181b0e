--------------------------- MODULE MarklinProofs ----------------------------
(***************************************************************************)
(* The Marklin line, proved for any number of clients and calls: no byte   *)
(* is written before the box is ready, nobody is left waiting for a value  *)
(* that CTS has, and the bytes the box sends keep their order.             *)
(*                                                                         *)
(* A byte takes the box through three changes: it takes the byte, CTS      *)
(* falls, CTS rises.  Each is reported once, and the reports are handled   *)
(* in this order.  So it is enough to count: the box is Done() changes     *)
(* ahead of the byte, the server has Heard() of some of them, and those in *)
(* between are under way, each in one place and each behind the one before.*)
(* The other events, messages and calls do not matter, however they        *)
(* interleave with these.                                                  *)
(***************************************************************************)
EXTENDS MarklinUart, QueueLemmas

EventType == [type : {"none", "TXIC", "RXIC", "CTSMIM"}, val : Nat]
MsgType == [tid : Clients, type : {"PUTC", "GETC", "CTS"}, val : {0, 1}]
           \cup [tid : {NotifTid}, type : {"none", "TXIC", "RXIC", "CTSMIM"}, val : Nat]
ServerType == [up : BOOLEAN, putc : Seq(Clients), putc_state : 0..4, getc : Seq(Clients),
               rx : Seq(Nat), awaitcts : [{0, 1} -> Seq(Clients)]]
Rows == {[name |-> "name_server", tid |-> NsTid], [name |-> "io_notifier", tid |-> NotifTid],
         [name |-> "Uart2Marklin", tid |-> ServerTid]}

MarklinTypeOK ==
  /\ ns_table \in Seq(Rows)
  /\ uart \in [tx : BOOLEAN, rx : Nat, TXIC : BOOLEAN, RXIC : BOOLEAN, CTSMIM : BOOLEAN]
  /\ cts \in {0, 1} /\ box \in {"ready", "busy", "takes"} /\ sent \in Nat
  /\ event_q \in Seq(EventType)
  /\ notif \in [at : {"starts", "calls", "awaits", "looks up", "sends"}, event : EventType]
  /\ server \in ServerType
  /\ inbox \in Seq(MsgType)
  /\ client \in [Clients -> {"runs", "putc", "getc", "cts"}]
  /\ calls \in Nat /\ got \in Seq(Nat)

Named(name) == \E i \in DOMAIN ns_table : ns_table[i].name = name

\* The server has registered.
Known == Named("Uart2Marklin")

\* The change of the box that an event reports: 1 the byte is taken, 2 CTS
\* falls, 3 CTS rises; 0 none.
Change(e) == CASE e.type = "TXIC" -> 1
               [] e.type = "CTSMIM" /\ e.val = 0 -> 2
               [] e.type = "CTSMIM" /\ e.val = 1 -> 3
               [] OTHER -> 0

\* How far the box is with the last byte written, and how far the server knows.
Done == IF uart.tx THEN 0 ELSE CASE box = "takes" -> 1 [] box = "busy" -> 2 [] OTHER -> 3
Heard == CASE server.putc_state = 0 -> 0 [] server.putc_state = 2 -> 1
           [] server.putc_state = 3 -> 2 [] OTHER -> 3

InInbox(k) == \E i \in DOMAIN inbox : inbox[i].tid = NotifTid /\ Change(inbox[i]) = k
WithNotifier(k) == notif.at = "looks up" /\ Change(notif.event) = k
InQueue(k) == \E i \in DOMAIN event_q : Change(event_q[i]) = k
Raised(k) == (k = 1 /\ uart.TXIC) \/ (k = Done /\ k # 1 /\ uart.CTSMIM)

\* The places a report passes, first the last.
Under(place, k) == CASE place = 1 -> InInbox(k)
                     [] place = 2 -> WithNotifier(k)
                     [] place = 3 -> InQueue(k)
                     [] OTHER -> Raised(k)

BoxInv ==
  /\ uart.tx => box = "ready"
  /\ cts = IF box = "busy" THEN 0 ELSE 1
  /\ uart.CTSMIM => Done \in {2, 3}
  /\ uart.TXIC => Done # 0

\* The notifier waits while its message is in the inbox, and sleeps only when
\* no event is queued.
MessageInv ==
  /\ notif.at = "awaits" => event_q = <<>>
  /\ \A i \in DOMAIN inbox : inbox[i].tid = NotifTid => notif.at = "sends"
  /\ \A i, j \in DOMAIN inbox : inbox[i].tid = NotifTid /\ inbox[j].tid = NotifTid => i = j

ServerInv ==
  /\ server.putc_state # 4
  /\ server.putc_state # 1 => server.putc # <<>>
  /\ ~Known => server.putc_state = 1 /\ server.awaitcts[0] = <<>> /\ server.awaitcts[1] = <<>>
               /\ inbox = <<>>

ReportInv ==
  /\ Heard <= Done
  /\ \A k \in 1..3 : (\E p \in 1..4 : Under(p, k)) <=> Heard < k /\ k <= Done
  /\ \A p, q \in 1..4, k, l \in 1..3 : p < q /\ Under(p, k) /\ Under(q, l) => k < l
  /\ \A i, j \in DOMAIN event_q :
       i < j /\ Change(event_q[i]) # 0 /\ Change(event_q[j]) # 0 =>
         Change(event_q[i]) < Change(event_q[j])

\* Who waits for the value CTS has waits for the report of a change.
WaiterInv == server.awaitcts[cts] # <<>> => Done >= 2 /\ Heard < Done

MInv == MarklinTypeOK /\ BoxInv /\ MessageInv /\ ServerInv /\ ReportInv /\ WaiterInv

LEMMA Counts ==
  /\ Done \in 0..3 /\ Heard \in 0..3
  /\ Done' \in 0..3 /\ Heard' \in 0..3
BY DEF Done, Heard

\* One report, or none (k0 = 0), moves on to a place nearer to the server.
LEMMA MovesOn ==
  ASSUME ReportInv, NEW from \in 1..4, NEW to \in 1..4, to < from, NEW k0 \in 0..3,
         Done' = Done, Heard' = Heard,
         k0 # 0 => Under(from, k0),
         \A k \in 1..3 : Under(from, k) => k0 <= k,
         \A p \in 1..4, k \in 1..3 : to < p /\ p < from => ~Under(p, k),
         \A p \in 1..4, k \in 1..3 :
           Under(p, k)' <=> (Under(p, k) /\ ~(p = from /\ k = k0)) \/ (p = to /\ k = k0),
         \A i, j \in DOMAIN event_q' :
           i < j /\ Change(event_q'[i]) # 0 /\ Change(event_q'[j]) # 0 =>
             Change(event_q'[i]) < Change(event_q'[j])
  PROVE  ReportInv'
<1>1. \A k \in 1..3 : (\E p \in 1..4 : Under(p, k)') <=> (\E p \in 1..4 : Under(p, k))
  OBVIOUS
<1>2. ASSUME NEW p \in 1..4, NEW q \in 1..4, NEW k \in 1..3, NEW l \in 1..3,
             p < q, Under(p, k)', Under(q, l)'
      PROVE  k < l
  <2>1. CASE Under(p, k) /\ Under(q, l)
    BY <1>2, <2>1 DEF ReportInv
  <2>2. CASE p = to /\ k = k0 /\ Under(q, l) /\ ~(q = from /\ l = k0)
    <3>1. CASE q = from
      BY <1>2, <2>2, <3>1
    <3>2. CASE q # from
      BY <1>2, <2>2, <3>2 DEF ReportInv
    <3>3. QED
      BY <3>1, <3>2
  <2>3. CASE q = to /\ l = k0 /\ Under(p, k)
    BY <1>2, <2>3 DEF ReportInv
  <2>4. QED
    BY <1>2, <2>1, <2>2, <2>3
<1>3. QED
  BY <1>1, <1>2 DEF ReportInv

\* The next change of the box is raised.
LEMMA IsRaised ==
  ASSUME ReportInv, Done < 3, Done' = Done + 1, Heard' = Heard, event_q' = event_q,
         \A p \in 1..4, k \in 1..3 :
           Under(p, k)' <=> Under(p, k) \/ (p = 4 /\ k = Done + 1)
  PROVE  ReportInv'
<1>1. Done \in 0..3 /\ Heard \in 0..3 /\ Heard <= Done
  BY Counts DEF ReportInv
<1>2. \A p \in 1..4, k \in 1..3 : Under(p, k) => k <= Done
  BY DEF ReportInv
<1>3. \A k \in 1..3 : (\E p \in 1..4 : Under(p, k)') <=> Heard < k /\ k <= Done + 1
  <2>1. \A k \in 1..3 : (\E p \in 1..4 : Under(p, k)')
                          <=> (\E p \in 1..4 : Under(p, k)) \/ k = Done + 1
    OBVIOUS
  <2>2. \A k \in 1..3 : (Heard < k /\ k <= Done) \/ k = Done + 1 <=> Heard < k /\ k <= Done + 1
    BY <1>1
  <2>3. QED
    BY <2>1, <2>2 DEF ReportInv
<1>4. \A p, q \in 1..4, k, l \in 1..3 : p < q /\ Under(p, k)' /\ Under(q, l)' => k < l
  BY <1>1, <1>2 DEF ReportInv
<1>5. QED
  BY <1>1, <1>3, <1>4 DEF ReportInv

\* The report in the inbox is of the first change the server has not heard of.
LEMMA IsNext ==
  ASSUME ReportInv, NEW k0 \in 1..3, Under(1, k0), \A k \in 1..3 : Under(1, k) => k = k0
  PROVE  k0 = Heard + 1 /\ k0 <= Done
<1>1. Done \in 0..3 /\ Heard \in 0..3 /\ Heard < k0 /\ k0 <= Done
  BY Counts DEF ReportInv
<1>2. Heard + 1 \in 1..3 /\ Heard < Heard + 1 /\ Heard + 1 <= Done
  BY <1>1
<1>3. PICK p \in 1..4 : Under(p, Heard + 1)
  BY <1>2 DEF ReportInv
<1>4. p > 1 => k0 < Heard + 1
  BY <1>2, <1>3 DEF ReportInv
<1>5. QED
  BY <1>1, <1>2, <1>3, <1>4

\* The server hears of it.
LEMMA IsHeard ==
  ASSUME ReportInv, NEW k0 \in 1..3, Under(1, k0), \A k \in 1..3 : Under(1, k) => k = k0,
         Done' = Done, Heard' = Heard + 1, event_q' = event_q,
         \A p \in 1..4, k \in 1..3 : Under(p, k)' <=> p # 1 /\ Under(p, k)
  PROVE  ReportInv'
<1>1. Done \in 0..3 /\ Heard \in 0..3
  BY Counts
<1>2. k0 = Heard + 1 /\ k0 <= Done
  BY IsNext
<1>3. ASSUME NEW k \in 1..3
      PROVE  (\E p \in 1..4 : Under(p, k)') <=> Heard + 1 < k /\ k <= Done
  <2>1. (\E p \in 1..4 : Under(p, k)') <=> (\E p \in 1..4 : Under(p, k)) /\ k # k0
    <3>1. \A p \in 1..4 : p # 1 /\ Under(p, k) => k # k0
      BY DEF ReportInv
    <3>2. QED
      BY <3>1
  <2>2. (\E p \in 1..4 : Under(p, k)) <=> Heard < k /\ k <= Done
    BY DEF ReportInv
  <2>3. QED
    BY <1>1, <1>2, <2>1, <2>2
<1>4. \A p, q \in 1..4, k, l \in 1..3 : p < q /\ Under(p, k)' /\ Under(q, l)' => k < l
  BY DEF ReportInv
<1>5. QED
  BY <1>1, <1>2, <1>3, <1>4 DEF ReportInv

\* A byte is written: nothing is reported yet.
LEMMA Begins ==
  ASSUME ReportInv, Heard = 3, Done' = 0, Heard' = 0, event_q' = event_q,
         \A p \in 1..4, k \in 1..3 : Under(p, k)' => Under(p, k)
  PROVE  ReportInv' /\ Done = 3
<1>1. Done \in 0..3
  BY Counts
<1>2. \A p \in 1..4, k \in 1..3 : ~Under(p, k)
  BY <1>1 DEF ReportInv
<1>3. QED
  BY <1>1, <1>2 DEF ReportInv

-----------------------------------------------------------------------------
(* The table of names. *)

LEMMA RowFacts ==
  ASSUME ns_table \in Seq(Rows), NEW i \in DOMAIN ns_table
  PROVE  /\ ns_table[i].name = "io_notifier" => ns_table[i].tid = NotifTid
         /\ ns_table[i].name = "Uart2Marklin" => ns_table[i].tid = ServerTid
<1>1. ns_table[i] \in Rows
  BY LenProperties, ElementOfSeq
<1>2. QED
  BY <1>1 DEF Rows

LEMMA FindsRow ==
  ASSUME ns_table \in Seq(Rows), NEW name
  PROVE  IF Named(name)
         THEN \E i \in DOMAIN ns_table : ns_table[i].name = name /\ ns_find(name) = ns_table[i].tid
         ELSE ns_find(name) = -1
<1> DEFINE I == {i \in DOMAIN ns_table : ns_table[i].name = name}
<1>1. I \in SUBSET Nat
  BY LenProperties
<1>2. CASE I = {}
  BY <1>2 DEF ns_find, Named
<1>3. CASE I # {}
  <2>1. Min(I) \in I
    <3> HIDE DEF I
    <3>1. QED
      BY <1>1, <1>3, MinIsIn
  <2>2. ns_find(name) = ns_table[Min(I)].tid
    BY <1>3 DEF ns_find
  <2>3. QED
    BY <2>1, <2>2 DEF Named
<1>4. QED
  BY <1>2, <1>3

LEMMA KnownFacts ==
  ASSUME ns_table \in Seq(Rows)
  PROVE  /\ Known => ns_find("Uart2Marklin") = ServerTid
         /\ ~Known => ns_find("Uart2Marklin") = -1
         /\ ns_find("io_notifier") \in {-1, NotifTid}
<1>1. /\ Known => ns_find("Uart2Marklin") = ServerTid
      /\ ~Known => ns_find("Uart2Marklin") = -1
  BY FindsRow, RowFacts DEF Known
<1>2. /\ Named("io_notifier") => ns_find("io_notifier") = NotifTid
      /\ ~Named("io_notifier") => ns_find("io_notifier") = -1
  BY FindsRow, RowFacts
<1>3. QED
  BY <1>1, <1>2

\* A registration adds a row at the end, or nothing.
LEMMA AddsRow ==
  ASSUME ns_table \in Seq(Rows), NEW name, NEW tid, [name |-> name, tid |-> tid] \in Rows,
         ns_table' = ns_add(name, tid)
  PROVE  /\ ns_table' \in Seq(Rows)
         /\ Known => Known'
         /\ Known' => Known \/ name = "Uart2Marklin"
<1> DEFINE row == [name |-> name, tid |-> tid]
<1>1. CASE ns_table' = ns_table
  BY <1>1 DEF Known, Named
<1>2. CASE ns_table' = Append(ns_table, row)
  <2>1. row.name = name
    OBVIOUS
  <2> HIDE DEF row
  <2>2. /\ ns_table' \in Seq(Rows) /\ Len(ns_table') = Len(ns_table) + 1
        /\ \A i \in 1..Len(ns_table) : ns_table'[i] = ns_table[i]
        /\ ns_table'[Len(ns_table) + 1] = row
        /\ Len(ns_table) \in Nat /\ DOMAIN ns_table = 1..Len(ns_table)
    BY <1>2, AppendProperties, LenProperties DEF row
  <2>3. DOMAIN ns_table' = 1..(Len(ns_table) + 1)
    BY <2>2, LenProperties
  <2>4. Known => Known'
    BY <2>2, <2>3 DEF Known, Named
  <2>5. Known' => Known \/ row.name = "Uart2Marklin"
    <3> SUFFICES ASSUME NEW i \in DOMAIN ns_table', ns_table'[i].name = "Uart2Marklin"
                 PROVE  Known \/ row.name = "Uart2Marklin"
      BY DEF Known, Named
    <3>1. i \in DOMAIN ns_table \/ i = Len(ns_table) + 1
      BY <2>2, <2>3
    <3>2. QED
      BY <2>2, <3>1 DEF Known, Named
  <2>6. QED
    BY <2>1, <2>2, <2>4, <2>5
<1>3. ns_table' = ns_table \/ ns_table' = Append(ns_table, row)
  BY DEF ns_add
<1>4. QED
  BY <1>1, <1>2, <1>3

-----------------------------------------------------------------------------
(* Where the reports are, after a step that leaves a place as it is. *)

LEMMA PlaceFacts ==
  ASSUME NEW k
  PROVE  /\ Under(1, k) <=> InInbox(k)
         /\ Under(2, k) <=> WithNotifier(k)
         /\ Under(3, k) <=> InQueue(k)
         /\ Under(4, k) <=> Raised(k)
         /\ Under(1, k)' <=> InInbox(k)'
         /\ Under(2, k)' <=> WithNotifier(k)'
         /\ Under(3, k)' <=> InQueue(k)'
         /\ Under(4, k)' <=> Raised(k)'
BY DEF Under

LEMMA StaysUnder ==
  ASSUME NEW k
  PROVE  /\ inbox' = inbox => (InInbox(k)' <=> InInbox(k))
         /\ notif' = notif => (WithNotifier(k)' <=> WithNotifier(k))
         /\ event_q' = event_q => (InQueue(k)' <=> InQueue(k))
         /\ uart.TXIC' = uart.TXIC /\ uart.CTSMIM' = uart.CTSMIM /\ Done' = Done =>
              (Raised(k)' <=> Raised(k))
BY DEF InInbox, WithNotifier, InQueue, Raised

\* A step that moves no report.
LEMMA NoneMoves ==
  ASSUME ReportInv, Done' = Done, Heard' = Heard, event_q' = event_q,
         \A p \in 1..4, k \in 1..3 : Under(p, k)' <=> Under(p, k)
  PROVE  ReportInv'
BY DEF ReportInv

LEMMA MarklinInitially == MInit => MInv
<1> SUFFICES ASSUME MInit PROVE MInv
  OBVIOUS
<1>1. /\ event_q = <<>> /\ inbox = <<>> /\ cts = 1 /\ box = "ready"
      /\ ~uart.tx /\ ~uart.TXIC /\ ~uart.CTSMIM
      /\ notif.at = "starts" /\ server.putc_state = 1
      /\ server.awaitcts[0] = <<>> /\ server.awaitcts[1] = <<>>
      /\ DOMAIN inbox = {} /\ DOMAIN event_q = {}
  BY DEF MInit
<1>2. MarklinTypeOK
  <2>1. ns_table \in Seq(Rows)
    <3>1. [name |-> "name_server", tid |-> NsTid] \in Rows
      BY DEF Rows
    <3>2. QED
      BY <3>1 DEF MInit
  <2>2. server \in ServerType
    BY EmptySeq DEF MInit, ServerType
  <2>3. notif \in [at : {"starts", "calls", "awaits", "looks up", "sends"}, event : EventType]
    BY DEF MInit, EventType, Nothing, Event, NoByte
  <2>4. QED
    BY <2>1, <2>2, <2>3, EmptySeq DEF MInit, MarklinTypeOK, NoByte
<1>3. Done = 3 /\ Heard = 3
  BY <1>1 DEF Done, Heard
<1>4. \A p \in 1..4, k \in 1..3 : ~Under(p, k)
  BY <1>1 DEF Under, InInbox, WithNotifier, InQueue, Raised
<1>5. ReportInv
  BY <1>1, <1>3, <1>4 DEF ReportInv
<1>6. QED
  BY <1>1, <1>2, <1>3, <1>5 DEF MInv, BoxInv, MessageInv, ServerInv, WaiterInv

-----------------------------------------------------------------------------
(* The line. *)

LEMMA LineKeepsIt ==
  ASSUME MInv, Line
  PROVE  MInv'
<1>1. /\ MarklinTypeOK /\ BoxInv /\ ReportInv
      /\ uart \in [tx : BOOLEAN, rx : Nat, TXIC : BOOLEAN, RXIC : BOOLEAN, CTSMIM : BOOLEAN]
      /\ box \in {"ready", "busy", "takes"}
  BY DEF MInv, MarklinTypeOK
<1>2. /\ UNCHANGED <<ns_table, sent, event_q, notif, server, inbox, client, calls, got>>
      /\ Heard' = Heard
  BY DEF Line, BoxTakesByte, CtsFalls, CtsRises, history, Heard
<1>3. /\ Done' = Done + 1 /\ Done < 3 /\ BoxInv' /\ MarklinTypeOK'
      /\ Raised(1)' <=> Raised(1) \/ Done = 0
      /\ Raised(2)' <=> Raised(2) \/ Done = 1
      /\ Raised(3)' <=> Raised(3) \/ Done = 2
      /\ Done = 0 => cts' = cts
  <2>1. CASE BoxTakesByte
    <3>1. /\ uart' = [uart EXCEPT !.tx = FALSE, !.TXIC = TRUE] /\ box' = "takes" /\ cts' = cts
          /\ uart.tx /\ box # "takes"
      BY <2>1 DEF BoxTakesByte
    <3>2. /\ ~uart'.tx /\ uart'.TXIC /\ (uart'.CTSMIM <=> uart.CTSMIM)
          /\ uart' \in [tx : BOOLEAN, rx : Nat, TXIC : BOOLEAN, RXIC : BOOLEAN, CTSMIM : BOOLEAN]
      BY <1>1, <3>1
    <3>3. Done = 0 /\ Done' = 1 /\ ~uart.CTSMIM /\ box = "ready"
      BY <1>1, <3>1, <3>2 DEF Done, BoxInv
    <3>4. MarklinTypeOK'
      BY <1>1, <1>2, <3>1, <3>2 DEF MarklinTypeOK
    <3>5. BoxInv'
      BY <1>1, <3>1, <3>2, <3>3 DEF BoxInv
    <3>6. /\ Raised(1)' <=> Raised(1) \/ Done = 0
          /\ Raised(2)' <=> Raised(2) \/ Done = 1
          /\ Raised(3)' <=> Raised(3) \/ Done = 2
      BY <3>1, <3>2, <3>3 DEF Raised
    <3>7. QED
      BY <3>1, <3>3, <3>4, <3>5, <3>6
  <2>2. CASE CtsFalls
    <3>1. /\ uart' = [uart EXCEPT !.CTSMIM = TRUE] /\ box = "takes" /\ box' = "busy" /\ cts' = 0
      BY <2>2 DEF CtsFalls
    <3>2. /\ (uart'.tx <=> uart.tx) /\ (uart'.TXIC <=> uart.TXIC) /\ uart'.CTSMIM
          /\ uart' \in [tx : BOOLEAN, rx : Nat, TXIC : BOOLEAN, RXIC : BOOLEAN, CTSMIM : BOOLEAN]
      BY <1>1, <3>1
    <3>3. Done = 1 /\ Done' = 2 /\ ~uart.CTSMIM /\ ~uart.tx
      BY <1>1, <3>1, <3>2 DEF Done, BoxInv
    <3>4. MarklinTypeOK'
      BY <1>1, <1>2, <3>1, <3>2 DEF MarklinTypeOK
    <3>5. BoxInv'
      BY <1>1, <3>1, <3>2, <3>3 DEF BoxInv
    <3>6. /\ Raised(1)' <=> Raised(1) \/ Done = 0
          /\ Raised(2)' <=> Raised(2) \/ Done = 1
          /\ Raised(3)' <=> Raised(3) \/ Done = 2
      BY <3>1, <3>2, <3>3 DEF Raised
    <3>7. QED
      BY <3>1, <3>3, <3>4, <3>5, <3>6
  <2>3. CASE CtsRises
    <3>1. /\ uart' = [uart EXCEPT !.CTSMIM = TRUE] /\ box = "busy" /\ box' = "ready" /\ cts' = 1
          /\ ~uart.CTSMIM
      BY <2>3 DEF CtsRises
    <3>2. /\ (uart'.tx <=> uart.tx) /\ (uart'.TXIC <=> uart.TXIC) /\ uart'.CTSMIM
          /\ uart' \in [tx : BOOLEAN, rx : Nat, TXIC : BOOLEAN, RXIC : BOOLEAN, CTSMIM : BOOLEAN]
      BY <1>1, <3>1
    <3>3. Done = 2 /\ Done' = 3 /\ ~uart.tx
      BY <1>1, <3>1, <3>2 DEF Done, BoxInv
    <3>4. MarklinTypeOK'
      BY <1>1, <1>2, <3>1, <3>2 DEF MarklinTypeOK
    <3>5. BoxInv'
      BY <1>1, <3>1, <3>2, <3>3 DEF BoxInv
    <3>6. /\ Raised(1)' <=> Raised(1) \/ Done = 0
          /\ Raised(2)' <=> Raised(2) \/ Done = 1
          /\ Raised(3)' <=> Raised(3) \/ Done = 2
      BY <3>1, <3>2, <3>3 DEF Raised
    <3>7. QED
      BY <3>1, <3>3, <3>4, <3>5, <3>6
  <2>4. QED
    BY <2>1, <2>2, <2>3 DEF Line
<1>4. Done \in {0, 1, 2} /\ Heard \in 0..3 /\ Heard <= Done
  BY <1>1, <1>3, Counts DEF ReportInv
<1>5. ReportInv'
  <2>1. ASSUME NEW k \in 1..3
        PROVE  /\ Under(1, k)' <=> Under(1, k)
               /\ Under(2, k)' <=> Under(2, k)
               /\ Under(3, k)' <=> Under(3, k)
               /\ Under(4, k)' <=> Under(4, k) \/ k = Done + 1
    <3>1. /\ Raised(k)' <=> Raised(k) \/ k = Done + 1
      <4>1. k = 1 \/ k = 2 \/ k = 3
        OBVIOUS
      <4>2. QED
        BY <1>3, <1>4, <4>1
    <3>2. QED
      BY <1>2, <3>1, PlaceFacts, StaysUnder
  <2>2. \A p \in 1..4, k \in 1..3 :
          Under(p, k)' <=> Under(p, k) \/ (p = 4 /\ k = Done + 1)
    <3>1. \A p \in 1..4 : p = 1 \/ p = 2 \/ p = 3 \/ p = 4
      OBVIOUS
    <3>2. QED
      BY <2>1, <3>1
  <2>3. QED
    BY <1>1, <1>2, <1>3, <2>2, IsRaised
<1>6. WaiterInv'
  <2>1. CASE Done = 0
    <3>1. server.awaitcts[cts] = <<>>
      BY <2>1 DEF MInv, WaiterInv
    <3>2. QED
      BY <1>2, <1>3, <2>1, <3>1 DEF WaiterInv
  <2>2. CASE Done # 0
    <3>1. Done' >= 2 /\ Heard' < Done'
      BY <1>2, <1>3, <1>4, <2>2
    <3>2. QED
      BY <3>1 DEF WaiterInv
  <2>3. QED
    BY <2>1, <2>2
<1>7. MessageInv' /\ ServerInv'
  BY <1>2 DEF MInv, MessageInv, ServerInv, Known, Named
<1>8. QED
  BY <1>3, <1>5, <1>6, <1>7 DEF MInv

LEMMA BoxSendsKeepsIt ==
  ASSUME MInv, BoxSends
  PROVE  MInv'
<1>1. /\ uart' = [uart EXCEPT !.rx = sent + 1, !.RXIC = TRUE]
      /\ UNCHANGED <<ns_table, cts, box, event_q, notif, server, inbox, client, calls, got>>
      /\ sent' = sent + 1 /\ sent \in Nat
      /\ uart \in [tx : BOOLEAN, rx : Nat, TXIC : BOOLEAN, RXIC : BOOLEAN, CTSMIM : BOOLEAN]
  BY DEF BoxSends, history, MInv, MarklinTypeOK
<1>2. /\ uart' \in [tx : BOOLEAN, rx : Nat, TXIC : BOOLEAN, RXIC : BOOLEAN, CTSMIM : BOOLEAN]
      /\ (uart'.tx <=> uart.tx) /\ (uart'.TXIC <=> uart.TXIC) /\ (uart'.CTSMIM <=> uart.CTSMIM)
      /\ sent' \in Nat
  <2>1. sent + 1 \in Nat
    BY <1>1
  <2>2. QED
    BY <1>1, <2>1
<1>3. Done' = Done /\ Heard' = Heard
  BY <1>1, <1>2 DEF Done, Heard
<1>4. ReportInv'
  <2>1. \A p \in 1..4, k \in 1..3 : Under(p, k)' <=> Under(p, k)
    BY <1>1, <1>2, <1>3, StaysUnder DEF Under
  <2>2. QED
    BY <1>1, <1>3, <2>1, NoneMoves DEF MInv
<1>5. MarklinTypeOK'
  BY <1>1, <1>2 DEF MInv, MarklinTypeOK
<1>6. BoxInv'
  BY <1>1, <1>2, <1>3 DEF MInv, BoxInv
<1>7. MessageInv' /\ ServerInv' /\ WaiterInv'
  BY <1>1, <1>3 DEF MInv, MessageInv, ServerInv, WaiterInv, Known, Named
<1>8. QED
  BY <1>4, <1>5, <1>6, <1>7 DEF MInv

-----------------------------------------------------------------------------
(* The interrupt handler and the notifier. *)

LEMMA IRQKeepsIt ==
  ASSUME MInv, MarklinIRQ
  PROVE  MInv'
<1>0. ReportInv
  BY DEF MInv
<1>1. /\ uart \in [tx : BOOLEAN, rx : Nat, TXIC : BOOLEAN, RXIC : BOOLEAN, CTSMIM : BOOLEAN]
      /\ event_q \in Seq(EventType) /\ cts \in {0, 1} /\ BoxInv
      /\ box \in {"ready", "busy", "takes"}
      /\ notif \in [at : {"starts", "calls", "awaits", "looks up", "sends"}, event : EventType]
  BY DEF MInv, MarklinTypeOK
<1>2. UNCHANGED <<ns_table, cts, box, sent, server, inbox, client, calls, got>>
  BY DEF MarklinIRQ, history
\* One report is taken, the first of those raised, or a byte received.
<1>3. \E e \in EventType, k0 \in 0..3 :
        /\ Delivers(e) /\ Change(e) = k0
        /\ uart' \in [tx : BOOLEAN, rx : Nat, TXIC : BOOLEAN, RXIC : BOOLEAN, CTSMIM : BOOLEAN]
        /\ uart'.tx = uart.tx /\ (uart'.TXIC => uart.TXIC) /\ (uart'.CTSMIM => uart.CTSMIM)
        /\ k0 # 0 => Raised(k0)
        /\ \A k \in 1..3 : Raised(k) => k0 <= k
        /\ \A k \in 1..3 : Raised(k)' <=> Raised(k) /\ k # k0
  <2>1. CASE uart.TXIC
    <3> DEFINE e == Event("TXIC", NoByte)
    <3>1. Delivers(e) /\ uart' = [uart EXCEPT !.TXIC = FALSE]
      BY <2>1 DEF MarklinIRQ
    <3>2. e \in EventType /\ Change(e) = 1
      BY DEF Event, EventType, NoByte, Change
    <3>3. /\ uart' \in [tx : BOOLEAN, rx : Nat, TXIC : BOOLEAN, RXIC : BOOLEAN, CTSMIM : BOOLEAN]
          /\ uart'.tx = uart.tx /\ ~uart'.TXIC /\ uart'.CTSMIM = uart.CTSMIM
      BY <1>1, <3>1
    <3>4. Done' = Done
      BY <1>2, <3>3 DEF Done
    <3>5. Raised(1) /\ \A k \in 1..3 : Raised(k)' <=> Raised(k) /\ k # 1
      BY <2>1, <3>3, <3>4 DEF Raised
    <3> HIDE DEF e
    <3>6. QED
      BY <2>1, <3>1, <3>2, <3>3, <3>5
  <2>2. CASE ~uart.TXIC /\ uart.RXIC
    <3> DEFINE e == Event("RXIC", uart.rx)
    <3>1. Delivers(e) /\ uart' = [uart EXCEPT !.RXIC = FALSE, !.rx = NoByte]
      BY <2>2 DEF MarklinIRQ
    <3>2. e \in EventType /\ Change(e) = 0
      BY <1>1 DEF Event, EventType, Change
    <3>3. /\ uart' \in [tx : BOOLEAN, rx : Nat, TXIC : BOOLEAN, RXIC : BOOLEAN, CTSMIM : BOOLEAN]
          /\ uart'.tx = uart.tx /\ uart'.TXIC = uart.TXIC /\ uart'.CTSMIM = uart.CTSMIM
      BY <1>1, <3>1 DEF NoByte
    <3>4. Done' = Done
      BY <1>2, <3>3 DEF Done
    <3>5. \A k \in 1..3 : Raised(k)' <=> Raised(k)
      BY <3>3, <3>4 DEF Raised
    <3> HIDE DEF e
    <3>6. QED
      BY <3>1, <3>2, <3>3, <3>5
  <2>3. CASE ~uart.TXIC /\ ~uart.RXIC
    <3> DEFINE e == Event("CTSMIM", cts)
    <3>1. Delivers(e) /\ uart' = [uart EXCEPT !.CTSMIM = FALSE] /\ uart.CTSMIM
      BY <2>3 DEF MarklinIRQ
    <3>2. Done \in {2, 3} /\ e \in EventType /\ Change(e) = Done
      <4>1. Done \in {2, 3}
        BY <1>1, <3>1 DEF BoxInv
      <4>2. Done = 2 <=> box = "busy"
        <5>1. ~uart.tx
          BY <4>1 DEF Done
        <5>2. Done = CASE box = "takes" -> 1 [] box = "busy" -> 2 [] OTHER -> 3
          BY <5>1 DEF Done
        <5>3. box = "ready" \/ box = "busy" \/ box = "takes"
          BY <1>1
        <5>4. QED
          BY <5>2, <5>3
      <4>3. cts = IF Done = 2 THEN 0 ELSE 1
        BY <1>1, <4>2 DEF BoxInv
      <4>4. QED
        BY <4>1, <4>3 DEF Event, EventType, Change
    <3>3. /\ uart' \in [tx : BOOLEAN, rx : Nat, TXIC : BOOLEAN, RXIC : BOOLEAN, CTSMIM : BOOLEAN]
          /\ uart'.tx = uart.tx /\ uart'.TXIC = uart.TXIC /\ ~uart'.CTSMIM
      BY <1>1, <3>1
    <3>4. \A k \in 1..3 : (Raised(k) <=> k = Done) /\ ~Raised(k)'
      BY <2>3, <3>1, <3>2, <3>3 DEF Raised
    <3>5. Raised(Done) /\ Done \in 0..3 /\ \A k \in 1..3 : Raised(k) => Done <= k
      BY <3>2, <3>4
    <3> HIDE DEF e
    <3>6. QED
      BY <3>1, <3>2, <3>3, <3>4, <3>5
  <2>4. QED
    BY <2>1, <2>2, <2>3
<1>4. PICK e \in EventType, k0 \in 0..3 :
        /\ Delivers(e) /\ Change(e) = k0
        /\ uart' \in [tx : BOOLEAN, rx : Nat, TXIC : BOOLEAN, RXIC : BOOLEAN, CTSMIM : BOOLEAN]
        /\ uart'.tx = uart.tx /\ (uart'.TXIC => uart.TXIC) /\ (uart'.CTSMIM => uart.CTSMIM)
        /\ k0 # 0 => Raised(k0)
        /\ \A k \in 1..3 : Raised(k) => k0 <= k
        /\ \A k \in 1..3 : Raised(k)' <=> Raised(k) /\ k # k0
  BY <1>3
<1>5. Done' = Done /\ Heard' = Heard
  BY <1>2, <1>4 DEF Done, Heard
<1>6. \A k \in 1..3 : InInbox(k)' <=> InInbox(k)
  BY <1>2, StaysUnder
<1>7. /\ ReportInv'
      /\ notif' \in [at : {"starts", "calls", "awaits", "looks up", "sends"}, event : EventType]
      /\ event_q' \in Seq(EventType)
      /\ notif'.at = "awaits" => event_q' = <<>>
      /\ notif'.at = "sends" <=> notif.at = "sends"
  <2>1. CASE notif.at = "awaits"
    <3>1. /\ notif' = [at |-> "looks up", event |-> e] /\ event_q' = event_q
          /\ event_q = <<>>
      BY <1>4, <2>1 DEF Delivers, MInv, MessageInv
    <3>2. \A k \in 1..3 : (WithNotifier(k)' <=> k = k0) /\ ~WithNotifier(k)
      BY <1>4, <2>1, <3>1 DEF WithNotifier
    <3>3. \A k \in 1..3 : ~InQueue(k) /\ ~InQueue(k)'
      <4>1. event_q = <<>> /\ event_q' = <<>>
        BY <3>1
      <4>2. QED
        BY <4>1 DEF InQueue
    <3>4. \A p \in 1..4, k \in 1..3 :
            Under(p, k)' <=> (Under(p, k) /\ ~(p = 4 /\ k = k0)) \/ (p = 2 /\ k = k0)
      BY <1>4, <1>6, <3>2, <3>3 DEF Under
    <3>5. /\ k0 # 0 => Under(4, k0)
          /\ \A k \in 1..3 : Under(4, k) => k0 <= k
          /\ \A p \in 1..4, k \in 1..3 : 2 < p /\ p < 4 => ~Under(p, k)
      BY <1>4, <3>3 DEF Under
    <3>6. ReportInv'
      <4>1. \A i, j \in DOMAIN event_q' :
              i < j /\ Change(event_q'[i]) # 0 /\ Change(event_q'[j]) # 0 =>
                Change(event_q'[i]) < Change(event_q'[j])
        BY <1>0, <3>1 DEF ReportInv
      <4>2. 4 \in 1..4 /\ 2 \in 1..4 /\ 2 < 4
        OBVIOUS
      <4>3. QED
        BY <1>0, <1>5, <3>4, <3>5, <4>1, <4>2, MovesOn
    <3>7. QED
      BY <1>1, <2>1, <3>1, <3>6
  <2>2. CASE notif.at # "awaits"
    <3>1. /\ event_q' = Append(event_q, e) /\ notif' = notif
      BY <1>4, <2>2 DEF Delivers
    <3>2. /\ event_q' \in Seq(EventType) /\ Len(event_q) \in Nat
          /\ DOMAIN event_q = 1..Len(event_q) /\ DOMAIN event_q' = 1..(Len(event_q) + 1)
          /\ \A i \in DOMAIN event_q : event_q'[i] = event_q[i]
          /\ event_q'[Len(event_q) + 1] = e
          /\ \A i \in DOMAIN event_q' : i \in DOMAIN event_q \/ i = Len(event_q) + 1
      <4> DEFINE q == Append(event_q, e)
      <4>1. /\ q \in Seq(EventType) /\ Len(event_q) \in Nat
            /\ DOMAIN event_q = 1..Len(event_q) /\ DOMAIN q = 1..(Len(event_q) + 1)
            /\ \A i \in DOMAIN event_q : q[i] = event_q[i]
            /\ q[Len(event_q) + 1] = e
            /\ \A i \in DOMAIN q : i \in DOMAIN event_q \/ i = Len(event_q) + 1
        BY <1>1, AppendFacts
      <4>2. event_q' = q
        BY <3>1
      <4> HIDE DEF q
      <4>3. QED
        BY <4>1, <4>2
    <3>3. \A k \in 1..3 : InQueue(k)' <=> InQueue(k) \/ k = k0
      BY <1>4, <3>2 DEF InQueue
    <3>4. \A k \in 1..3 : WithNotifier(k)' <=> WithNotifier(k)
      BY <3>1, StaysUnder
    <3>5. \A p \in 1..4, k \in 1..3 :
            Under(p, k)' <=> (Under(p, k) /\ ~(p = 4 /\ k = k0)) \/ (p = 3 /\ k = k0)
      BY <1>4, <1>6, <3>3, <3>4 DEF Under
    <3>6. /\ k0 # 0 => Under(4, k0)
          /\ \A k \in 1..3 : Under(4, k) => k0 <= k
          /\ \A p \in 1..4, k \in 1..3 : 3 < p /\ p < 4 => ~Under(p, k)
      BY <1>4 DEF Under
    <3>7. ASSUME NEW i \in DOMAIN event_q', NEW j \in DOMAIN event_q', i < j,
                 Change(event_q'[i]) # 0, Change(event_q'[j]) # 0
          PROVE  Change(event_q'[i]) < Change(event_q'[j])
      <4>1. i \in DOMAIN event_q
        BY <3>2, <3>7
      <4>2. CASE j \in DOMAIN event_q
        BY <1>0, <3>2, <3>7, <4>1, <4>2 DEF ReportInv
      <4>3. CASE j = Len(event_q) + 1
        <5>1. Change(event_q[i]) \in 1..3 /\ k0 \in 1..3
          BY <1>4, <3>2, <3>7, <4>1, <4>3 DEF Change
        <5>2. InQueue(Change(event_q[i])) /\ Raised(k0)
          BY <1>4, <4>1, <5>1 DEF InQueue
        <5>3. Under(3, Change(event_q[i])) /\ Under(4, k0) /\ 3 \in 1..4 /\ 4 \in 1..4 /\ 3 < 4
          BY <5>2 DEF Under
        <5>4. Change(event_q[i]) < k0
          BY <1>0, <5>1, <5>3 DEF ReportInv
        <5>5. QED
          BY <1>4, <3>2, <4>1, <4>3, <5>4
      <4>4. QED
        BY <3>2, <4>2, <4>3
    <3>8. ReportInv'
      <4>1. 4 \in 1..4 /\ 3 \in 1..4 /\ 3 < 4
        OBVIOUS
      <4>2. QED
        BY <1>0, <1>5, <3>5, <3>6, <3>7, <4>1, MovesOn
    <3>9. QED
      BY <1>1, <2>2, <3>1, <3>2, <3>8
  <2>3. QED
    BY <2>1, <2>2
<1>8. MarklinTypeOK'
  BY <1>2, <1>4, <1>7 DEF MInv, MarklinTypeOK
<1>9. BoxInv'
  BY <1>1, <1>2, <1>4, <1>5 DEF BoxInv
<1>10. MessageInv' /\ ServerInv' /\ WaiterInv'
  BY <1>2, <1>5, <1>7 DEF MInv, MessageInv, ServerInv, WaiterInv, Known, Named
<1>11. QED
  BY <1>7, <1>8, <1>9, <1>10 DEF MInv

LEMMA AwaitsKeepsIt ==
  ASSUME MInv, NotifierAwaits
  PROVE  MInv'
<1>0. ReportInv
  BY DEF MInv
<1>1. /\ UNCHANGED <<ns_table, uart, cts, box, sent, server, inbox, client, calls, got>>
      /\ notif.at = "calls" /\ event_q \in Seq(EventType)
      /\ notif \in [at : {"starts", "calls", "awaits", "looks up", "sends"}, event : EventType]
  BY DEF NotifierAwaits, device, history, MInv, MarklinTypeOK
<1>2. Done' = Done /\ Heard' = Heard
  BY <1>1 DEF Done, Heard
<1>3. \A k \in 1..3 : (InInbox(k)' <=> InInbox(k)) /\ (Raised(k)' <=> Raised(k))
                      /\ ~WithNotifier(k)
  BY <1>1, <1>2, StaysUnder DEF WithNotifier
<1>4. /\ ReportInv'
      /\ notif' \in [at : {"starts", "calls", "awaits", "looks up", "sends"}, event : EventType]
      /\ event_q' \in Seq(EventType)
      /\ notif'.at = "awaits" => event_q' = <<>>
      /\ notif'.at # "sends"
  <2>1. CASE event_q = <<>>
    <3>1. notif' = [notif EXCEPT !.at = "awaits"] /\ event_q' = event_q
      BY <2>1 DEF NotifierAwaits
    <3>2. /\ notif' \in [at : {"starts", "calls", "awaits", "looks up", "sends"}, event : EventType]
          /\ notif'.at = "awaits"
      BY <1>1, <3>1
    <3>3. \A k \in 1..3 : ~WithNotifier(k)' /\ (InQueue(k)' <=> InQueue(k))
      BY <3>1, <3>2, StaysUnder DEF WithNotifier
    <3>4. \A p \in 1..4, k \in 1..3 : Under(p, k)' <=> Under(p, k)
      BY <1>3, <3>3 DEF Under
    <3>5. ReportInv'
      BY <1>0, <1>2, <3>1, <3>4, NoneMoves
    <3>6. QED
      BY <1>1, <2>1, <3>1, <3>2, <3>5
  <2>2. CASE event_q # <<>>
    <3> DEFINE q == Tail(event_q)
    <3>1. PICK e : e = Head(event_q)
      OBVIOUS
    <3>2. notif' = [at |-> "looks up", event |-> e] /\ event_q' = q
      BY <2>2, <3>1 DEF NotifierAwaits
    <3>3. /\ q \in Seq(EventType) /\ e \in EventType
          /\ 1 \in DOMAIN event_q /\ e = event_q[1]
          /\ \A i \in DOMAIN q : i \in Nat /\ i + 1 \in DOMAIN event_q /\ i + 1 # 1 /\ q[i] = event_q[i + 1]
          /\ \A i \in DOMAIN event_q : i # 1 => i - 1 \in DOMAIN q /\ q[i - 1] = event_q[i]
          /\ \A i \in DOMAIN event_q : i \in Nat \ {0}
      <4>1. event_q \in Seq(EventType) /\ event_q # <<>>
        BY <1>1, <2>2
      <4>2. /\ q \in Seq(EventType) /\ Head(event_q) \in EventType
            /\ 1 \in DOMAIN event_q /\ Head(event_q) = event_q[1]
            /\ \A i \in DOMAIN q : i \in Nat /\ i + 1 \in DOMAIN event_q /\ i + 1 # 1 /\ q[i] = event_q[i + 1]
            /\ \A i \in DOMAIN event_q : i # 1 => i - 1 \in DOMAIN q /\ q[i - 1] = event_q[i]
            /\ \A i \in DOMAIN event_q : i \in Nat \ {0}
        BY <4>1, TailFacts
      <4> HIDE DEF q
      <4>3. QED
        BY <3>1, <4>2
    <3> HIDE DEF q
    <3>4. Change(e) \in 0..3
      BY DEF Change
    <3>5. PICK k0 \in 0..3 : k0 = Change(e)
      BY <3>4
    <3>6. \A i \in DOMAIN event_q :
            Change(event_q[i]) # 0 /\ i # 1 /\ k0 # 0 => k0 < Change(event_q[i])
      <4>1. \A i \in DOMAIN event_q : i # 1 => 1 < i
        BY <3>3
      <4>2. QED
        BY <1>0, <3>3, <3>5, <4>1 DEF ReportInv
    <3>7. k0 # 0 => InQueue(k0)
      BY <3>3, <3>5 DEF InQueue
    <3>8. \A k \in 1..3 : InQueue(k) => k0 <= k
      <4> SUFFICES ASSUME NEW k \in 1..3, NEW i \in DOMAIN event_q, Change(event_q[i]) = k
                   PROVE  k0 <= k
        BY DEF InQueue
      <4>1. CASE i = 1
        BY <3>3, <3>5, <4>1
      <4>2. CASE i # 1
        BY <3>6, <4>2
      <4>3. QED
        BY <4>1, <4>2
    <3>9. \A k \in 1..3 : InQueue(k)' <=> InQueue(k) /\ k # k0
      <4> SUFFICES ASSUME NEW k \in 1..3 PROVE InQueue(k)' <=> InQueue(k) /\ k # k0
        OBVIOUS
      <4>1. ASSUME NEW i \in DOMAIN q, Change(q[i]) = k PROVE InQueue(k) /\ k # k0
        <5>1. i + 1 \in DOMAIN event_q /\ i + 1 # 1 /\ Change(event_q[i + 1]) = k
          BY <3>3, <4>1
        <5>2. QED
          BY <3>6, <5>1 DEF InQueue
      <4>2. ASSUME NEW i \in DOMAIN event_q, Change(event_q[i]) = k, k # k0
            PROVE  \E j \in DOMAIN q : Change(q[j]) = k
        <5>1. i # 1
          BY <3>3, <3>5, <4>2
        <5>2. i - 1 \in DOMAIN q /\ q[i - 1] = event_q[i]
          BY <3>3, <5>1
        <5>3. QED
          BY <4>2, <5>2
      <4>3. QED
        BY <3>2, <4>1, <4>2 DEF InQueue
    <3>10. \A k \in 1..3 : WithNotifier(k)' <=> k = k0
      BY <3>2, <3>5 DEF WithNotifier
    <3>11. \A p \in 1..4, k \in 1..3 :
             Under(p, k)' <=> (Under(p, k) /\ ~(p = 3 /\ k = k0)) \/ (p = 2 /\ k = k0)
      BY <1>3, <3>9, <3>10 DEF Under
    <3>12. /\ k0 # 0 => Under(3, k0)
           /\ \A k \in 1..3 : Under(3, k) => k0 <= k
           /\ \A p \in 1..4, k \in 1..3 : 2 < p /\ p < 3 => ~Under(p, k)
      BY <3>7, <3>8 DEF Under
    <3>13. ASSUME NEW i \in DOMAIN q, NEW j \in DOMAIN q, i < j,
                  Change(q[i]) # 0, Change(q[j]) # 0
           PROVE  Change(q[i]) < Change(q[j])
      <4>1. i + 1 \in DOMAIN event_q /\ j + 1 \in DOMAIN event_q /\ i + 1 < j + 1
        BY <3>3, <3>13
      <4>2. QED
        BY <1>0, <3>3, <3>13, <4>1 DEF ReportInv
    <3>14. ReportInv'
      <4>1. 3 \in 1..4 /\ 2 \in 1..4 /\ 2 < 3
        OBVIOUS
      <4>2. \A i, j \in DOMAIN event_q' :
              i < j /\ Change(event_q'[i]) # 0 /\ Change(event_q'[j]) # 0 =>
                Change(event_q'[i]) < Change(event_q'[j])
        BY <3>2, <3>13
      <4>3. QED
        BY <1>0, <1>2, <3>11, <3>12, <4>1, <4>2, MovesOn
    <3>15. QED
      BY <3>2, <3>3, <3>14
  <2>3. QED
    BY <2>1, <2>2
<1>5. MarklinTypeOK'
  BY <1>1, <1>4 DEF MInv, MarklinTypeOK
<1>6. BoxInv'
  BY <1>1, <1>2 DEF MInv, BoxInv
<1>7. MessageInv'
  BY <1>1, <1>4 DEF MInv, MessageInv
<1>8. ServerInv' /\ WaiterInv'
  BY <1>1, <1>2 DEF MInv, ServerInv, WaiterInv, Known, Named
<1>9. QED
  BY <1>4, <1>5, <1>6, <1>7, <1>8 DEF MInv

LEMMA ForwardsKeepsIt ==
  ASSUME MInv, NotifierForwards
  PROVE  MInv'
<1>0. ReportInv
  BY DEF MInv
<1>1. /\ UNCHANGED <<ns_table, uart, cts, box, sent, event_q, server, client, calls, got>>
      /\ notif.at = "looks up" /\ inbox \in Seq(MsgType) /\ ns_table \in Seq(Rows)
      /\ notif \in [at : {"starts", "calls", "awaits", "looks up", "sends"}, event : EventType]
  BY DEF NotifierForwards, device, history, MInv, MarklinTypeOK
<1>2. Done' = Done /\ Heard' = Heard
  BY <1>1 DEF Done, Heard
<1>3. \A k \in 1..3 : (InQueue(k)' <=> InQueue(k)) /\ (Raised(k)' <=> Raised(k))
  BY <1>1, <1>2, StaysUnder
<1>4. PICK k0 \in 0..3 : k0 = Change(notif.event)
  BY DEF Change
<1>5. \A k \in 1..3 : (WithNotifier(k) <=> k = k0) /\ ~InInbox(k)
  BY <1>1, <1>4 DEF WithNotifier, InInbox, MInv, MessageInv
<1>6. /\ ReportInv' /\ MessageInv' /\ (Known \/ inbox' = inbox)
      /\ notif' \in [at : {"starts", "calls", "awaits", "looks up", "sends"}, event : EventType]
      /\ inbox' \in Seq(MsgType)
  <2>1. CASE Known
    <3> DEFINE m == Msg(NotifTid, notif.event.type, notif.event.val)
    <3>1. /\ notif' = [notif EXCEPT !.at = "sends"] /\ inbox' = Append(inbox, m)
      <4>1. ns_find("Uart2Marklin") > 0
        <5>1. ns_find("Uart2Marklin") = ServerTid
          BY <1>1, <2>1, KnownFacts
        <5>2. QED
          BY <5>1 DEF ServerTid
      <4>2. QED
        BY <4>1 DEF NotifierForwards
    <3>2. /\ notif' \in [at : {"starts", "calls", "awaits", "looks up", "sends"}, event : EventType]
          /\ notif'.at = "sends"
      BY <1>1, <3>1
    <3>3. m \in MsgType /\ m.tid = NotifTid /\ Change(m) = k0
      BY <1>1, <1>4 DEF Msg, MsgType, EventType, Change
    <3> HIDE DEF m
    <3> DEFINE r == Append(inbox, m)
    <3>4. /\ r \in Seq(MsgType) /\ Len(inbox) \in Nat
          /\ DOMAIN inbox = 1..Len(inbox) /\ DOMAIN r = 1..(Len(inbox) + 1)
          /\ \A i \in DOMAIN inbox : r[i] = inbox[i]
          /\ r[Len(inbox) + 1] = m
          /\ \A i \in DOMAIN r : i \in DOMAIN inbox \/ i = Len(inbox) + 1
      BY <1>1, <3>3, AppendFacts
    <3>5. inbox' = r
      BY <3>1
    <3> HIDE DEF r
    <3>6. \A i \in DOMAIN inbox : inbox[i].tid # NotifTid
      BY <1>1 DEF MInv, MessageInv
    <3>7. \A i \in DOMAIN r : r[i].tid = NotifTid <=> i = Len(inbox) + 1
      BY <3>3, <3>4, <3>6
    <3>8. \A k \in 1..3 : InInbox(k)' <=> k = k0
      <4>1. Len(inbox) + 1 \in DOMAIN r
        BY <3>4
      <4>2. QED
        BY <3>3, <3>4, <3>5, <3>7, <4>1 DEF InInbox
    <3>9. \A k \in 1..3 : ~WithNotifier(k)'
      BY <3>2 DEF WithNotifier
    <3>10. \A p \in 1..4, k \in 1..3 :
             Under(p, k)' <=> (Under(p, k) /\ ~(p = 2 /\ k = k0)) \/ (p = 1 /\ k = k0)
      BY <1>3, <1>5, <3>8, <3>9 DEF Under
    <3>11. /\ k0 # 0 => Under(2, k0)
           /\ \A k \in 1..3 : Under(2, k) => k0 <= k
           /\ \A p \in 1..4, k \in 1..3 : 1 < p /\ p < 2 => ~Under(p, k)
      BY <1>5 DEF Under
    <3>12. ReportInv'
      <4>1. 2 \in 1..4 /\ 1 \in 1..4 /\ 1 < 2
        OBVIOUS
      <4>2. \A i, j \in DOMAIN event_q' :
              i < j /\ Change(event_q'[i]) # 0 /\ Change(event_q'[j]) # 0 =>
                Change(event_q'[i]) < Change(event_q'[j])
        BY <1>0, <1>1 DEF ReportInv
      <4>3. QED
        BY <1>0, <1>2, <3>10, <3>11, <4>1, <4>2, MovesOn
    <3>13. MessageInv'
      BY <3>2, <3>5, <3>7 DEF MessageInv
    <3>14. QED
      BY <2>1, <3>2, <3>4, <3>5, <3>12, <3>13
  <2>2. CASE ~Known
    <3>1. /\ notif' = [at |-> "calls", event |-> Nothing] /\ inbox' = inbox
      <4>1. ~(ns_find("Uart2Marklin") > 0)
        <5>1. ns_find("Uart2Marklin") = -1
          BY <1>1, <2>2, KnownFacts
        <5>2. QED
          BY <5>1
      <4>2. QED
        BY <4>1 DEF NotifierForwards
    <3>2. Heard = 3
      BY <2>2 DEF MInv, ServerInv, Heard
    <3>3. \A p \in 1..4, k \in 1..3 : ~Under(p, k)
      BY <1>0, <3>2, Counts DEF ReportInv
    <3>4. \A k \in 1..3 : ~WithNotifier(k)' /\ ~WithNotifier(k) /\ (InInbox(k)' <=> InInbox(k))
      <4>1. \A k \in 1..3 : ~Under(2, k)
        BY <3>3
      <4>2. QED
        BY <3>1, <4>1, StaysUnder, PlaceFacts DEF WithNotifier
    <3>5. \A p \in 1..4, k \in 1..3 : Under(p, k)' <=> Under(p, k)
      BY <1>3, <3>4 DEF Under
    <3>6. ReportInv'
      BY <1>0, <1>1, <1>2, <3>5, NoneMoves
    <3>7. MessageInv'
      <4>1. inbox = <<>> /\ DOMAIN inbox' = {}
        BY <2>2, <3>1 DEF MInv, ServerInv
      <4>2. QED
        BY <3>1, <4>1 DEF MessageInv
    <3>8. notif' \in [at : {"starts", "calls", "awaits", "looks up", "sends"}, event : EventType]
      BY <3>1 DEF Nothing, Event, EventType, NoByte
    <3>9. QED
      BY <1>1, <3>1, <3>6, <3>7, <3>8
  <2>3. QED
    BY <2>1, <2>2
<1>7. MarklinTypeOK'
  BY <1>1, <1>6 DEF MInv, MarklinTypeOK
<1>8. BoxInv'
  BY <1>1, <1>2 DEF MInv, BoxInv
<1>9. ServerInv' /\ WaiterInv'
  BY <1>1, <1>2, <1>6 DEF MInv, ServerInv, WaiterInv, Known, Named
<1>10. QED
  BY <1>6, <1>7, <1>8, <1>9 DEF MInv

LEMMA RegistersKeepsIt ==
  ASSUME MInv, NotifierRegisters \/ ServerRegisters
  PROVE  MInv'
<1>0. ReportInv /\ ns_table \in Seq(Rows)
  BY DEF MInv, MarklinTypeOK
<1>1. /\ UNCHANGED <<uart, cts, box, sent, event_q, inbox, client, calls, got>>
      /\ server'.putc_state = server.putc_state /\ server'.putc = server.putc
      /\ server'.awaitcts = server.awaitcts
      /\ server' \in ServerType
      /\ notif' \in [at : {"starts", "calls", "awaits", "looks up", "sends"}, event : EventType]
      /\ notif' = notif \/ (notif.at = "starts" /\ notif'.at = "calls")
  <2>1. /\ server \in ServerType
        /\ notif \in [at : {"starts", "calls", "awaits", "looks up", "sends"}, event : EventType]
    BY DEF MInv, MarklinTypeOK
  <2>2. CASE NotifierRegisters
    BY <2>1, <2>2 DEF NotifierRegisters, device, history
  <2>3. CASE ServerRegisters
    <3>1. server' = [server EXCEPT !.up = TRUE] /\ notif' = notif
      BY <2>3 DEF ServerRegisters
    <3>2. UNCHANGED <<uart, cts, box, sent, event_q, inbox, client, calls, got>>
      BY <2>3 DEF ServerRegisters, device, history
    <3>3. /\ server'.putc_state = server.putc_state /\ server'.putc = server.putc
          /\ server'.awaitcts = server.awaitcts
          /\ server' \in ServerType
      BY <2>1, <3>1 DEF ServerType
    <3>4. QED
      BY <2>1, <3>1, <3>2, <3>3
  <2>4. QED
    BY <2>2, <2>3
<1>2. ns_table' \in Seq(Rows) /\ (Known => Known')
  <2>1. CASE NotifierRegisters
    <3>1. /\ ns_table' = ns_add("io_notifier", NotifTid)
          /\ [name |-> "io_notifier", tid |-> NotifTid] \in Rows
      BY <2>1 DEF NotifierRegisters, Rows
    <3>2. QED
      BY <1>0, <3>1, AddsRow
  <2>2. CASE ServerRegisters
    <3>1. /\ ns_table' = ns_add("Uart2Marklin", ServerTid)
          /\ [name |-> "Uart2Marklin", tid |-> ServerTid] \in Rows
      BY <2>2 DEF ServerRegisters, Rows
    <3>2. QED
      BY <1>0, <3>1, AddsRow
  <2>3. QED
    BY <2>1, <2>2
<1>3. Done' = Done /\ Heard' = Heard
  BY <1>1 DEF Done, Heard
<1>4. ReportInv'
  <2>1. \A k \in 1..3 : WithNotifier(k)' <=> WithNotifier(k)
    BY <1>1 DEF WithNotifier
  <2>2. \A k \in 1..3 : (InInbox(k)' <=> InInbox(k)) /\ (InQueue(k)' <=> InQueue(k))
                        /\ (Raised(k)' <=> Raised(k))
    BY <1>1, <1>3, StaysUnder
  <2>3. \A p \in 1..4, k \in 1..3 : Under(p, k)' <=> Under(p, k)
    BY <2>1, <2>2 DEF Under
  <2>4. QED
    BY <1>0, <1>1, <1>3, <2>3, NoneMoves
<1>5. MarklinTypeOK'
  BY <1>1, <1>2 DEF MInv, MarklinTypeOK
<1>6. BoxInv'
  BY <1>1, <1>3 DEF MInv, BoxInv
<1>7. MessageInv'
  BY <1>1 DEF MInv, MessageInv
<1>8. ServerInv'
  BY <1>1, <1>2 DEF MInv, ServerInv
<1>9. WaiterInv'
  BY <1>1, <1>3 DEF MInv, WaiterInv
<1>10. QED
  BY <1>4, <1>5, <1>6, <1>7, <1>8, <1>9 DEF MInv

-----------------------------------------------------------------------------
(* The clients. *)

LEMMA AsksKeepsIt ==
  ASSUME MInv, NEW c \in Clients, NEW type \in {"PUTC", "GETC", "CTS"}, NEW val \in {0, 1},
         NEW wait \in {"putc", "getc", "cts"}, Asks(c, type, val, wait)
  PROVE  MInv'
<1>0. /\ ReportInv /\ ns_table \in Seq(Rows) /\ inbox \in Seq(MsgType)
      /\ client \in [Clients -> {"runs", "putc", "getc", "cts"}] /\ calls \in Nat
  BY DEF MInv, MarklinTypeOK
<1>1. /\ UNCHANGED <<ns_table, uart, cts, box, sent, event_q, notif, server, got>>
      /\ inbox' = Append(inbox, Msg(c, type, val))
      /\ client' = [client EXCEPT ![c] = wait] /\ calls' = calls + 1
      /\ ns_find("Uart2Marklin") = ServerTid
  BY DEF Asks, device
<1>2. Known
  <2>1. ns_find("Uart2Marklin") # -1
    BY <1>1 DEF ServerTid
  <2>2. QED
    BY <1>0, <2>1, KnownFacts
<1>3. PICK m \in MsgType : m = Msg(c, type, val) /\ m.tid # NotifTid
  <2>1. Msg(c, type, val) \in MsgType /\ Msg(c, type, val).tid = c
    BY DEF Msg, MsgType
  <2>2. c # NotifTid
    BY MarklinAssumption
  <2>3. QED
    BY <2>1, <2>2
<1> DEFINE r == Append(inbox, m)
<1>4. /\ r \in Seq(MsgType) /\ Len(inbox) \in Nat
      /\ DOMAIN inbox = 1..Len(inbox) /\ DOMAIN r = 1..(Len(inbox) + 1)
      /\ \A i \in DOMAIN inbox : r[i] = inbox[i]
      /\ r[Len(inbox) + 1] = m
      /\ \A i \in DOMAIN r : i \in DOMAIN inbox \/ i = Len(inbox) + 1
  BY <1>0, AppendFacts
<1>5. inbox' = r
  BY <1>1, <1>3
<1> HIDE DEF r
<1>6. /\ \A i \in DOMAIN r : r[i].tid = NotifTid => i \in DOMAIN inbox /\ r[i] = inbox[i]
      /\ \A i \in DOMAIN inbox : i \in DOMAIN r /\ r[i] = inbox[i]
  BY <1>3, <1>4
<1>7. Done' = Done /\ Heard' = Heard
  BY <1>1 DEF Done, Heard
<1>8. ReportInv'
  <2>1. \A k \in 1..3 : InInbox(k)' <=> InInbox(k)
    BY <1>5, <1>6 DEF InInbox
  <2>2. \A k \in 1..3 : (WithNotifier(k)' <=> WithNotifier(k)) /\ (InQueue(k)' <=> InQueue(k))
                        /\ (Raised(k)' <=> Raised(k))
    BY <1>1, <1>7, StaysUnder
  <2>3. \A p \in 1..4, k \in 1..3 : Under(p, k)' <=> Under(p, k)
    BY <2>1, <2>2 DEF Under
  <2>4. QED
    BY <1>0, <1>1, <1>7, <2>3, NoneMoves
<1>9. MarklinTypeOK'
  <2>1. client' \in [Clients -> {"runs", "putc", "getc", "cts"}] /\ calls' \in Nat
    BY <1>0, <1>1
  <2>2. inbox' \in Seq(MsgType)
    BY <1>4, <1>5
  <2>3. QED
    BY <1>1, <2>1, <2>2 DEF MInv, MarklinTypeOK
<1>10. BoxInv'
  BY <1>1, <1>7 DEF MInv, BoxInv
<1>11. MessageInv'
  BY <1>1, <1>5, <1>6 DEF MInv, MessageInv
<1>12. ServerInv'
  BY <1>1, <1>2 DEF MInv, ServerInv, Known, Named
<1>13. WaiterInv'
  BY <1>1, <1>7 DEF MInv, WaiterInv
<1>14. QED
  BY <1>8, <1>9, <1>10, <1>11, <1>12, <1>13 DEF MInv

-----------------------------------------------------------------------------
(* The server: the three parts of handling a message, then the whole. *)

LEMMA SetsState ==
  ASSUME NEW sv \in ServerType, NEW s \in 0..4
  PROVE  /\ [sv EXCEPT !.putc_state = s] \in ServerType
         /\ [sv EXCEPT !.putc_state = s].putc = sv.putc
         /\ [sv EXCEPT !.putc_state = s].awaitcts = sv.awaitcts
         /\ [sv EXCEPT !.putc_state = s].putc_state = s
BY DEF ServerType

LEMMA HandshakeFacts ==
  ASSUME NEW sv \in ServerType, sv.putc_state # 4, sv.putc_state # 1 => sv.putc # <<>>,
         NEW m \in MsgType
  PROVE  LET h == Handshake(sv, m)
         IN  /\ h \in ServerType /\ h.putc = sv.putc /\ h.awaitcts = sv.awaitcts
             /\ h.putc_state =
                  CASE Change(m) = 1 /\ sv.putc_state = 0 -> 2
                    [] Change(m) = 2 /\ sv.putc_state = 2 -> 3
                    [] Change(m) = 3 /\ sv.putc_state = 3 -> 4
                    [] OTHER -> sv.putc_state
<1>1. /\ sv.putc_state \in {0, 1, 2, 3}
      /\ \A s \in 0..4 : /\ [sv EXCEPT !.putc_state = s] \in ServerType
                         /\ [sv EXCEPT !.putc_state = s].putc = sv.putc
                         /\ [sv EXCEPT !.putc_state = s].awaitcts = sv.awaitcts
                         /\ [sv EXCEPT !.putc_state = s].putc_state = s
  <2>1. sv.putc_state \in 0..4
    BY DEF ServerType
  <2>2. sv.putc_state \in {0, 1, 2, 3}
    BY <2>1
  <2>3. QED
    BY <2>2, SetsState
<1>2. /\ Change(m) = 1 <=> m.type = "TXIC"
      /\ Change(m) = 2 <=> m.type = "CTSMIM" /\ m.val = 0
      /\ Change(m) = 3 <=> m.type = "CTSMIM" /\ m.val = 1
  BY DEF Change
<1>3. CASE Change(m) = 1 /\ sv.putc_state = 0
  <2>1. Handshake(sv, m) = [sv EXCEPT !.putc_state = 2]
    BY <1>2, <1>3 DEF Handshake
  <2>2. QED
    BY <1>1, <1>3, <2>1
<1>4. CASE Change(m) = 2 /\ sv.putc_state = 2
  <2>1. Handshake(sv, m) = [sv EXCEPT !.putc_state = 3]
    BY <1>2, <1>4 DEF Handshake
  <2>2. QED
    BY <1>1, <1>4, <2>1
<1>5. CASE Change(m) = 3 /\ sv.putc_state = 3
  <2>1. Handshake(sv, m) = [sv EXCEPT !.putc_state = 4]
    BY <1>2, <1>5 DEF Handshake
  <2>2. QED
    BY <1>1, <1>5, <2>1
<1>6. CASE ~(Change(m) = 1 /\ sv.putc_state = 0) /\ ~(Change(m) = 2 /\ sv.putc_state = 2)
           /\ ~(Change(m) = 3 /\ sv.putc_state = 3)
  <2>1. Handshake(sv, m) = sv
    BY <1>2, <1>6 DEF Handshake
  <2>2. QED
    BY <1>6, <2>1
<1>7. QED
  BY <1>3, <1>4, <1>5, <1>6

LEMMA EnqueuesFacts ==
  ASSUME NEW sv \in ServerType, NEW m \in MsgType
  PROVE  LET h == Enqueues(sv, m)
         IN  /\ h \in ServerType /\ h.putc_state = sv.putc_state /\ h.awaitcts = sv.awaitcts
             /\ sv.putc # <<>> => h.putc # <<>>
<1>1. CASE m.type = "RXIC"
  <2>1. m.val \in Nat
    BY <1>1 DEF MsgType
  <2>2. Append(sv.rx, m.val) \in Seq(Nat)
    BY <2>1, AppendProperties DEF ServerType
  <2>3. QED
    BY <1>1, <2>2 DEF Enqueues, ServerType
<1>2. CASE m.type = "GETC"
  <2>1. m.tid \in Clients
    BY <1>2 DEF MsgType
  <2>2. Append(sv.getc, m.tid) \in Seq(Clients)
    BY <2>1, AppendProperties DEF ServerType
  <2>3. QED
    BY <1>2, <2>2 DEF Enqueues, ServerType
<1>3. CASE m.type = "PUTC"
  <2>1. m.tid \in Clients
    BY <1>3 DEF MsgType
  <2>2. Append(sv.putc, m.tid) \in Seq(Clients) /\ Append(sv.putc, m.tid) # <<>>
    BY <2>1, AppendProperties DEF ServerType
  <2>3. QED
    BY <1>3, <2>2 DEF Enqueues, ServerType
<1>4. CASE m.type \notin {"RXIC", "GETC", "PUTC"}
  BY <1>4 DEF Enqueues
<1>5. QED
  BY <1>1, <1>2, <1>3, <1>4

LEMMA AwaitsCtsFacts ==
  ASSUME NEW sv \in ServerType, NEW m \in MsgType, cts \in {0, 1}
  PROVE  LET h == AwaitsCts(sv, m)
         IN  /\ h \in ServerType /\ h.putc_state = sv.putc_state /\ h.putc = sv.putc
             /\ h.awaitcts[cts] = IF m.type = "CTSMIM" THEN <<>> ELSE sv.awaitcts[cts]
<1>0. sv.awaitcts \in [{0, 1} -> Seq(Clients)]
  BY DEF ServerType
<1>1. CASE m.type = "CTSMIM"
  <2>1. AwaitsCts(sv, m) = [sv EXCEPT !.awaitcts[cts] = <<>>] /\ <<>> \in Seq(Clients)
    BY <1>1, EmptySeq DEF AwaitsCts
  <2> DEFINE w == [sv.awaitcts EXCEPT ![cts] = <<>>]
  <2>2. w \in [{0, 1} -> Seq(Clients)] /\ w[cts] = <<>>
    BY <1>0, <2>1
  <2>3. AwaitsCts(sv, m) = [sv EXCEPT !.awaitcts = w]
    BY <2>1
  <2> HIDE DEF w
  <2>4. QED
    BY <1>1, <2>2, <2>3 DEF ServerType
<1>2. CASE m.type = "CTS" /\ m.val # cts
  <2>1. m.tid \in Clients /\ m.val \in {0, 1}
    BY <1>2 DEF MsgType
  <2>2. Append(sv.awaitcts[m.val], m.tid) \in Seq(Clients)
    BY <1>0, <2>1, AppendProperties
  <2>3. AwaitsCts(sv, m) = [sv EXCEPT !.awaitcts[m.val] = Append(@, m.tid)]
    BY <1>2 DEF AwaitsCts
  <2> DEFINE w == [sv.awaitcts EXCEPT ![m.val] = Append(@, m.tid)]
  <2>4. w \in [{0, 1} -> Seq(Clients)] /\ w[cts] = sv.awaitcts[cts]
    BY <1>0, <1>2, <2>1, <2>2
  <2>5. AwaitsCts(sv, m) = [sv EXCEPT !.awaitcts = w]
    BY <2>3
  <2> HIDE DEF w
  <2>6. QED
    BY <1>2, <2>4, <2>5 DEF ServerType
<1>3. CASE m.type # "CTSMIM" /\ ~(m.type = "CTS" /\ m.val # cts)
  BY <1>3 DEF AwaitsCts
<1>4. QED
  BY <1>1, <1>2, <1>3

\* What handling the message m at the front of the inbox does to the state.
LEMMA HandlesFacts ==
  ASSUME MInv, ServerHandles, NEW m, m = Head(inbox)
  PROVE  /\ UNCHANGED <<ns_table, cts, box, sent, event_q, calls>>
         /\ inbox # <<>> /\ inbox' = Tail(inbox) /\ m \in MsgType
         /\ server' \in ServerType
         /\ client' \in [Clients -> {"runs", "putc", "getc", "cts"}]
         /\ got' \in Seq(Nat)
         /\ notif' = IF m.tid = ns_find("io_notifier")
                     THEN [at |-> "calls", event |-> Nothing] ELSE notif
         /\ server'.awaitcts[cts] = IF m.type = "CTSMIM" THEN <<>> ELSE server.awaitcts[cts]
         /\ server'.putc_state # 1 => server'.putc # <<>>
         /\ \E full \in BOOLEAN, st \in 0..4 :
              /\ st = CASE Change(m) = 1 /\ server.putc_state = 0 -> 2
                        [] Change(m) = 2 /\ server.putc_state = 2 -> 3
                        [] Change(m) = 3 /\ server.putc_state = 3 -> 4
                        [] OTHER -> server.putc_state
              /\ st # 1 => full
              /\ server'.putc_state = IF full /\ st = 1 THEN 0 ELSE IF st = 4 THEN 1 ELSE st
              /\ uart' = IF full /\ st = 1 THEN [uart EXCEPT !.tx = TRUE] ELSE uart
<1> DEFINE heard == AwaitsCts(Enqueues(Handshake(server, m), m), m)
           started == IF Starts(heard) THEN [heard EXCEPT !.putc_state = 0] ELSE heard
           putDone == IF PutcAnswered(started) THEN {Head(started.putc)} ELSE {}
           getDone == IF GetcAnswered(started) THEN {Head(started.getc)} ELSE {}
           done == CtsAnswered(m) \cup putDone \cup getDone
<1>1. /\ server \in ServerType /\ inbox \in Seq(MsgType) /\ cts \in {0, 1} /\ got \in Seq(Nat)
      /\ client \in [Clients -> {"runs", "putc", "getc", "cts"}]
      /\ server.putc_state # 4 /\ (server.putc_state # 1 => server.putc # <<>>)
  BY DEF MInv, MarklinTypeOK, ServerInv
<1>2. /\ inbox # <<>> /\ inbox' = Tail(inbox)
      /\ UNCHANGED <<ns_table, cts, box, sent, event_q, calls>>
      /\ notif' = IF m.tid = ns_find("io_notifier")
                  THEN [at |-> "calls", event |-> Nothing] ELSE notif
  BY DEF ServerHandles
<1>3. m \in MsgType
  BY <1>1, <1>2, TailFacts
<1>4. /\ uart' = IF Starts(heard) THEN [uart EXCEPT !.tx = TRUE] ELSE uart
      /\ client' = [c \in Clients |-> IF c \in done THEN "runs" ELSE client[c]]
      /\ got' = IF getDone = {} THEN got ELSE Append(got, Head(started.rx))
      /\ server' = [started EXCEPT
                      !.putc = IF putDone = {} THEN @ ELSE Tail(@),
                      !.putc_state = IF putDone = {} THEN @ ELSE 1,
                      !.getc = IF getDone = {} THEN @ ELSE Tail(@),
                      !.rx = IF getDone = {} THEN @ ELSE Tail(@)]
  BY DEF ServerHandles
<1>5. PICK st \in 0..4 :
        st = CASE Change(m) = 1 /\ server.putc_state = 0 -> 2
               [] Change(m) = 2 /\ server.putc_state = 2 -> 3
               [] Change(m) = 3 /\ server.putc_state = 3 -> 4
               [] OTHER -> server.putc_state
  <2>1. server.putc_state \in 0..4
    BY <1>1 DEF ServerType
  <2>2. QED
    BY <2>1
<1>6. /\ heard \in ServerType /\ heard.putc_state = st
      /\ heard.awaitcts[cts] = IF m.type = "CTSMIM" THEN <<>> ELSE server.awaitcts[cts]
      /\ st # 1 => heard.putc # <<>>
  <2> DEFINE h1 == Handshake(server, m)
             h2 == Enqueues(h1, m)
  <2>1. /\ h1 \in ServerType /\ h1.putc = server.putc /\ h1.awaitcts = server.awaitcts
        /\ h1.putc_state = st
    BY <1>1, <1>3, <1>5, HandshakeFacts
  <2> HIDE DEF h1
  <2>2. /\ h2 \in ServerType /\ h2.putc_state = h1.putc_state /\ h2.awaitcts = h1.awaitcts
        /\ h1.putc # <<>> => h2.putc # <<>>
    BY <1>3, <2>1, EnqueuesFacts
  <2>3. heard = AwaitsCts(h2, m)
    BY DEF h1
  <2> HIDE DEF h2, heard
  <2>4. /\ heard \in ServerType /\ heard.putc_state = h2.putc_state /\ heard.putc = h2.putc
        /\ heard.awaitcts[cts] = IF m.type = "CTSMIM" THEN <<>> ELSE h2.awaitcts[cts]
    BY <1>1, <1>3, <2>2, <2>3, AwaitsCtsFacts
  <2>5. st # 1 => server.putc # <<>>
    BY <1>1, <1>5
  <2>6. QED
    BY <2>1, <2>2, <2>4, <2>5
<1> DEFINE full == heard.putc # <<>>
<1>7. /\ Starts(heard) <=> full /\ st = 1
  BY <1>6 DEF Starts
<1> HIDE DEF heard
<1>8. /\ started \in ServerType /\ started.putc = heard.putc
      /\ started.awaitcts = heard.awaitcts
      /\ started.putc_state = IF full /\ st = 1 THEN 0 ELSE st
  <2>1. CASE Starts(heard)
    <3>1. started = [heard EXCEPT !.putc_state = 0] /\ 0 \in 0..4 /\ heard \in ServerType
      BY <1>6, <2>1
    <3> HIDE DEF started
    <3>2. /\ started \in ServerType /\ started.putc = heard.putc
          /\ started.awaitcts = heard.awaitcts /\ started.putc_state = 0
      BY <3>1, SetsState
    <3>3. QED
      BY <1>7, <2>1, <3>2
  <2>2. CASE ~Starts(heard)
    BY <1>6, <1>7, <2>2
  <2>3. QED
    BY <2>1, <2>2
<1> HIDE DEF started
<1>9. /\ putDone = {} <=> st # 4
      /\ getDone # {} => started.rx # <<>> /\ started.getc # <<>>
  <2>1. PutcAnswered(started) <=> st = 4
    BY <1>6, <1>8 DEF PutcAnswered
  <2>2. GetcAnswered(started) => started.rx # <<>> /\ started.getc # <<>>
    BY DEF GetcAnswered
  <2>3. QED
    BY <2>1, <2>2
<1> HIDE DEF putDone, getDone
<1>10. /\ st = 4 => Tail(started.putc) \in Seq(Clients)
       /\ getDone # {} => /\ Tail(started.getc) \in Seq(Clients) /\ Tail(started.rx) \in Seq(Nat)
                          /\ Head(started.rx) \in Nat
       /\ started.putc \in Seq(Clients) /\ started.getc \in Seq(Clients)
       /\ started.rx \in Seq(Nat)
  <2>1. /\ started.putc \in Seq(Clients) /\ started.getc \in Seq(Clients)
        /\ started.rx \in Seq(Nat)
    BY <1>8 DEF ServerType
  <2>2. st = 4 => started.putc # <<>>
    BY <1>6, <1>8
  <2>3. QED
    BY <1>9, <2>1, <2>2, HeadTailProperties
<1>11. /\ server' \in ServerType /\ server'.awaitcts = started.awaitcts
       /\ server'.putc_state = IF st = 4 THEN 1 ELSE started.putc_state
       /\ server'.putc = IF st = 4 THEN Tail(started.putc) ELSE started.putc
  <2> DEFINE putc == IF st = 4 THEN Tail(started.putc) ELSE started.putc
             state == IF st = 4 THEN 1 ELSE started.putc_state
             getc == IF getDone = {} THEN started.getc ELSE Tail(started.getc)
             rx == IF getDone = {} THEN started.rx ELSE Tail(started.rx)
  <2>1. putc \in Seq(Clients) /\ getc \in Seq(Clients) /\ rx \in Seq(Nat)
    BY <1>10
  <2>2. state \in 0..4
    BY <1>8 DEF ServerType
  <2>3. server' = [started EXCEPT !.putc = putc, !.putc_state = state, !.getc = getc, !.rx = rx]
    BY <1>4, <1>9
  <2> HIDE DEF putc, state, getc, rx
  <2>4. server' \in ServerType
    BY <1>8, <2>1, <2>2, <2>3 DEF ServerType
  <2>5. server'.awaitcts = started.awaitcts /\ server'.putc_state = state /\ server'.putc = putc
    BY <1>8, <2>3 DEF ServerType
  <2>6. QED
    BY <2>4, <2>5 DEF state, putc
<1>12. client' \in [Clients -> {"runs", "putc", "getc", "cts"}]
  <2> HIDE DEF done
  <2>1. QED
    BY <1>1, <1>4
<1>13. got' \in Seq(Nat)
  BY <1>1, <1>4, <1>10, AppendProperties
<1>14. /\ st # 1 => full
       /\ server'.putc_state = IF full /\ st = 1 THEN 0 ELSE IF st = 4 THEN 1 ELSE st
       /\ server'.putc_state # 1 => server'.putc # <<>>
       /\ uart' = IF full /\ st = 1 THEN [uart EXCEPT !.tx = TRUE] ELSE uart
       /\ full \in BOOLEAN
  <2>1. uart' = IF full /\ st = 1 THEN [uart EXCEPT !.tx = TRUE] ELSE uart
    BY <1>4, <1>7
  <2>2. /\ st # 1 => full
        /\ server'.putc_state = IF full /\ st = 1 THEN 0 ELSE IF st = 4 THEN 1 ELSE st
    BY <1>6, <1>8, <1>11
  <2>3. server'.putc_state # 1 => server'.putc # <<>>
    BY <1>8, <1>11, <2>2
  <2>4. QED
    BY <2>1, <2>2, <2>3
<1>15. server'.awaitcts[cts] = IF m.type = "CTSMIM" THEN <<>> ELSE server.awaitcts[cts]
  BY <1>6, <1>8, <1>11
<1> HIDE DEF full
<1>16. \E f \in BOOLEAN, s \in 0..4 :
              /\ s = CASE Change(m) = 1 /\ server.putc_state = 0 -> 2
                       [] Change(m) = 2 /\ server.putc_state = 2 -> 3
                       [] Change(m) = 3 /\ server.putc_state = 3 -> 4
                       [] OTHER -> server.putc_state
              /\ s # 1 => f
              /\ server'.putc_state = IF f /\ s = 1 THEN 0 ELSE IF s = 4 THEN 1 ELSE s
              /\ uart' = IF f /\ s = 1 THEN [uart EXCEPT !.tx = TRUE] ELSE uart
  BY <1>5, <1>14
<1>17. QED
  BY <1>2, <1>3, <1>11, <1>12, <1>13, <1>14, <1>15, <1>16

\* The reports when the message at the front is handled: the notifier's, of
\* which there is only one, is gone.
LEMMA InboxMoves ==
  ASSUME MInv, ServerHandles, NEW m, m = Head(inbox)
  PROVE  /\ MessageInv'
         /\ \A k \in 1..3 : InInbox(k)' <=> InInbox(k) /\ Change(m) = 0
         /\ \A k \in 1..3 : Change(m) # 0 => (InInbox(k) <=> k = Change(m))
         /\ \A k \in 1..3 : WithNotifier(k)' <=> WithNotifier(k)
         /\ \A k \in 1..3 : InQueue(k)' <=> InQueue(k)
<1>1. /\ inbox \in Seq(MsgType) /\ inbox # <<>> /\ inbox' = Tail(inbox)
      /\ m \in MsgType /\ event_q' = event_q /\ ns_table \in Seq(Rows)
      /\ notif' = IF m.tid = ns_find("io_notifier")
                  THEN [at |-> "calls", event |-> Nothing] ELSE notif
  BY HandlesFacts DEF MInv, MarklinTypeOK
<1> DEFINE r == Tail(inbox)
<1>2. /\ m = inbox[1] /\ 1 \in DOMAIN inbox
      /\ \A i \in DOMAIN r : i \in Nat /\ i + 1 \in DOMAIN inbox /\ i + 1 # 1 /\ r[i] = inbox[i + 1]
      /\ \A i \in DOMAIN inbox : i # 1 => i - 1 \in DOMAIN r /\ r[i - 1] = inbox[i]
      /\ \A i \in DOMAIN inbox : i \in Nat \ {0}
  BY <1>1, TailFacts
<1>3. inbox' = r
  BY <1>1
<1> HIDE DEF r
<1>4. /\ m.tid # NotifTid => Change(m) = 0 /\ m.tid # ns_find("io_notifier")
      /\ m.tid = ns_find("io_notifier") => m.tid = NotifTid
  <2>1. ns_find("io_notifier") \in {-1, NotifTid}
    BY <1>1, KnownFacts
  <2>2. m.tid # -1
    <3>1. m.tid \in Clients \cup {NotifTid}
      BY <1>1 DEF MsgType
    <3>2. QED
      BY <3>1, MarklinAssumption DEF NotifTid
  <2>3. m.tid # NotifTid => m.type \in {"PUTC", "GETC", "CTS"}
    BY <1>1 DEF MsgType
  <2>4. QED
    BY <2>1, <2>2, <2>3 DEF Change
<1>5. m.tid = NotifTid => notif.at = "sends" /\ \A i \in DOMAIN r : r[i].tid # NotifTid
  BY <1>2 DEF MInv, MessageInv
<1>6. MessageInv'
  <2>1. notif'.at = "awaits" => event_q' = <<>>
    BY <1>1 DEF MInv, MessageInv
  <2>2. \A i \in DOMAIN r : r[i].tid = NotifTid => notif'.at = "sends"
    <3>1. \A i \in DOMAIN r : r[i].tid = NotifTid => notif.at = "sends"
      BY <1>2 DEF MInv, MessageInv
    <3>2. QED
      BY <1>1, <1>4, <1>5, <3>1
  <2>3. \A i, j \in DOMAIN r : r[i].tid = NotifTid /\ r[j].tid = NotifTid => i = j
    <3> SUFFICES ASSUME NEW i \in DOMAIN r, NEW j \in DOMAIN r,
                        r[i].tid = NotifTid, r[j].tid = NotifTid
                 PROVE  i = j
      OBVIOUS
    <3>1. i + 1 = j + 1
      BY <1>2 DEF MInv, MessageInv
    <3>2. i \in Nat /\ j \in Nat
      BY <1>2
    <3>3. QED
      BY <3>1, <3>2
  <2>4. QED
    BY <1>3, <2>1, <2>2, <2>3 DEF MessageInv
<1>7. ASSUME NEW k \in 1..3
      PROVE  (InInbox(k)' <=> InInbox(k) /\ Change(m) = 0)
             /\ (Change(m) # 0 => (InInbox(k) <=> k = Change(m)))
  <2>1. CASE Change(m) = 0
    <3>1. InInbox(k)' => InInbox(k)
      BY <1>2, <1>3 DEF InInbox
    <3>2. ASSUME NEW i \in DOMAIN inbox, inbox[i].tid = NotifTid, Change(inbox[i]) = k
          PROVE  InInbox(k)'
      <4>1. i # 1
        BY <1>2, <2>1, <3>2
      <4>2. i - 1 \in DOMAIN r /\ r[i - 1] = inbox[i]
        BY <1>2, <4>1
      <4>3. QED
        BY <1>3, <3>2, <4>2 DEF InInbox
    <3>3. QED
      BY <2>1, <3>1, <3>2 DEF InInbox
  <2>2. CASE Change(m) # 0
    <3>1. m.tid = NotifTid
      BY <1>4, <2>2
    <3>2. ~InInbox(k)'
      BY <1>3, <1>5, <3>1 DEF InInbox
    <3>3. InInbox(k) <=> k = Change(m)
      BY <1>2, <3>1 DEF InInbox, MInv, MessageInv
    <3>4. QED
      BY <2>2, <3>2, <3>3
  <2>3. QED
    BY <2>1, <2>2
<1>8. \A k \in 1..3 : WithNotifier(k)' <=> WithNotifier(k)
  <2>1. CASE m.tid = ns_find("io_notifier")
    <3>1. notif.at = "sends" /\ notif'.at = "calls"
      BY <1>1, <1>4, <1>5, <2>1
    <3>2. QED
      BY <3>1 DEF WithNotifier
  <2>2. CASE m.tid # ns_find("io_notifier")
    <3>1. notif' = notif
      BY <1>1, <2>2
    <3>2. QED
      BY <3>1 DEF WithNotifier
  <2>3. QED
    BY <2>1, <2>2
<1>9. \A k \in 1..3 : InQueue(k)' <=> InQueue(k)
  BY <1>1 DEF InQueue
<1>10. QED
  BY <1>6, <1>7, <1>8, <1>9

\* A byte is written only when every change of the byte before is reported
\* and handled: the box is ready.
LEMMA WritesWhenReady ==
  ASSUME BoxInv, ReportInv, MarklinTypeOK, server.putc_state = 1
  PROVE  /\ Heard = 3 /\ Done = 3 /\ box = "ready" /\ cts = 1
         /\ ~uart.tx /\ ~uart.TXIC /\ ~uart.CTSMIM
         /\ \A p \in 1..4, k \in 1..3 : ~Under(p, k)
<1>1. Heard = 3
  BY DEF Heard
<1>2. Done = 3 /\ \A p \in 1..4, k \in 1..3 : ~Under(p, k)
  BY <1>1, Counts DEF ReportInv
<1>3. ~Raised(1) /\ ~Raised(3)
  BY <1>2 DEF Under
<1>4. ~uart.TXIC /\ ~uart.CTSMIM
  BY <1>2, <1>3 DEF Raised
<1>5. ~uart.tx /\ box = "ready"
  <2>1. box \in {"ready", "busy", "takes"}
    BY DEF MarklinTypeOK
  <2>2. QED
    BY <1>2, <2>1 DEF Done
<1>6. cts = 1
  BY <1>5 DEF BoxInv
<1>7. QED
  BY <1>1, <1>2, <1>4, <1>5, <1>6

LEMMA HandlesKeepsIt ==
  ASSUME MInv, ServerHandles
  PROVE  MInv'
<1> DEFINE m == Head(inbox)
           k0 == Change(m)
<1>1. /\ UNCHANGED <<ns_table, cts, box, sent, event_q, calls>>
      /\ inbox # <<>> /\ inbox' = Tail(inbox) /\ m \in MsgType
      /\ server' \in ServerType
      /\ client' \in [Clients -> {"runs", "putc", "getc", "cts"}]
      /\ got' \in Seq(Nat)
      /\ notif' = IF m.tid = ns_find("io_notifier")
                  THEN [at |-> "calls", event |-> Nothing] ELSE notif
      /\ server'.awaitcts[cts] = IF m.type = "CTSMIM" THEN <<>> ELSE server.awaitcts[cts]
      /\ server'.putc_state # 1 => server'.putc # <<>>
  BY HandlesFacts
<1>2. PICK full \in BOOLEAN, st \in 0..4 :
        /\ st = CASE k0 = 1 /\ server.putc_state = 0 -> 2
                  [] k0 = 2 /\ server.putc_state = 2 -> 3
                  [] k0 = 3 /\ server.putc_state = 3 -> 4
                  [] OTHER -> server.putc_state
        /\ st # 1 => full
        /\ server'.putc_state = IF full /\ st = 1 THEN 0 ELSE IF st = 4 THEN 1 ELSE st
        /\ uart' = IF full /\ st = 1 THEN [uart EXCEPT !.tx = TRUE] ELSE uart
  BY HandlesFacts
<1>3. /\ MessageInv'
      /\ \A k \in 1..3 : InInbox(k)' <=> InInbox(k) /\ k0 = 0
      /\ \A k \in 1..3 : k0 # 0 => (InInbox(k) <=> k = k0)
      /\ \A k \in 1..3 : WithNotifier(k)' <=> WithNotifier(k)
      /\ \A k \in 1..3 : InQueue(k)' <=> InQueue(k)
  BY InboxMoves
<1>4. /\ ReportInv /\ BoxInv /\ MarklinTypeOK /\ Known
      /\ server.putc_state \in 0..3 /\ k0 \in 0..3 /\ (k0 \in {2, 3} => m.type = "CTSMIM")
  <2>1. server.putc_state \in 0..4 /\ server.putc_state # 4
    BY DEF MInv, MarklinTypeOK, ServerType, ServerInv
  <2>2. k0 \in 0..3
    BY DEF Change
  <2>3. k0 \in {2, 3} => m.type = "CTSMIM"
    BY DEF Change
  <2>4. Known
    BY <1>1 DEF MInv, ServerInv
  <2>5. QED
    BY <2>1, <2>2, <2>3, <2>4 DEF MInv
<1> HIDE DEF k0, m
<1>5. /\ ReportInv' /\ BoxInv' /\ server'.putc_state # 4
      /\ uart' \in [tx : BOOLEAN, rx : Nat, TXIC : BOOLEAN, RXIC : BOOLEAN, CTSMIM : BOOLEAN]
      /\ server.awaitcts[cts] # <<>> /\ k0 \notin {2, 3} => Done' >= 2 /\ Heard' < Done'
  <2>0. /\ uart \in [tx : BOOLEAN, rx : Nat, TXIC : BOOLEAN, RXIC : BOOLEAN, CTSMIM : BOOLEAN]
        /\ server.awaitcts[cts] # <<>> => Done >= 2 /\ Heard < Done
    BY DEF MInv, MarklinTypeOK, WaiterInv
  <2>1. CASE full /\ st = 1
    <3>1. server.putc_state = 1
      BY <1>2, <2>1
    <3>2. /\ Heard = 3 /\ Done = 3 /\ box = "ready" /\ cts = 1
          /\ ~uart.tx /\ ~uart.TXIC /\ ~uart.CTSMIM
      BY <1>4, <3>1, WritesWhenReady
    <3>3. uart' = [uart EXCEPT !.tx = TRUE] /\ server'.putc_state = 0
      BY <1>2, <2>1
    <3>4. /\ uart' \in [tx : BOOLEAN, rx : Nat, TXIC : BOOLEAN, RXIC : BOOLEAN, CTSMIM : BOOLEAN]
          /\ uart'.tx /\ ~uart'.TXIC /\ ~uart'.CTSMIM
      BY <2>0, <3>2, <3>3
    <3>5. Done' = 0 /\ Heard' = 0
      BY <3>3, <3>4 DEF Done, Heard
    <3>6. ReportInv'
      <4>1. \A k \in 1..3 : ~Raised(k)'
        BY <3>4 DEF Raised
      <4>2. \A p \in 1..4, k \in 1..3 : Under(p, k)' => Under(p, k)
        BY <1>3, <4>1 DEF Under
      <4>3. event_q' = event_q
        BY <1>1
      <4>4. QED
        BY <1>4, <3>2, <3>5, <4>2, <4>3, Begins
    <3>7. BoxInv'
      <4>1. box' = "ready" /\ cts' = 1
        BY <1>1, <3>2
      <4>2. QED
        BY <3>4, <4>1 DEF BoxInv
    <3>8. QED
      BY <2>0, <3>2, <3>3, <3>4, <3>6, <3>7
  <2>2. CASE ~(full /\ st = 1) /\ k0 # 0
    <3>1. uart' = uart
      BY <1>2, <2>2
    <3>2. Done' = Done
      BY <1>1, <3>1 DEF Done
    <3>3. /\ \A k \in 1..3 : Under(1, k) => k = k0
          /\ k0 \in 1..3
      BY <1>3, <1>4, <2>2 DEF Under
    <3>4. Under(1, k0)
      BY <1>3, <2>2, <3>3 DEF Under
    <3>5. k0 = Heard + 1 /\ k0 <= Done
      BY <1>4, <3>3, <3>4, IsNext
    <3>6. /\ k0 = 1 => server.putc_state = 0
          /\ k0 = 2 => server.putc_state = 2
          /\ k0 = 3 => server.putc_state = 3
      BY <1>4, <3>5 DEF Heard
    <3>7. /\ k0 = 1 => server'.putc_state = 2
          /\ k0 = 2 => server'.putc_state = 3
          /\ k0 = 3 => server'.putc_state = 1
      BY <1>2, <3>6
    <3>8. Heard' = k0 /\ server'.putc_state # 4
      BY <3>3, <3>7 DEF Heard
    <3>9. ReportInv'
      <4>1. \A k \in 1..3 : Raised(k)' <=> Raised(k)
        BY <3>1, <3>2 DEF Raised
      <4>2. \A p \in 1..4, k \in 1..3 : Under(p, k)' <=> p # 1 /\ Under(p, k)
        BY <1>3, <2>2, <4>1 DEF Under
      <4>3. event_q' = event_q /\ Heard' = Heard + 1
        BY <1>1, <3>5, <3>8
      <4>4. QED
        BY <1>4, <3>2, <3>3, <3>4, <4>2, <4>3, IsHeard
    <3>10. BoxInv'
      BY <1>1, <1>4, <3>1, <3>2 DEF BoxInv
    <3>11. server.awaitcts[cts] # <<>> /\ k0 \notin {2, 3} => Done' >= 2 /\ Heard' < Done'
      <4>1. Done \in 0..3
        BY Counts
      <4>2. QED
        BY <2>0, <3>2, <3>3, <3>8, <4>1
    <3>12. QED
      BY <2>0, <3>1, <3>8, <3>9, <3>10, <3>11
  <2>3. CASE ~(full /\ st = 1) /\ k0 = 0
    <3>1. uart' = uart /\ server'.putc_state = server.putc_state
      BY <1>2, <1>4, <2>3
    <3>2. Done' = Done /\ Heard' = Heard
      BY <1>1, <3>1 DEF Done, Heard
    <3>3. ReportInv'
      <4>1. \A k \in 1..3 : Raised(k)' <=> Raised(k)
        BY <3>1, <3>2 DEF Raised
      <4>2. \A p \in 1..4, k \in 1..3 : Under(p, k)' <=> Under(p, k)
        BY <1>3, <2>3, <4>1 DEF Under
      <4>3. event_q' = event_q
        BY <1>1
      <4>4. QED
        BY <1>4, <3>2, <4>2, <4>3, NoneMoves
    <3>4. BoxInv'
      BY <1>1, <1>4, <3>1, <3>2 DEF BoxInv
    <3>5. QED
      BY <1>4, <2>0, <3>1, <3>2, <3>3, <3>4
  <2>4. QED
    BY <2>1, <2>2, <2>3
<1>6. MarklinTypeOK'
  <2>1. notif' \in [at : {"starts", "calls", "awaits", "looks up", "sends"}, event : EventType]
    BY <1>1, <1>4 DEF MarklinTypeOK, EventType, Nothing, Event, NoByte
  <2>2. inbox' \in Seq(MsgType)
    BY <1>1, <1>4, HeadTailProperties DEF MarklinTypeOK
  <2>3. QED
    BY <1>1, <1>4, <1>5, <2>1, <2>2 DEF MarklinTypeOK
<1>7. ServerInv'
  BY <1>1, <1>4, <1>5 DEF ServerInv, Known, Named
<1>8. WaiterInv'
  <2>1. cts' = cts
    BY <1>1
  <2>2. server'.awaitcts[cts] # <<>> => server.awaitcts[cts] # <<>> /\ k0 \notin {2, 3}
    BY <1>1, <1>4
  <2>3. QED
    BY <1>5, <2>1, <2>2 DEF WaiterInv
<1>9. QED
  BY <1>3, <1>5, <1>6, <1>7, <1>8 DEF MInv

-----------------------------------------------------------------------------

LEMMA MarklinStep ==
  ASSUME MInv, [MNext]_marklinVars
  PROVE  MInv'
<1>1. CASE Line
  BY <1>1, LineKeepsIt
<1>2. CASE BoxSends
  BY <1>2, BoxSendsKeepsIt
<1>3. CASE MarklinIRQ
  BY <1>3, IRQKeepsIt
<1>4. CASE NotifierAwaits
  BY <1>4, AwaitsKeepsIt
<1>5. CASE NotifierForwards
  BY <1>5, ForwardsKeepsIt
<1>6. CASE NotifierRegisters \/ ServerRegisters
  BY <1>6, RegistersKeepsIt
<1>7. CASE ServerHandles
  BY <1>7, HandlesKeepsIt
<1>8. CASE Client
  <2>1. PICK c \in Clients : Putc(c) \/ Getc(c) \/ awaitCTS(c)
    BY <1>8 DEF Client
  <2>2. CASE Putc(c)
    BY <2>2, AsksKeepsIt DEF Putc, NoByte
  <2>3. CASE Getc(c)
    BY <2>3, AsksKeepsIt DEF Getc, NoByte
  <2>4. CASE awaitCTS(c)
    BY <2>4, AsksKeepsIt DEF awaitCTS
  <2>5. QED
    BY <2>1, <2>2, <2>3, <2>4
<1>9. CASE UNCHANGED marklinVars
  <2>1. UNCHANGED <<ns_table, uart, cts, box, sent, event_q, notif, server, inbox, client, calls, got>>
    BY <1>9 DEF marklinVars
  <2>2. Done' = Done /\ Heard' = Heard
    BY <2>1 DEF Done, Heard
  <2>3. \A p \in 1..4, k \in 1..3 : Under(p, k)' <=> Under(p, k)
    BY <2>1, <2>2, StaysUnder DEF Under
  <2>4. ReportInv'
    BY <2>1, <2>2, <2>3, NoneMoves DEF MInv
  <2>5. MarklinTypeOK' /\ MessageInv'
    BY <2>1 DEF MInv, MarklinTypeOK, MessageInv
  <2>6. BoxInv' /\ WaiterInv'
    BY <2>1, <2>2 DEF MInv, BoxInv, WaiterInv
  <2>7. ServerInv'
    BY <2>1 DEF MInv, ServerInv, Known, Named
  <2>8. QED
    BY <2>4, <2>5, <2>6, <2>7 DEF MInv
<1>10. QED
  BY <1>1, <1>2, <1>3, <1>4, <1>5, <1>6, <1>7, <1>8, <1>9 DEF MNext, Notifier, Server

\* The handshake of the line: each change of the box since the last byte is
\* reported exactly once, the reports keep their order through the interrupt
\* register, the kernel's queue, the notifier and the server's inbox, and
\* putc_state counts those the server has had.
THEOREM MarklinInvariant == MSpec => []MInv
<1>1. MInit => MInv
  BY MarklinInitially
<1>2. MInv /\ [MNext]_marklinVars => MInv'
  BY MarklinStep
<1>3. QED
  BY <1>1, <1>2, PTL DEF MSpec

\* awaitCTS() does not leave a client asleep that waits for the value CTS has:
\* a waiter for it has the report of the change under way, so when nothing is
\* queued, raised or unread nobody waits.
THEOREM CtsWaitersWoken == MSpec => []CtsWaiterIsWoken
<1>1. ASSUME MInv
      PROVE  CtsWaiterIsWoken
  <2> SUFFICES ASSUME event_q = <<>>, notif.at = "awaits", inbox = <<>>, ~uart.CTSMIM,
                      server.awaitcts[cts] # <<>>
               PROVE  FALSE
    BY DEF CtsWaiterIsWoken
  <2>1. Done \in 2..3 /\ Heard < Done /\ ReportInv
    BY Counts, <1>1 DEF MInv, WaiterInv
  <2>2. PICK p \in 1..4 : Under(p, Done)
    BY <2>1, Counts DEF ReportInv
  <2>3. ~InInbox(Done) /\ ~InQueue(Done)
    BY DEF InInbox, InQueue
  <2>4. ~WithNotifier(Done)
    BY DEF WithNotifier
  <2>5. ~Raised(Done)
    BY <2>1 DEF Raised
  <2>6. QED
    BY <2>2, <2>3, <2>4, <2>5 DEF Under
<1>2. QED
  BY <1>1, MarklinInvariant, PTL

\* uart_putc() writes only to a box that is ready: the byte before has been
\* taken, and CTS has fallen and risen since.
THEOREM NoByteOverruns == MSpec => NoOverrun
<1>1. ASSUME MInv, [MNext]_marklinVars, uart'.tx, ~uart.tx
      PROVE  box = "ready" /\ cts = 1 /\ ~uart.TXIC
  <2>1. ServerHandles
    <3>1. uart \in [tx : BOOLEAN, rx : Nat, TXIC : BOOLEAN, RXIC : BOOLEAN, CTSMIM : BOOLEAN]
      BY <1>1 DEF MInv, MarklinTypeOK
    <3>2. uart' # uart
      BY <1>1
    <3>3. ~Line
      BY <1>1, <3>1 DEF Line, BoxTakesByte, CtsFalls, CtsRises
    <3>4. ~BoxSends
      BY <1>1, <3>1 DEF BoxSends
    <3>5. ~MarklinIRQ
      BY <1>1, <3>1 DEF MarklinIRQ
    <3>6. ~Notifier /\ ~ServerRegisters /\ ~Client
      BY <3>2 DEF Notifier, NotifierRegisters, NotifierAwaits, NotifierForwards,
                  ServerRegisters, Client, Putc, Getc, awaitCTS, Asks, device
    <3>7. ~UNCHANGED marklinVars
      BY <3>2 DEF marklinVars
    <3>8. QED
      BY <1>1, <3>3, <3>4, <3>5, <3>6, <3>7 DEF MNext, Server
  <2>2. PICK full \in BOOLEAN, st \in 0..4 :
          /\ st = CASE Change(Head(inbox)) = 1 /\ server.putc_state = 0 -> 2
                    [] Change(Head(inbox)) = 2 /\ server.putc_state = 2 -> 3
                    [] Change(Head(inbox)) = 3 /\ server.putc_state = 3 -> 4
                    [] OTHER -> server.putc_state
          /\ uart' = IF full /\ st = 1 THEN [uart EXCEPT !.tx = TRUE] ELSE uart
    BY <1>1, <2>1, HandlesFacts
  <2>3. st = 1
    BY <1>1, <2>2
  <2>4. server.putc_state = 1
    BY <2>2, <2>3
  <2>5. QED
    BY <1>1, <2>4, WritesWhenReady DEF MInv
<1>2. MInv /\ [MNext]_marklinVars =>
        [uart'.tx /\ ~uart.tx => box = "ready" /\ cts = 1 /\ ~uart.TXIC]_marklinVars
  BY <1>1
<1>3. QED
  BY <1>2, MarklinInvariant, PTL DEF MSpec, NoOverrun

-----------------------------------------------------------------------------
(* The bytes from the box.  They come through the same four places as the  *)
(* reports, and keep their order in the same way; but there may be any     *)
(* number of them, and those that come before the server are dropped.      *)

HoldsByte(q, b) == \E i \in DOMAIN q : q[i].type = "RXIC" /\ q[i].val = b
Ascends(q) ==
  \A i, j \in DOMAIN q : i < j /\ q[i].type = "RXIC" /\ q[j].type = "RXIC" => q[i].val < q[j].val

ByteAt(place, b) ==
  CASE place = 1 -> HoldsByte(inbox, b)
    [] place = 2 -> notif.at = "looks up" /\ notif.event.type = "RXIC" /\ notif.event.val = b
    [] place = 3 -> HoldsByte(event_q, b)
    [] OTHER -> uart.RXIC /\ uart.rx = b

\* The bytes after lo are on their way, each in one place.
OnTheWay(lo) ==
  /\ \A b \in Nat : (\E p \in 1..4 : ByteAt(p, b)) <=> lo < b /\ b <= sent
  /\ \A p, q \in 1..4, b, c \in Nat : p < q /\ ByteAt(p, b) /\ ByteAt(q, c) => b < c
  /\ Ascends(event_q)

\* The bytes the server has had: n were dropped before it registered.
Received == got \o server.rx
Has(n) == /\ \A i \in DOMAIN Received : Received[i] = n + i
          /\ ~Known => Received = <<>>

ByteInv == \E n \in Nat : /\ n + Len(Received) <= sent
                          /\ Has(n) /\ OnTheWay(n + Len(Received))

LEMMA HoldsAppended ==
  ASSUME NEW T, NEW q \in Seq(T), NEW x \in T, NEW r, r = Append(q, x)
  PROVE  /\ \A b : HoldsByte(r, b) <=> HoldsByte(q, b) \/ (x.type = "RXIC" /\ x.val = b)
         /\ Ascends(q) /\ (x.type = "RXIC" => \A b : HoldsByte(q, b) => b < x.val) => Ascends(r)
<1>1. /\ Len(q) \in Nat
      /\ DOMAIN q = 1..Len(q) /\ DOMAIN r = 1..(Len(q) + 1)
      /\ \A i \in DOMAIN q : r[i] = q[i]
      /\ r[Len(q) + 1] = x
      /\ \A i \in DOMAIN r : i \in DOMAIN q \/ i = Len(q) + 1
  <2> DEFINE s == Append(q, x)
  <2>1. /\ Len(q) \in Nat
        /\ DOMAIN q = 1..Len(q) /\ DOMAIN s = 1..(Len(q) + 1)
        /\ \A i \in DOMAIN q : s[i] = q[i]
        /\ s[Len(q) + 1] = x
        /\ \A i \in DOMAIN s : i \in DOMAIN q \/ i = Len(q) + 1
    BY AppendFacts
  <2> HIDE DEF s
  <2>2. r = s
    BY DEF s
  <2>3. QED
    BY <2>1, <2>2
<1>2. (\A i \in DOMAIN q : i \in DOMAIN r) /\ Len(q) + 1 \in DOMAIN r
  BY <1>1
<1>3. \A b : HoldsByte(r, b) <=> HoldsByte(q, b) \/ (x.type = "RXIC" /\ x.val = b)
  BY <1>1, <1>2 DEF HoldsByte
<1>4. ASSUME Ascends(q), x.type = "RXIC" => \A b : HoldsByte(q, b) => b < x.val
      PROVE  Ascends(r)
  <2> SUFFICES ASSUME NEW i \in DOMAIN r, NEW j \in DOMAIN r, i < j,
                      r[i].type = "RXIC", r[j].type = "RXIC"
               PROVE  r[i].val < r[j].val
    BY DEF Ascends
  <2>1. i \in DOMAIN q /\ r[i] = q[i]
    BY <1>1
  <2>2. CASE j \in DOMAIN q
    BY <1>1, <1>4, <2>1, <2>2 DEF Ascends
  <2>3. CASE j = Len(q) + 1
    <3>1. HoldsByte(q, q[i].val)
      BY <2>1 DEF HoldsByte
    <3>2. QED
      BY <1>1, <1>4, <2>1, <2>3, <3>1
  <2>4. QED
    BY <1>1, <2>2, <2>3
<1>5. QED
  BY <1>3, <1>4

LEMMA HoldsTail ==
  ASSUME NEW T, NEW q \in Seq(T), q # <<>>, NEW x, x = Head(q), NEW r, r = Tail(q)
  PROVE  /\ \A b : HoldsByte(q, b) <=> HoldsByte(r, b) \/ (x.type = "RXIC" /\ x.val = b)
         /\ Ascends(q) => Ascends(r)
         /\ Ascends(q) /\ x.type = "RXIC" => \A b : HoldsByte(r, b) => x.val < b
<1>1. /\ 1 \in DOMAIN q /\ x = q[1]
      /\ \A i \in DOMAIN r : i \in Nat /\ i + 1 \in DOMAIN q /\ i + 1 # 1 /\ r[i] = q[i + 1]
      /\ \A i \in DOMAIN q : i # 1 => i - 1 \in DOMAIN r /\ r[i - 1] = q[i]
      /\ \A i \in DOMAIN q : i \in Nat \ {0}
  <2> DEFINE s == Tail(q)
  <2>1. /\ 1 \in DOMAIN q /\ Head(q) = q[1]
        /\ \A i \in DOMAIN s : i \in Nat /\ i + 1 \in DOMAIN q /\ i + 1 # 1 /\ s[i] = q[i + 1]
        /\ \A i \in DOMAIN q : i # 1 => i - 1 \in DOMAIN s /\ s[i - 1] = q[i]
        /\ \A i \in DOMAIN q : i \in Nat \ {0}
    BY TailFacts
  <2> HIDE DEF s
  <2>2. r = s
    BY DEF s
  <2>3. QED
    BY <2>1, <2>2
<1>2. ASSUME NEW b
      PROVE  HoldsByte(q, b) <=> HoldsByte(r, b) \/ (x.type = "RXIC" /\ x.val = b)
  <2>1. ASSUME NEW i \in DOMAIN q, q[i].type = "RXIC", q[i].val = b, i # 1
        PROVE  HoldsByte(r, b)
    <3>1. i - 1 \in DOMAIN r /\ r[i - 1] = q[i]
      BY <1>1, <2>1
    <3>2. QED
      BY <2>1, <3>1 DEF HoldsByte
  <2>2. ASSUME NEW i \in DOMAIN r, r[i].type = "RXIC", r[i].val = b
        PROVE  HoldsByte(q, b)
    <3>1. i + 1 \in DOMAIN q /\ r[i] = q[i + 1]
      BY <1>1
    <3>2. QED
      BY <2>2, <3>1 DEF HoldsByte
  <2>3. QED
    BY <1>1, <2>1, <2>2 DEF HoldsByte
<1>3. ASSUME Ascends(q), NEW i \in DOMAIN r, NEW j \in DOMAIN r, i < j,
             r[i].type = "RXIC", r[j].type = "RXIC"
      PROVE  r[i].val < r[j].val
  <2>1. i + 1 \in DOMAIN q /\ j + 1 \in DOMAIN q /\ i + 1 < j + 1
    BY <1>1, <1>3
  <2>2. QED
    BY <1>1, <1>3, <2>1 DEF Ascends
<1>4. ASSUME Ascends(q), x.type = "RXIC", NEW i \in DOMAIN r, r[i].type = "RXIC"
      PROVE  x.val < r[i].val
  <2>1. i + 1 \in DOMAIN q /\ 1 < i + 1
    BY <1>1
  <2>2. QED
    BY <1>1, <1>4, <2>1 DEF Ascends
<1>5. QED
  BY <1>2, <1>3, <1>4 DEF Ascends, HoldsByte

\* A byte moves on to a place nearer to the server.
LEMMA ByteMovesOn ==
  ASSUME NEW lo \in Nat, OnTheWay(lo), sent' = sent,
         NEW from \in 1..4, NEW to \in 1..4, to < from, NEW b0 \in Nat,
         ByteAt(from, b0), \A b \in Nat : ByteAt(from, b) => b0 <= b,
         \A p \in 1..4, b \in Nat : to < p /\ p < from => ~ByteAt(p, b),
         \A p \in 1..4, b \in Nat :
           ByteAt(p, b)' <=> (ByteAt(p, b) /\ ~(p = from /\ b = b0)) \/ (p = to /\ b = b0),
         Ascends(event_q)'
  PROVE  OnTheWay(lo)'
<1>1. \A b \in Nat : (\E p \in 1..4 : ByteAt(p, b)') <=> (\E p \in 1..4 : ByteAt(p, b))
  OBVIOUS
<1>2. ASSUME NEW p \in 1..4, NEW q \in 1..4, NEW b \in Nat, NEW c \in Nat,
             p < q, ByteAt(p, b)', ByteAt(q, c)'
      PROVE  b < c
  <2>1. CASE ByteAt(p, b) /\ ByteAt(q, c)
    BY <1>2, <2>1 DEF OnTheWay
  <2>2. CASE p = to /\ b = b0 /\ ByteAt(q, c) /\ ~(q = from /\ c = b0)
    <3>1. CASE q = from
      BY <1>2, <2>2, <3>1
    <3>2. CASE q # from
      BY <1>2, <2>2, <3>2 DEF OnTheWay
    <3>3. QED
      BY <3>1, <3>2
  <2>3. CASE q = to /\ c = b0 /\ ByteAt(p, b)
    BY <1>2, <2>3 DEF OnTheWay
  <2>4. QED
    BY <1>2, <2>1, <2>2, <2>3
<1>3. QED
  BY <1>1, <1>2 DEF OnTheWay

\* No byte moves.
LEMMA BytesStay ==
  ASSUME NEW lo \in Nat, OnTheWay(lo), sent' = sent, Ascends(event_q)',
         \A p \in 1..4, b \in Nat : ByteAt(p, b)' <=> ByteAt(p, b)
  PROVE  OnTheWay(lo)'
BY DEF OnTheWay

\* The first byte leaves: the server gets it, or nobody does.
LEMMA ByteLeaves ==
  ASSUME NEW lo \in Nat, OnTheWay(lo), sent \in Nat, sent' = sent, event_q' = event_q,
         NEW p0 \in 1..4, NEW b0 \in Nat, ByteAt(p0, b0), \A b \in Nat : ByteAt(p0, b) => b = b0,
         \A p \in 1..4, b \in Nat : p < p0 => ~ByteAt(p, b),
         \A p \in 1..4, b \in Nat : ByteAt(p, b)' <=> p # p0 /\ ByteAt(p, b)
  PROVE  b0 = lo + 1 /\ lo + 1 <= sent /\ OnTheWay(lo + 1)'
<1>1. lo < b0 /\ b0 <= sent
  BY DEF OnTheWay
<1>2. lo + 1 \in Nat /\ lo < lo + 1 /\ lo + 1 <= sent
  BY <1>1
<1>3. PICK p1 \in 1..4 : ByteAt(p1, lo + 1)
  BY <1>2 DEF OnTheWay
<1>4. p0 < p1 => b0 < lo + 1
  BY <1>2, <1>3 DEF OnTheWay
<1>5. p1 = p0
  <2>1. ~(p1 < p0)
    BY <1>2, <1>3
  <2>2. QED
    BY <1>1, <1>2, <1>4, <2>1
<1>6. b0 = lo + 1
  BY <1>2, <1>3, <1>5
<1>7. ASSUME NEW b \in Nat
      PROVE  (\E p \in 1..4 : ByteAt(p, b)') <=> lo + 1 < b /\ b <= sent
  <2>1. (\E p \in 1..4 : ByteAt(p, b)') <=> (\E p \in 1..4 : ByteAt(p, b)) /\ b # b0
    <3>1. ASSUME NEW p \in 1..4, p # p0, ByteAt(p, b) PROVE b # b0
      <4>1. p0 < p
        BY <3>1
      <4>2. b0 < b
        BY <3>1, <4>1 DEF OnTheWay
      <4>3. QED
        BY <4>2
    <3>2. QED
      BY <3>1
  <2>2. (\E p \in 1..4 : ByteAt(p, b)) <=> lo < b /\ b <= sent
    BY DEF OnTheWay
  <2>3. QED
    BY <1>6, <2>1, <2>2
<1>8. \A p, q \in 1..4, b, c \in Nat : p < q /\ ByteAt(p, b)' /\ ByteAt(q, c)' => b < c
  BY DEF OnTheWay
<1>9. Ascends(event_q)'
  BY DEF OnTheWay
<1>10. QED
  BY <1>2, <1>6, <1>7, <1>8, <1>9 DEF OnTheWay

\* The box sends the next byte.
LEMMA ByteComes ==
  ASSUME NEW lo \in Nat, OnTheWay(lo), sent \in Nat, lo <= sent, sent' = sent + 1, event_q' = event_q,
         \A p \in 1..4, b \in Nat : ByteAt(p, b)' <=> ByteAt(p, b) \/ (p = 4 /\ b = sent + 1)
  PROVE  OnTheWay(lo)'
<1>1. \A p \in 1..4, b \in Nat : ByteAt(p, b) => lo < b /\ b <= sent
  BY DEF OnTheWay
<1>2. ASSUME NEW b \in Nat
      PROVE  (\E p \in 1..4 : ByteAt(p, b)') <=> lo < b /\ b <= sent + 1
  <2>1. (\E p \in 1..4 : ByteAt(p, b)') <=> (\E p \in 1..4 : ByteAt(p, b)) \/ b = sent + 1
    OBVIOUS
  <2>2. (\E p \in 1..4 : ByteAt(p, b)) <=> lo < b /\ b <= sent
    BY DEF OnTheWay
  <2>3. QED
    BY <2>1, <2>2
<1>3. ASSUME NEW p \in 1..4, NEW q \in 1..4, NEW b \in Nat, NEW c \in Nat,
             p < q, ByteAt(p, b)', ByteAt(q, c)'
      PROVE  b < c
  <2>1. ByteAt(p, b)
    BY <1>3
  <2>2. CASE ByteAt(q, c)
    BY <1>3, <2>1, <2>2 DEF OnTheWay
  <2>3. CASE c = sent + 1
    BY <1>1, <2>1, <2>3
  <2>4. QED
    BY <1>3, <2>2, <2>3
<1>4. Ascends(event_q)'
  BY DEF OnTheWay
<1>5. QED
  BY <1>2, <1>3, <1>4 DEF OnTheWay

LEMMA BytePlaces ==
  ASSUME NEW b
  PROVE  /\ ByteAt(1, b) <=> HoldsByte(inbox, b)
         /\ ByteAt(2, b) <=> notif.at = "looks up" /\ notif.event.type = "RXIC" /\ notif.event.val = b
         /\ ByteAt(3, b) <=> HoldsByte(event_q, b)
         /\ ByteAt(4, b) <=> uart.RXIC /\ uart.rx = b
         /\ ByteAt(1, b)' <=> HoldsByte(inbox', b)
         /\ ByteAt(2, b)' <=> notif'.at = "looks up" /\ notif'.event.type = "RXIC" /\ notif'.event.val = b
         /\ ByteAt(3, b)' <=> HoldsByte(event_q', b)
         /\ ByteAt(4, b)' <=> uart'.RXIC /\ uart'.rx = b
         /\ inbox' = inbox => (ByteAt(1, b)' <=> ByteAt(1, b))
         /\ notif' = notif => (ByteAt(2, b)' <=> ByteAt(2, b))
         /\ event_q' = event_q => (ByteAt(3, b)' <=> ByteAt(3, b))
         /\ uart'.RXIC = uart.RXIC /\ uart'.rx = uart.rx => (ByteAt(4, b)' <=> ByteAt(4, b))
<1>1. /\ ByteAt(1, b) <=> HoldsByte(inbox, b)
      /\ ByteAt(2, b) <=> notif.at = "looks up" /\ notif.event.type = "RXIC" /\ notif.event.val = b
      /\ ByteAt(3, b) <=> HoldsByte(event_q, b)
      /\ ByteAt(4, b) <=> uart.RXIC /\ uart.rx = b
  BY DEF ByteAt
<1>2. /\ ByteAt(1, b)' <=> HoldsByte(inbox', b)
      /\ ByteAt(2, b)' <=> notif'.at = "looks up" /\ notif'.event.type = "RXIC" /\ notif'.event.val = b
      /\ ByteAt(3, b)' <=> HoldsByte(event_q', b)
      /\ ByteAt(4, b)' <=> uart'.RXIC /\ uart'.rx = b
  BY DEF ByteAt, HoldsByte
<1>3. notif' = notif => (ByteAt(2, b)' <=> ByteAt(2, b))
  BY DEF ByteAt
<1>4. /\ inbox' = inbox => (HoldsByte(inbox', b) <=> HoldsByte(inbox, b))
      /\ event_q' = event_q => (HoldsByte(event_q', b) <=> HoldsByte(event_q, b))
  OBVIOUS
<1>5. QED
  BY <1>1, <1>2, <1>3, <1>4

LEMMA ReceivedFacts ==
  ASSUME MarklinTypeOK
  PROVE  Received \in Seq(Nat) /\ Len(Received) \in Nat /\ DOMAIN Received = 1..Len(Received)
<1>1. got \in Seq(Nat) /\ server.rx \in Seq(Nat)
  BY DEF MarklinTypeOK, ServerType
<1>2. Received \in Seq(Nat)
  BY <1>1, ConcatProperties DEF Received
<1>3. QED
  BY <1>2, LenProperties

\* A step in which the server gets no byte.
LEMMA NoneReceived ==
  ASSUME MInv, ByteInv, Received' = Received, sent' \in Nat, sent' >= sent, Known => Known',
         \A n \in Nat : n + Len(Received) <= sent /\ OnTheWay(n + Len(Received)) =>
                          OnTheWay(n + Len(Received))'
  PROVE  ByteInv'
<1>1. PICK n \in Nat : /\ n + Len(Received) <= sent
                       /\ Has(n) /\ OnTheWay(n + Len(Received))
  BY DEF ByteInv
<1>2. PICK len \in Nat : len = Len(Received)
  BY ReceivedFacts DEF MInv
<1>3. Received' = Received /\ Len(Received') = len
  BY <1>2
<1>4. n + len <= sent' 
  <2>1. n + len <= sent /\ sent \in Nat
    BY <1>1, <1>2 DEF MInv, MarklinTypeOK
  <2>2. QED
    BY <2>1
<1>5. Has(n)'
  BY <1>1 DEF Has
<1>6. OnTheWay(n + len)'
  BY <1>1, <1>2
<1>7. QED
  BY <1>3, <1>4, <1>5, <1>6 DEF ByteInv

LEMMA BytesInitially == MInit => ByteInv
<1> SUFFICES ASSUME MInit PROVE ByteInv
  OBVIOUS
<1>1. /\ event_q = <<>> /\ inbox = <<>> /\ sent = 0 /\ notif.at = "starts" /\ ~uart.RXIC
      /\ server.rx = <<>> /\ got = <<>>
  BY DEF MInit
<1>2. Received = <<>> /\ Len(Received) = 0
  BY <1>1 DEF Received
<1>3. \A p \in 1..4, b \in Nat : ~ByteAt(p, b)
  BY <1>1 DEF ByteAt, HoldsByte
<1>4. OnTheWay(0)
  BY <1>1, <1>3 DEF OnTheWay, Ascends
<1>5. Has(0)
  BY <1>2 DEF Has
<1>6. QED
  BY <1>1, <1>2, <1>4, <1>5 DEF ByteInv

\* A step that touches neither the bytes nor the queue.
LEMMA LeavesBytes ==
  ASSUME MInv, ByteInv, got' = got, server'.rx = server.rx, sent' = sent, event_q' = event_q,
         Known => Known', uart'.RXIC = uart.RXIC, uart'.rx = uart.rx,
         \A b \in Nat : (ByteAt(1, b)' <=> ByteAt(1, b)) /\ (ByteAt(2, b)' <=> ByteAt(2, b))
  PROVE  ByteInv'
<1>1. \A p \in 1..4, b \in Nat : ByteAt(p, b)' <=> ByteAt(p, b)
  <2>1. \A b \in Nat : (ByteAt(3, b)' <=> ByteAt(3, b)) /\ (ByteAt(4, b)' <=> ByteAt(4, b))
    BY BytePlaces
  <2>2. \A p \in 1..4 : p = 1 \/ p = 2 \/ p = 3 \/ p = 4
    OBVIOUS
  <2>3. QED
    BY <2>1, <2>2
<1>2. Received' = Received
  BY DEF Received
<1>3. sent' \in Nat /\ sent' >= sent
  <2>1. sent \in Nat
    BY DEF MInv, MarklinTypeOK
  <2>2. \A k \in Nat : k >= k
    OBVIOUS
  <2>3. QED
    BY <2>1, <2>2, Zenon
<1>4. ASSUME NEW n \in Nat, OnTheWay(n + Len(Received))
      PROVE  OnTheWay(n + Len(Received))'
  <2>1. PICK lo \in Nat : lo = n + Len(Received)
    BY ReceivedFacts DEF MInv
  <2>2. Ascends(event_q)'
    BY <1>4 DEF OnTheWay
  <2>3. OnTheWay(lo)'
    BY <1>1, <1>4, <2>1, <2>2, BytesStay
  <2>4. QED
    BY <1>2, <2>1, <2>3
<1>5. QED
  BY <1>2, <1>3, <1>4, NoneReceived

LEMMA LineLeavesBytes ==
  ASSUME MInv, ByteInv, Line
  PROVE  ByteInv'
<1>1. UNCHANGED <<ns_table, sent, event_q, notif, server, inbox, got>>
  BY DEF Line, BoxTakesByte, CtsFalls, CtsRises, history
<1>2. uart'.RXIC = uart.RXIC /\ uart'.rx = uart.rx
  <2>1. uart \in [tx : BOOLEAN, rx : Nat, TXIC : BOOLEAN, RXIC : BOOLEAN, CTSMIM : BOOLEAN]
    BY DEF MInv, MarklinTypeOK
  <2>2. QED
    BY <2>1 DEF Line, BoxTakesByte, CtsFalls, CtsRises
<1>3. Known => Known'
  BY <1>1 DEF Known, Named
<1>4. QED
  BY <1>1, <1>2, <1>3, BytePlaces, LeavesBytes

LEMMA RegistersLeavesBytes ==
  ASSUME MInv, ByteInv, NotifierRegisters \/ ServerRegisters
  PROVE  ByteInv'
<1>1. /\ UNCHANGED <<uart, sent, event_q, inbox, got>>
      /\ server'.rx = server.rx
      /\ notif' = notif \/ (notif.at = "starts" /\ notif'.at = "calls")
  <2>1. /\ server \in ServerType
        /\ notif \in [at : {"starts", "calls", "awaits", "looks up", "sends"}, event : EventType]
    BY DEF MInv, MarklinTypeOK
  <2>2. CASE NotifierRegisters
    BY <2>1, <2>2 DEF NotifierRegisters, device, history
  <2>3. CASE ServerRegisters
    BY <2>1, <2>3 DEF ServerRegisters, device, history, ServerType
  <2>4. QED
    BY <2>2, <2>3
<1>2. Known => Known'
  <2>1. ns_table \in Seq(Rows)
    BY DEF MInv, MarklinTypeOK
  <2>2. PICK row \in Rows : ns_table' = ns_add(row.name, row.tid)
                            /\ [name |-> row.name, tid |-> row.tid] \in Rows
    <3>1. /\ [name |-> "io_notifier", tid |-> NotifTid] \in Rows
          /\ [name |-> "Uart2Marklin", tid |-> ServerTid] \in Rows
      BY DEF Rows
    <3>2. QED
      BY <3>1 DEF NotifierRegisters, ServerRegisters
  <2>3. QED
    BY <2>1, <2>2, AddsRow
<1>3. \A b \in Nat : ByteAt(2, b)' <=> ByteAt(2, b)
  BY <1>1 DEF ByteAt
<1>4. QED
  BY <1>1, <1>2, <1>3, BytePlaces, LeavesBytes

LEMMA AsksLeavesBytes ==
  ASSUME MInv, ByteInv, NEW c \in Clients, NEW type \in {"PUTC", "GETC", "CTS"},
         NEW val \in {0, 1}, NEW wait, Asks(c, type, val, wait)
  PROVE  ByteInv'
<1>1. /\ UNCHANGED <<ns_table, uart, sent, event_q, notif, server, got>>
      /\ inbox' = Append(inbox, Msg(c, type, val)) /\ inbox \in Seq(MsgType)
  BY DEF Asks, device, MInv, MarklinTypeOK
<1>2. Msg(c, type, val) \in MsgType /\ Msg(c, type, val).type # "RXIC"
  BY DEF Msg, MsgType
<1>3. \A b : ByteAt(1, b)' <=> ByteAt(1, b)
  <2>1. PICK m \in MsgType : m = Msg(c, type, val) /\ m.type # "RXIC"
    BY <1>2
  <2>2. inbox' = Append(inbox, m)
    BY <1>1, <2>1
  <2>3. \A b : HoldsByte(inbox', b) <=> HoldsByte(inbox, b) \/ (m.type = "RXIC" /\ m.val = b)
    BY <1>1, <2>2, HoldsAppended
  <2>4. QED
    BY <2>1, <2>3, BytePlaces
<1>4. Known => Known'
  BY <1>1 DEF Known, Named
<1>5. QED
  BY <1>1, <1>3, <1>4, BytePlaces, LeavesBytes

LEMMA SendsKeepsBytes ==
  ASSUME MInv, ByteInv, BoxSends
  PROVE  ByteInv'
<1>1. /\ UNCHANGED <<ns_table, event_q, notif, server, inbox, got>>
      /\ ~uart.RXIC /\ sent' = sent + 1 /\ sent \in Nat
      /\ uart \in [tx : BOOLEAN, rx : Nat, TXIC : BOOLEAN, RXIC : BOOLEAN, CTSMIM : BOOLEAN]
  BY DEF BoxSends, history, MInv, MarklinTypeOK
<1>2. uart'.RXIC /\ uart'.rx = sent + 1
  BY <1>1 DEF BoxSends
<1>3. \A p \in 1..4, b \in Nat : ByteAt(p, b)' <=> ByteAt(p, b) \/ (p = 4 /\ b = sent + 1)
  <2>1. \A b \in Nat : ByteAt(4, b)' <=> ByteAt(4, b) \/ b = sent + 1
    BY <1>1, <1>2, BytePlaces
  <2>2. \A b \in Nat, p \in {1, 2, 3} : ByteAt(p, b)' <=> ByteAt(p, b)
    BY <1>1, BytePlaces
  <2>3. QED
    BY <2>1, <2>2
<1>4. Received' = Received /\ (Known => Known')
  BY <1>1 DEF Received, Known, Named
<1>5. ASSUME NEW n \in Nat, n + Len(Received) <= sent, OnTheWay(n + Len(Received))
      PROVE  OnTheWay(n + Len(Received))'
  <2>1. PICK lo \in Nat : lo = n + Len(Received)
    BY ReceivedFacts DEF MInv
  <2>2. OnTheWay(lo)'
    BY <1>1, <1>3, <1>5, <2>1, ByteComes
  <2>3. QED
    BY <1>4, <2>1, <2>2
<1>6. sent' \in Nat /\ sent' >= sent
  BY <1>1
<1>7. QED
  BY <1>4, <1>5, <1>6, NoneReceived

\* The interrupt handler puts a byte in the notifier's hands, if it waits, or at
\* the end of the event queue.
LEMMA IRQKeepsBytes ==
  ASSUME MInv, ByteInv, MarklinIRQ
  PROVE  ByteInv'
<1>1. /\ UNCHANGED <<ns_table, sent, server, inbox, got>>
      /\ event_q \in Seq(EventType) /\ sent \in Nat
      /\ uart \in [tx : BOOLEAN, rx : Nat, TXIC : BOOLEAN, RXIC : BOOLEAN, CTSMIM : BOOLEAN]
      /\ cts \in {0, 1}
      /\ notif.at = "awaits" => event_q = <<>>
  BY DEF MarklinIRQ, history, MInv, MarklinTypeOK, MessageInv
<1>2. Received' = Received /\ (Known => Known')
  BY <1>1 DEF Received, Known, Named
<1>3. PICK e \in EventType :
        /\ Delivers(e)
        /\ IF e.type = "RXIC"
           THEN uart.RXIC /\ e.val = uart.rx /\ ~uart'.RXIC
           ELSE uart'.RXIC = uart.RXIC /\ uart'.rx = uart.rx
  <2>1. CASE uart.TXIC
    <3>1. /\ Delivers(Event("TXIC", NoByte)) /\ uart' = [uart EXCEPT !.TXIC = FALSE]
      BY <2>1 DEF MarklinIRQ
    <3>2. /\ Event("TXIC", NoByte) \in EventType /\ Event("TXIC", NoByte).type # "RXIC"
          /\ uart'.RXIC = uart.RXIC /\ uart'.rx = uart.rx
      BY <1>1, <3>1 DEF Event, EventType, NoByte
    <3>3. QED
      BY <3>1, <3>2
  <2>2. CASE ~uart.TXIC /\ uart.RXIC
    <3>1. /\ Delivers(Event("RXIC", uart.rx))
          /\ uart' = [uart EXCEPT !.RXIC = FALSE, !.rx = NoByte]
      BY <2>2 DEF MarklinIRQ
    <3>2. /\ Event("RXIC", uart.rx) \in EventType /\ Event("RXIC", uart.rx).type = "RXIC"
          /\ Event("RXIC", uart.rx).val = uart.rx /\ ~uart'.RXIC
      BY <1>1, <3>1 DEF Event, EventType, NoByte
    <3>3. QED
      BY <2>2, <3>1, <3>2
  <2>3. CASE ~uart.TXIC /\ ~uart.RXIC
    <3>1. /\ Delivers(Event("CTSMIM", cts)) /\ uart' = [uart EXCEPT !.CTSMIM = FALSE]
      BY <2>3 DEF MarklinIRQ
    <3>2. /\ Event("CTSMIM", cts) \in EventType /\ Event("CTSMIM", cts).type # "RXIC"
          /\ uart'.RXIC = uart.RXIC /\ uart'.rx = uart.rx
      BY <1>1, <3>1 DEF Event, EventType
    <3>3. QED
      BY <3>1, <3>2
  <2>4. QED
    BY <2>1, <2>2, <2>3
\* The place where the event comes, and what it adds there.
<1>4. PICK to \in {2, 3} :
        /\ \A b : ByteAt(to, b)' <=> ByteAt(to, b) \/ (e.type = "RXIC" /\ e.val = b)
        /\ \A p \in {1, 2, 3} \ {to}, b \in Nat : ByteAt(p, b)' <=> ByteAt(p, b)
        /\ \A b : to = 2 => ~ByteAt(3, b)
        /\ Ascends(event_q) /\ (e.type = "RXIC" => \A b : HoldsByte(event_q, b) => b < e.val) =>
             Ascends(event_q)'
  <2>1. CASE notif.at = "awaits"
    <3>1. notif' = [at |-> "looks up", event |-> e] /\ event_q' = event_q /\ event_q = <<>>
      BY <1>1, <1>3, <2>1 DEF Delivers
    <3>2. /\ \A b : ByteAt(2, b)' <=> e.type = "RXIC" /\ e.val = b
          /\ \A b : ~ByteAt(2, b)
      BY <2>1, <3>1, BytePlaces
    <3>3. \A b : ~ByteAt(3, b)
      <4>1. \A b : ~HoldsByte(event_q, b)
        <5>1. DOMAIN event_q = {}
          <6>1. event_q = <<>>
            BY <3>1
          <6>2. QED
            BY <6>1
        <5>2. QED
          BY <5>1 DEF HoldsByte
      <4>2. QED
        BY <4>1, BytePlaces
    <3>4. Ascends(event_q) => Ascends(event_q)'
      BY <3>1 DEF Ascends
    <3>5. \A p \in {1, 3}, b \in Nat : ByteAt(p, b)' <=> ByteAt(p, b)
      <4>1. inbox' = inbox /\ event_q' = event_q
        BY <1>1, <3>1
      <4>2. QED
        BY <4>1, BytePlaces
    <3>6. QED
      BY <3>2, <3>3, <3>4, <3>5
  <2>2. CASE notif.at # "awaits"
    <3>1. event_q' = Append(event_q, e) /\ notif' = notif
      BY <1>3, <2>2 DEF Delivers
    <3>2. /\ \A b : HoldsByte(event_q', b) <=> HoldsByte(event_q, b) \/ (e.type = "RXIC" /\ e.val = b)
          /\ Ascends(event_q) /\ (e.type = "RXIC" => \A b : HoldsByte(event_q, b) => b < e.val) =>
               Ascends(event_q')
      BY <1>1, <3>1, HoldsAppended
    <3>3. \A b : ByteAt(3, b)' <=> ByteAt(3, b) \/ (e.type = "RXIC" /\ e.val = b)
      BY <3>2, BytePlaces
    <3>4. \A p \in {1, 2}, b \in Nat : ByteAt(p, b)' <=> ByteAt(p, b)
      BY <1>1, <3>1, BytePlaces
    <3>5. Ascends(event_q)' <=> Ascends(event_q')
      BY DEF Ascends
    <3>6. QED
      BY <3>2, <3>3, <3>4, <3>5
  <2>3. QED
    BY <2>1, <2>2
<1>5. ASSUME NEW n \in Nat, n + Len(Received) <= sent, OnTheWay(n + Len(Received))
      PROVE  OnTheWay(n + Len(Received))'
  <2>1. PICK lo \in Nat : lo = n + Len(Received)
    BY ReceivedFacts DEF MInv
  <2>2. OnTheWay(lo)
    BY <1>5, <2>1
  <2>3. OnTheWay(lo)'
    <3>1. CASE e.type = "RXIC"
      <4>1. PICK b0 \in Nat : b0 = e.val
        BY DEF EventType
      <4>2. \A b \in Nat : (ByteAt(4, b) <=> b = b0) /\ ~ByteAt(4, b)'
        BY <1>3, <3>1, <4>1, BytePlaces
      <4>3. \A b : ByteAt(to, b)' <=> ByteAt(to, b) \/ b = b0
        BY <1>4, <3>1, <4>1
      <4>4. \A p \in 1..4, b \in Nat :
              ByteAt(p, b)' <=> (ByteAt(p, b) /\ ~(p = 4 /\ b = b0)) \/ (p = to /\ b = b0)
        BY <1>4, <4>2, <4>3
      <4>5. \A p \in 1..4, b \in Nat : to < p /\ p < 4 => ~ByteAt(p, b)
        BY <1>4
      <4>6. Ascends(event_q)'
        <5>1. ASSUME NEW b, HoldsByte(event_q, b) PROVE b < e.val
          <6>1. b \in Nat
            <7>1. \A i \in DOMAIN event_q : event_q[i] \in EventType
              BY <1>1, LenProperties, ElementOfSeq
            <7>2. QED
              BY <5>1, <7>1 DEF HoldsByte, EventType
          <6>2. ByteAt(3, b) /\ ByteAt(4, b0)
            BY <4>2, <5>1, BytePlaces
          <6>3. QED
            BY <2>2, <4>1, <6>1, <6>2 DEF OnTheWay
        <5>2. Ascends(event_q)
          BY <2>2 DEF OnTheWay
        <5>3. QED
          BY <1>4, <5>1, <5>2
      <4>7. /\ to \in 1..4 /\ 4 \in 1..4 /\ to < 4 /\ ByteAt(4, b0)
            /\ \A b \in Nat : ByteAt(4, b) => b0 <= b
        BY <4>2
      <4>8. sent' = sent
        BY <1>1
      <4>9. QED
        BY <2>2, <4>4, <4>5, <4>6, <4>7, <4>8, ByteMovesOn
    <3>2. CASE e.type # "RXIC"
      <4>1. \A b \in Nat : ByteAt(4, b)' <=> ByteAt(4, b)
        BY <1>3, <3>2, BytePlaces
      <4>2. \A p \in 1..4, b \in Nat : ByteAt(p, b)' <=> ByteAt(p, b)
        BY <1>4, <3>2, <4>1
      <4>3. Ascends(event_q)'
        BY <1>4, <2>2, <3>2 DEF OnTheWay
      <4>4. QED
        BY <1>1, <2>2, <4>2, <4>3, BytesStay
    <3>3. QED
      BY <3>1, <3>2
  <2>4. QED
    BY <1>2, <2>1, <2>3
<1>6. sent' \in Nat /\ sent' >= sent
  BY <1>1
<1>7. QED
  BY <1>2, <1>5, <1>6, NoneReceived

\* AwaitEvent() takes the first event of the queue.
LEMMA AwaitsKeepsBytes ==
  ASSUME MInv, ByteInv, NotifierAwaits
  PROVE  ByteInv'
<1>1. /\ UNCHANGED <<ns_table, uart, sent, server, inbox, got>>
      /\ notif.at = "calls" /\ event_q \in Seq(EventType) /\ sent \in Nat
      /\ notif \in [at : {"starts", "calls", "awaits", "looks up", "sends"}, event : EventType]
  BY DEF NotifierAwaits, device, history, MInv, MarklinTypeOK
<1>2. Received' = Received /\ (Known => Known')
  BY <1>1 DEF Received, Known, Named
<1>3. CASE event_q = <<>>
  <2>1. notif' = [notif EXCEPT !.at = "awaits"] /\ event_q' = event_q
    BY <1>3 DEF NotifierAwaits
  <2>2. notif'.at = "awaits"
    BY <1>1, <2>1
  <2>3. \A b : ByteAt(2, b)' <=> ByteAt(2, b)
    BY <1>1, <2>2, BytePlaces
  <2>4. QED
    BY <1>1, <1>2, <2>1, <2>3, BytePlaces, LeavesBytes
<1>4. CASE event_q # <<>>
  <2>1. PICK e : e = Head(event_q)
    OBVIOUS
  <2>2. notif' = [at |-> "looks up", event |-> e] /\ event_q' = Tail(event_q)
    BY <1>4, <2>1 DEF NotifierAwaits
  <2>3. e \in EventType
    BY <1>1, <1>4, <2>1, TailFacts
  <2>4. /\ \A b : HoldsByte(event_q, b) <=> HoldsByte(event_q', b) \/ (e.type = "RXIC" /\ e.val = b)
        /\ Ascends(event_q) => Ascends(event_q')
        /\ Ascends(event_q) /\ e.type = "RXIC" => \A b : HoldsByte(event_q', b) => e.val < b
    BY <1>1, <1>4, <2>1, <2>2, HoldsTail
  <2>5. \A b : ~ByteAt(2, b) /\ (ByteAt(2, b)' <=> e.type = "RXIC" /\ e.val = b)
    <3>1. \A b : ~ByteAt(2, b)
      BY <1>1, BytePlaces
    <3>2. notif'.at = "looks up" /\ notif'.event = e
      BY <2>2
    <3>3. \A b : ByteAt(2, b)' <=> e.type = "RXIC" /\ e.val = b
      BY <3>2, BytePlaces
    <3>4. QED
      BY <3>1, <3>3
  <2>6. \A p \in {1, 4}, b \in Nat : ByteAt(p, b)' <=> ByteAt(p, b)
    BY <1>1, BytePlaces
  <2>7. ASSUME NEW n \in Nat, n + Len(Received) <= sent, OnTheWay(n + Len(Received))
        PROVE  OnTheWay(n + Len(Received))'
    <3>1. PICK lo \in Nat : lo = n + Len(Received)
      BY ReceivedFacts DEF MInv
    <3>2. OnTheWay(lo)
      BY <2>7, <3>1
    <3>3. Ascends(event_q) /\ Ascends(event_q)'
      <4>1. Ascends(event_q)
        BY <3>2 DEF OnTheWay
      <4>2. QED
        BY <2>4, <4>1 DEF Ascends
    <3>4. CASE e.type = "RXIC"
      <4>1. PICK b0 \in Nat : b0 = e.val
        BY <2>3 DEF EventType
      <4>2. \A b \in Nat : ByteAt(3, b)' => b0 < b
        BY <2>4, <3>3, <3>4, <4>1, BytePlaces
      <4>3. \A b \in Nat : ByteAt(3, b) <=> ByteAt(3, b)' \/ b = b0
        BY <2>4, <3>4, <4>1, BytePlaces
      <4>4. \A b \in Nat : ByteAt(3, b)' <=> ByteAt(3, b) /\ b # b0
        BY <4>2, <4>3
      <4>5. \A b \in Nat : ByteAt(2, b)' <=> b = b0
        BY <2>5, <3>4, <4>1
      <4>6. \A p \in 1..4, b \in Nat :
              ByteAt(p, b)' <=> (ByteAt(p, b) /\ ~(p = 3 /\ b = b0)) \/ (p = 2 /\ b = b0)
        BY <2>5, <2>6, <4>4, <4>5
      <4>7. /\ 3 \in 1..4 /\ 2 \in 1..4 /\ 2 < 3 /\ ByteAt(3, b0)
            /\ \A b \in Nat : ByteAt(3, b) => b0 <= b
            /\ \A p \in 1..4, b \in Nat : 2 < p /\ p < 3 => ~ByteAt(p, b)
        BY <4>2, <4>3
      <4>8. OnTheWay(lo)'
        <5>1. sent' = sent
          BY <1>1
        <5>2. QED
          BY <3>2, <3>3, <4>6, <4>7, <5>1, ByteMovesOn
      <4>9. QED
        BY <1>2, <3>1, <4>8
    <3>5. CASE e.type # "RXIC"
      <4>1. \A b \in Nat : ByteAt(3, b)' <=> ByteAt(3, b)
        BY <2>4, <3>5, BytePlaces
      <4>2. \A p \in 1..4, b \in Nat : ByteAt(p, b)' <=> ByteAt(p, b)
        BY <2>5, <2>6, <3>5, <4>1
      <4>3. OnTheWay(lo)'
        BY <1>1, <3>2, <3>3, <4>2, BytesStay
      <4>4. QED
        BY <1>2, <3>1, <4>3
    <3>6. QED
      BY <3>4, <3>5
  <2>8. sent' \in Nat /\ sent' >= sent
    <3>1. sent' = sent /\ sent \in Nat
      BY <1>1
    <3>2. \A k \in Nat : k >= k
      OBVIOUS
    <3>3. QED
      BY <3>1, <3>2, Zenon
  <2>9. QED
    BY <1>2, <2>7, <2>8, NoneReceived
<1>5. QED
  BY <1>3, <1>4

\* The notifier's message takes the byte to the inbox; before the server has
\* registered the byte is dropped.
LEMMA ForwardsKeepsBytes ==
  ASSUME MInv, ByteInv, NotifierForwards
  PROVE  ByteInv'
<1>1. /\ UNCHANGED <<ns_table, uart, sent, event_q, server, got>>
      /\ notif.at = "looks up" /\ inbox \in Seq(MsgType) /\ ns_table \in Seq(Rows)
      /\ notif \in [at : {"starts", "calls", "awaits", "looks up", "sends"}, event : EventType]
      /\ sent \in Nat
  BY DEF NotifierForwards, device, history, MInv, MarklinTypeOK
<1>2. Received' = Received /\ (Known' <=> Known)
  BY <1>1 DEF Received, Known, Named
<1>3. PICK e \in EventType : e = notif.event
  BY <1>1
<1>4. \A b : ~ByteAt(1, b) /\ (ByteAt(2, b) <=> e.type = "RXIC" /\ e.val = b)
  <2>1. \A i \in DOMAIN inbox : inbox[i].tid # NotifTid /\ inbox[i] \in MsgType
    <3>1. \A i \in DOMAIN inbox : inbox[i] \in MsgType
      BY <1>1, LenProperties, ElementOfSeq
    <3>2. \A i \in DOMAIN inbox : inbox[i].tid # NotifTid
      BY <1>1 DEF MInv, MessageInv
    <3>3. QED
      BY <3>1, <3>2
  <2>2. \A b : ~HoldsByte(inbox, b)
    BY <2>1 DEF HoldsByte, MsgType
  <2>3. QED
    BY <1>1, <1>3, <2>2, BytePlaces
<1>5. \A p \in {3, 4}, b \in Nat : ByteAt(p, b)' <=> ByteAt(p, b)
  BY <1>1, BytePlaces
<1>6. Ascends(event_q)' <=> Ascends(event_q)
  BY <1>1 DEF Ascends
<1>7. CASE Known
  <2>1. PICK m : m = Msg(NotifTid, e.type, e.val)
    OBVIOUS
  <2>2. /\ m \in MsgType /\ m.type = e.type /\ m.val = e.val
    BY <1>3, <2>1 DEF Msg, MsgType, EventType
  <2>3. notif' = [notif EXCEPT !.at = "sends"] /\ inbox' = Append(inbox, m)
    <3>1. ns_find("Uart2Marklin") > 0
      <4>1. ns_find("Uart2Marklin") = ServerTid
        BY <1>1, <1>7, KnownFacts
      <4>2. QED
        BY <4>1 DEF ServerTid
    <3>2. QED
      BY <1>3, <2>1, <3>1 DEF NotifierForwards
  <2>4. notif'.at = "sends"
    BY <1>1, <2>3
  <2>5. \A b : HoldsByte(inbox', b) <=> HoldsByte(inbox, b) \/ (m.type = "RXIC" /\ m.val = b)
    <3>1. inbox \in Seq(MsgType) /\ m \in MsgType /\ inbox' = Append(inbox, m)
      BY <1>1, <2>2, <2>3
    <3>2. QED
      BY <3>1, HoldsAppended, Zenon
  <2>6. \A b : ~ByteAt(2, b)' /\ (ByteAt(1, b)' <=> e.type = "RXIC" /\ e.val = b)
    <3>1. \A b : ByteAt(1, b)' <=> e.type = "RXIC" /\ e.val = b
      <4>1. \A b : (ByteAt(1, b)' <=> HoldsByte(inbox', b)) /\ (ByteAt(1, b) <=> HoldsByte(inbox, b))
        BY BytePlaces
      <4>2. QED
        BY <1>4, <2>2, <2>5, <4>1
    <3>2. \A b : ~ByteAt(2, b)'
      BY <2>4, BytePlaces
    <3>3. QED
      BY <3>1, <3>2
  <2>7. ASSUME NEW n \in Nat, n + Len(Received) <= sent, OnTheWay(n + Len(Received))
        PROVE  OnTheWay(n + Len(Received))'
    <3>1. PICK lo \in Nat : lo = n + Len(Received)
      BY ReceivedFacts DEF MInv
    <3>2. OnTheWay(lo)
      BY <2>7, <3>1
    <3>3. Ascends(event_q)' /\ sent' = sent
      BY <1>1, <1>6, <3>2 DEF OnTheWay
    <3>4. CASE e.type = "RXIC"
      <4>1. PICK b0 \in Nat : b0 = e.val
        BY DEF EventType
      <4>2. \A b \in Nat : /\ ~ByteAt(1, b) /\ ~ByteAt(2, b)'
                           /\ (ByteAt(2, b) <=> b = b0) /\ (ByteAt(1, b)' <=> b = b0)
        BY <1>4, <2>6, <3>4, <4>1
      <4>3. \A p \in 1..4, b \in Nat :
              ByteAt(p, b)' <=> (ByteAt(p, b) /\ ~(p = 2 /\ b = b0)) \/ (p = 1 /\ b = b0)
        BY <1>5, <4>2
      <4>4. /\ 2 \in 1..4 /\ 1 \in 1..4 /\ 1 < 2 /\ ByteAt(2, b0)
            /\ \A b \in Nat : ByteAt(2, b) => b0 <= b
            /\ \A p \in 1..4, b \in Nat : 1 < p /\ p < 2 => ~ByteAt(p, b)
        BY <4>2
      <4>5. OnTheWay(lo)'
        BY <3>2, <3>3, <4>3, <4>4, ByteMovesOn
      <4>6. QED
        BY <1>2, <3>1, <4>5
    <3>5. CASE e.type # "RXIC"
      <4>1. \A p \in 1..4, b \in Nat : ByteAt(p, b)' <=> ByteAt(p, b)
        BY <1>4, <1>5, <2>6, <3>5
      <4>2. OnTheWay(lo)'
        BY <3>2, <3>3, <4>1, BytesStay
      <4>3. QED
        BY <1>2, <3>1, <4>2
    <3>6. QED
      BY <3>4, <3>5
  <2>8. sent' \in Nat /\ sent' >= sent
    <3>1. sent' = sent /\ sent \in Nat
      BY <1>1
    <3>2. \A k \in Nat : k >= k
      OBVIOUS
    <3>3. QED
      BY <3>1, <3>2, Zenon
  <2>9. QED
    BY <1>2, <2>7, <2>8, NoneReceived
<1>8. CASE ~Known
  <2>1. notif' = [at |-> "calls", event |-> Nothing] /\ inbox' = inbox
    <3>1. ~(ns_find("Uart2Marklin") > 0)
      <4>1. ns_find("Uart2Marklin") = -1
        BY <1>1, <1>8, KnownFacts
      <4>2. QED
        BY <4>1
    <3>2. QED
      BY <3>1 DEF NotifierForwards
  <2>2. \A b : ~ByteAt(1, b)' /\ ~ByteAt(2, b)'
    <3>1. \A b : ~ByteAt(1, b)'
      BY <1>4, <2>1, BytePlaces
    <3>2. \A b : ~ByteAt(2, b)'
      BY <2>1, BytePlaces
    <3>3. QED
      BY <3>1, <3>2
  <2>3. CASE e.type # "RXIC"
    <3>1. \A b \in Nat : (ByteAt(1, b)' <=> ByteAt(1, b)) /\ (ByteAt(2, b)' <=> ByteAt(2, b))
      BY <1>4, <2>2, <2>3
    <3>2. QED
      BY <1>1, <1>2, <3>1, LeavesBytes
  <2>4. CASE e.type = "RXIC"
    <3>1. PICK n \in Nat : n + Len(Received) <= sent /\ Has(n) /\ OnTheWay(n + Len(Received))
      BY DEF ByteInv
    <3>2. Received = <<>> /\ Len(Received) = 0
      BY <1>8, <3>1 DEF Has
    <3>3. OnTheWay(n)
      BY <3>1, <3>2
    <3>4. PICK b0 \in Nat : b0 = e.val
      BY DEF EventType
    <3>5. \A b \in Nat : /\ ~ByteAt(1, b) /\ ~ByteAt(1, b)' /\ ~ByteAt(2, b)'
                         /\ (ByteAt(2, b) <=> b = b0)
      BY <1>4, <2>2, <2>4, <3>4
    <3>6. \A p \in 1..4, b \in Nat : ByteAt(p, b)' <=> p # 2 /\ ByteAt(p, b)
      BY <1>5, <3>5
    <3>7. /\ 2 \in 1..4 /\ ByteAt(2, b0) /\ \A b \in Nat : ByteAt(2, b) => b = b0
          /\ \A p \in 1..4, b \in Nat : p < 2 => ~ByteAt(p, b)
      BY <3>5
    <3>8. sent' = sent /\ event_q' = event_q
      BY <1>1
    <3>9. n + 1 <= sent /\ OnTheWay(n + 1)'
      BY <1>1, <3>3, <3>6, <3>7, <3>8, ByteLeaves
    <3>10. Received' = <<>> /\ Len(Received') = 0 /\ (n + 1) + 0 = n + 1 /\ n + 1 \in Nat
      BY <1>2, <3>2
    <3>11. Has(n + 1)'
      BY <3>10 DEF Has
    <3>12. QED
      BY <3>8, <3>9, <3>10, <3>11 DEF ByteInv
  <2>5. QED
    BY <2>3, <2>4
<1>9. QED
  BY <1>7, <1>8

\* A byte at the front of the inbox joins those the server has; an answered
\* Getc() only moves one from the server to the client.
LEMMA ServerReceives ==
  ASSUME MInv, ServerHandles, NEW m, m = Head(inbox)
  PROVE  Received' = IF m.type = "RXIC" THEN Append(Received, m.val) ELSE Received
<1> DEFINE heard == AwaitsCts(Enqueues(Handshake(server, m), m), m)
           started == IF Starts(heard) THEN [heard EXCEPT !.putc_state = 0] ELSE heard
           putDone == IF PutcAnswered(started) THEN {Head(started.putc)} ELSE {}
           getDone == IF GetcAnswered(started) THEN {Head(started.getc)} ELSE {}
<1>1. /\ server \in ServerType /\ inbox \in Seq(MsgType) /\ got \in Seq(Nat) /\ cts \in {0, 1}
      /\ server.rx \in Seq(Nat) /\ inbox # <<>>
      /\ server.putc_state # 4 /\ (server.putc_state # 1 => server.putc # <<>>)
  BY DEF MInv, MarklinTypeOK, ServerInv, ServerType, ServerHandles
<1>2. m \in MsgType
  BY <1>1, TailFacts
<1>3. /\ got' = IF getDone = {} THEN got ELSE Append(got, Head(started.rx))
      /\ server' = [started EXCEPT
                      !.putc = IF putDone = {} THEN @ ELSE Tail(@),
                      !.putc_state = IF putDone = {} THEN @ ELSE 1,
                      !.getc = IF getDone = {} THEN @ ELSE Tail(@),
                      !.rx = IF getDone = {} THEN @ ELSE Tail(@)]
  BY DEF ServerHandles
<1>4. PICK rx \in Seq(Nat) : rx = IF m.type = "RXIC" THEN Append(server.rx, m.val) ELSE server.rx
  <2>1. m.type = "RXIC" => Append(server.rx, m.val) \in Seq(Nat)
    <3>1. m.type = "RXIC" => m.val \in Nat
      BY <1>2 DEF MsgType
    <3>2. QED
      BY <1>1, <3>1, AppendProperties
  <2>2. QED
    BY <1>1, <2>1
<1>5. heard \in ServerType /\ heard.rx = rx
  <2> DEFINE h1 == Handshake(server, m)
             h2 == Enqueues(h1, m)
  <2>1. h1 \in ServerType
    BY <1>1, <1>2, HandshakeFacts
  <2>2. h1.rx = server.rx
    BY <1>1 DEF Handshake, ServerType
  <2> HIDE DEF h1
  <2>3. h2 \in ServerType
    BY <1>2, <2>1, EnqueuesFacts
  <2>4. h2.rx = rx
    <3>1. /\ m.type = "RXIC" => h2 = [h1 EXCEPT !.rx = Append(@, m.val)]
          /\ m.type # "RXIC" => h2 = h1 \/ h2 = [h1 EXCEPT !.getc = Append(@, m.tid)]
                                \/ h2 = [h1 EXCEPT !.putc = Append(@, m.tid)]
      BY DEF Enqueues
    <3> HIDE DEF h2
    <3>2. QED
      BY <1>4, <2>1, <2>2, <3>1 DEF ServerType
  <2>5. heard = AwaitsCts(h2, m)
    BY DEF h1
  <2> HIDE DEF h2, heard
  <2>6. heard \in ServerType
    BY <1>1, <1>2, <2>3, <2>5, AwaitsCtsFacts
  <2>7. heard.rx = h2.rx
    BY <2>3, <2>5 DEF AwaitsCts, ServerType
  <2>8. QED
    BY <2>4, <2>6, <2>7
<1> HIDE DEF heard
<1>6. started \in ServerType /\ started.rx = rx
  <2>1. CASE Starts(heard)
    <3>1. started = [heard EXCEPT !.putc_state = 0] /\ 0 \in 0..4
      BY <2>1
    <3> HIDE DEF started
    <3>2. started \in ServerType
      BY <1>5, <3>1, SetsState
    <3>3. started.rx = heard.rx
      BY <1>5, <3>1 DEF ServerType
    <3>4. QED
      BY <1>5, <3>2, <3>3
  <2>2. CASE ~Starts(heard)
    BY <1>5, <2>2
  <2>3. QED
    BY <2>1, <2>2
<1> HIDE DEF started
<1>7. getDone # {} => rx # <<>>
  BY <1>6 DEF GetcAnswered
<1> HIDE DEF putDone, getDone
<1>8. server'.rx = IF getDone = {} THEN rx ELSE Tail(rx)
  BY <1>3, <1>6 DEF ServerType
<1>9. Received' = got \o rx
  <2>1. CASE getDone = {}
    BY <1>3, <1>8, <2>1 DEF Received
  <2>2. CASE getDone # {}
    <3>1. rx # <<>> /\ Head(rx) \in Nat /\ Tail(rx) \in Seq(Nat)
      BY <1>7, <2>2, HeadTailProperties
    <3>2. got' = Append(got, Head(rx)) /\ server'.rx = Tail(rx)
      BY <1>3, <1>6, <1>8, <2>2
    <3>3. Append(got, Head(rx)) \o Tail(rx) = got \o rx
      BY <1>1, <3>1, HandsOn
    <3>4. QED
      BY <3>2, <3>3 DEF Received
  <2>3. QED
    BY <2>1, <2>2
<1>10. m.type = "RXIC" => got \o Append(server.rx, m.val) = Append(got \o server.rx, m.val)
  <2>1. m.type = "RXIC" => m.val \in Nat
    BY <1>2 DEF MsgType
  <2>2. QED
    BY <1>1, <2>1, JoinsEnd
<1>11. QED
  BY <1>4, <1>9, <1>10 DEF Received

LEMMA HandlesKeepsBytes ==
  ASSUME MInv, ByteInv, ServerHandles, MInv'
  PROVE  ByteInv'
<1>1. PICK m : m = Head(inbox)
  OBVIOUS
<1>2. /\ UNCHANGED <<ns_table, sent, event_q>>
      /\ inbox # <<>> /\ inbox' = Tail(inbox) /\ m \in MsgType
      /\ notif' = IF m.tid = ns_find("io_notifier")
                  THEN [at |-> "calls", event |-> Nothing] ELSE notif
      /\ inbox \in Seq(MsgType) /\ sent \in Nat /\ ns_table \in Seq(Rows)
      /\ uart \in [tx : BOOLEAN, rx : Nat, TXIC : BOOLEAN, RXIC : BOOLEAN, CTSMIM : BOOLEAN]
  BY <1>1, HandlesFacts DEF MInv, MarklinTypeOK
<1>3. uart'.RXIC = uart.RXIC /\ uart'.rx = uart.rx
  <2>1. uart' = uart \/ uart' = [uart EXCEPT !.tx = TRUE]
    BY DEF ServerHandles
  <2>2. QED
    BY <1>2, <2>1
<1>4. Received' = IF m.type = "RXIC" THEN Append(Received, m.val) ELSE Received
  BY <1>1, ServerReceives
<1>5. Known /\ Known'
  <2>1. Known
    BY <1>2 DEF MInv, ServerInv
  <2>2. QED
    BY <1>2, <2>1 DEF Known, Named
<1>6. \A b : ByteAt(2, b)' <=> ByteAt(2, b)
  <2>1. CASE m.tid = ns_find("io_notifier")
    <3>1. m.tid = NotifTid
      <4>1. ns_find("io_notifier") \in {-1, NotifTid}
        BY <1>2, KnownFacts
      <4>2. m.tid # -1
        <5>1. m.tid \in Clients \cup {NotifTid}
          BY <1>2 DEF MsgType
        <5>2. QED
          BY <5>1, MarklinAssumption DEF NotifTid
      <4>3. QED
        BY <2>1, <4>1, <4>2
    <3>2. m = inbox[1] /\ 1 \in DOMAIN inbox
      BY <1>1, <1>2, TailFacts
    <3>3. notif.at = "sends" /\ notif'.at = "calls"
      BY <1>2, <2>1, <3>1, <3>2 DEF MInv, MessageInv
    <3>4. QED
      BY <3>3, BytePlaces
  <2>2. CASE m.tid # ns_find("io_notifier")
    BY <1>2, <2>2, BytePlaces
  <2>3. QED
    BY <2>1, <2>2
<1>7. \A b : ByteAt(1, b) <=> ByteAt(1, b)' \/ (m.type = "RXIC" /\ m.val = b)
  <2>1. \A b : HoldsByte(inbox, b) <=> HoldsByte(inbox', b) \/ (m.type = "RXIC" /\ m.val = b)
    BY <1>1, <1>2, HoldsTail
  <2>2. QED
    BY <2>1, BytePlaces
<1>8. CASE m.type # "RXIC"
  <2>1. Received' = Received
    BY <1>4, <1>8
  <2>2. \A b \in Nat : (ByteAt(1, b)' <=> ByteAt(1, b)) /\ (ByteAt(2, b)' <=> ByteAt(2, b))
    BY <1>6, <1>7, <1>8
  <2>3. \A p \in 1..4, b \in Nat : ByteAt(p, b)' <=> ByteAt(p, b)
    <3>1. \A p \in {3, 4}, b \in Nat : ByteAt(p, b)' <=> ByteAt(p, b)
      BY <1>2, <1>3, BytePlaces
    <3>2. QED
      BY <2>2, <3>1
  <2>4. ASSUME NEW n \in Nat, n + Len(Received) <= sent, OnTheWay(n + Len(Received))
        PROVE  OnTheWay(n + Len(Received))'
    <3>1. PICK lo \in Nat : lo = n + Len(Received)
      BY ReceivedFacts DEF MInv
    <3>2. OnTheWay(lo)
      BY <2>4, <3>1
    <3>3. sent' = sent /\ Ascends(event_q)'
      BY <1>2, <3>2 DEF OnTheWay, Ascends
    <3>4. OnTheWay(lo)'
      BY <2>3, <3>2, <3>3, BytesStay
    <3>5. QED
      BY <2>1, <3>1, <3>4
  <2>5. sent' \in Nat /\ sent' >= sent
    <3>1. sent' = sent /\ sent \in Nat
      BY <1>2
    <3>2. \A k \in Nat : k >= k
      OBVIOUS
    <3>3. QED
      BY <3>1, <3>2, Zenon
  <2>6. QED
    BY <1>5, <2>1, <2>4, <2>5, NoneReceived
<1>9. CASE m.type = "RXIC"
  <2>1. m.val \in Nat /\ m.tid = NotifTid
    BY <1>2, <1>9 DEF MsgType
  <2>2. PICK b0 \in Nat : b0 = m.val
    BY <2>1
  <2>3. PICK n \in Nat : n + Len(Received) <= sent /\ Has(n) /\ OnTheWay(n + Len(Received))
    BY DEF ByteInv
  <2>4. PICK len \in Nat : len = Len(Received) /\ DOMAIN Received = 1..len
    BY ReceivedFacts DEF MInv
  <2>5. PICK lo \in Nat : lo = n + len
    OBVIOUS
  <2>6. OnTheWay(lo)
    BY <2>3, <2>4, <2>5
  <2>7. \A b \in Nat : ~ByteAt(1, b)'
    <3>1. /\ 1 \in DOMAIN inbox /\ m = inbox[1]
          /\ \A i \in DOMAIN inbox' : i + 1 \in DOMAIN inbox /\ i + 1 # 1 /\ inbox'[i] = inbox[i + 1]
      <4> DEFINE r == Tail(inbox)
      <4>1. /\ 1 \in DOMAIN inbox /\ Head(inbox) = inbox[1]
            /\ \A i \in DOMAIN r : i \in Nat /\ i + 1 \in DOMAIN inbox /\ i + 1 # 1 /\ r[i] = inbox[i + 1]
        BY <1>2, TailFacts
      <4>2. inbox' = r
        BY <1>2
      <4> HIDE DEF r
      <4>3. QED
        BY <1>1, <4>1, <4>2
    <3>2. \A i \in DOMAIN inbox' : inbox'[i].tid # NotifTid
      BY <2>1, <3>1 DEF MInv, MessageInv
    <3>3. \A i \in DOMAIN inbox : inbox[i] \in MsgType
      BY <1>2, LenProperties, ElementOfSeq
    <3>4. \A i \in DOMAIN inbox' : inbox'[i].type # "RXIC"
      BY <3>1, <3>2, <3>3 DEF MsgType
    <3>5. \A b : ~HoldsByte(inbox', b)
      BY <3>4 DEF HoldsByte
    <3>6. QED
      BY <3>5, BytePlaces
  <2>8. \A b \in Nat : ByteAt(1, b) <=> b = b0
    BY <1>7, <1>9, <2>2, <2>7
  <2>9. \A p \in 1..4, b \in Nat : ByteAt(p, b)' <=> p # 1 /\ ByteAt(p, b)
    <3>1. \A p \in {3, 4}, b \in Nat : ByteAt(p, b)' <=> ByteAt(p, b)
      BY <1>2, <1>3, BytePlaces
    <3>2. QED
      BY <1>6, <2>7, <3>1
  <2>10. /\ 1 \in 1..4 /\ ByteAt(1, b0) /\ \A b \in Nat : ByteAt(1, b) => b = b0
         /\ \A p \in 1..4, b \in Nat : p < 1 => ~ByteAt(p, b)
    BY <2>8
  <2>11. sent' = sent /\ event_q' = event_q
    BY <1>2
  <2>12. b0 = lo + 1 /\ lo + 1 <= sent /\ OnTheWay(lo + 1)'
    BY <1>2, <2>6, <2>9, <2>10, <2>11, ByteLeaves
  <2>13. /\ Len(Received') = len + 1 /\ DOMAIN Received' = 1..(len + 1)
         /\ \A i \in 1..len : Received'[i] = Received[i]
         /\ Received'[len + 1] = b0
    <3>1. Received \in Seq(Nat) /\ Received' = Append(Received, b0)
      BY <1>4, <1>9, <2>2, ReceivedFacts DEF MInv
    <3>2. PICK s \in Seq(Nat) : s = Received
      BY <3>1
    <3>3. PICK r : r = Append(s, b0)
      OBVIOUS
    <3>4. /\ Len(r) = Len(s) + 1 /\ r \in Seq(Nat)
          /\ \A i \in 1..Len(s) : r[i] = s[i]
          /\ r[Len(s) + 1] = b0
      BY <3>3, AppendProperties
    <3>5. DOMAIN r = 1..Len(r)
      BY <3>4, LenProperties
    <3>6. QED
      BY <2>4, <3>1, <3>2, <3>3, <3>4, <3>5
  <2>14. Has(n)'
    <3>1. ASSUME NEW i \in 1..(len + 1) PROVE Received'[i] = n + i
      <4>1. CASE i \in 1..len
        BY <2>3, <2>4, <2>13, <4>1 DEF Has
      <4>2. CASE i = len + 1
        BY <2>5, <2>12, <2>13, <4>2
      <4>3. QED
        BY <4>1, <4>2
    <3>2. QED
      BY <1>5, <2>13, <3>1 DEF Has
  <2>15. n + Len(Received') = lo + 1
    BY <2>5, <2>13
  <2>16. QED
    BY <2>11, <2>12, <2>14, <2>15 DEF ByteInv
<1>10. QED
  BY <1>8, <1>9

LEMMA BytesStep ==
  ASSUME MInv, MInv', ByteInv, [MNext]_marklinVars
  PROVE  ByteInv'
<1>1. CASE Line
  BY <1>1, LineLeavesBytes
<1>2. CASE BoxSends
  BY <1>2, SendsKeepsBytes
<1>3. CASE MarklinIRQ
  BY <1>3, IRQKeepsBytes
<1>4. CASE NotifierAwaits
  BY <1>4, AwaitsKeepsBytes
<1>5. CASE NotifierForwards
  BY <1>5, ForwardsKeepsBytes
<1>6. CASE NotifierRegisters \/ ServerRegisters
  BY <1>6, RegistersLeavesBytes
<1>7. CASE ServerHandles
  BY <1>7, HandlesKeepsBytes
<1>8. CASE Client
  <2>1. PICK c \in Clients : Putc(c) \/ Getc(c) \/ awaitCTS(c)
    BY <1>8 DEF Client
  <2>2. CASE Putc(c)
    BY <2>2, AsksLeavesBytes DEF Putc, NoByte
  <2>3. CASE Getc(c)
    BY <2>3, AsksLeavesBytes DEF Getc, NoByte
  <2>4. CASE awaitCTS(c)
    BY <2>4, AsksLeavesBytes DEF awaitCTS
  <2>5. QED
    BY <2>1, <2>2, <2>3, <2>4
<1>9. CASE UNCHANGED marklinVars
  <2>1. UNCHANGED <<ns_table, uart, cts, box, sent, event_q, notif, server, inbox, client, calls, got>>
    BY <1>9 DEF marklinVars
  <2>2. Known => Known'
    BY <2>1 DEF Known, Named
  <2>3. QED
    BY <2>1, <2>2, BytePlaces, LeavesBytes
<1>10. QED
  BY <1>1, <1>2, <1>3, <1>4, <1>5, <1>6, <1>7, <1>8, <1>9 DEF MNext, Notifier, Server

\* The bytes under way, as BytesInOrder lists them.
LEMMA PendingFacts ==
  ASSUME MInv, NEW lo \in Nat, OnTheWay(lo), lo <= sent
  PROVE  /\ {p.byte : p \in Pending} = (lo + 1)..sent
         /\ \A p, q \in Pending : Before(p, q) => p.byte < q.byte
<1> DEFINE bytes(place, q) == {[place |-> place, nth |-> i, byte |-> q[i].val] :
                                 i \in {j \in DOMAIN q : q[j].type = "RXIC"}}
           held == IF notif.at = "looks up" THEN <<notif.event>> ELSE <<>>
           raised == IF uart.RXIC THEN <<Event("RXIC", uart.rx)>> ELSE <<>>
<1>1. Pending = bytes(1, inbox) \cup bytes(2, held) \cup bytes(3, event_q) \cup bytes(4, raised)
  BY DEF Pending
<1>2. /\ inbox \in Seq(MsgType) /\ event_q \in Seq(EventType) /\ sent \in Nat
      /\ uart.rx \in Nat /\ notif.event \in EventType
  BY DEF MInv, MarklinTypeOK
<1>3. /\ \A i \in DOMAIN held : i = 1 /\ notif.at = "looks up" /\ held[i] = notif.event
      /\ notif.at = "looks up" => 1 \in DOMAIN held /\ held[1] = notif.event
  <2>1. CASE notif.at = "looks up"
    <3>1. held = <<notif.event>>
      BY <2>1
    <3> HIDE DEF held
    <3>2. DOMAIN <<notif.event>> = {1} /\ <<notif.event>>[1] = notif.event
      OBVIOUS
    <3>3. QED
      BY <2>1, <3>1, <3>2
  <2>2. CASE notif.at # "looks up"
    <3>1. held = <<>>
      BY <2>2
    <3> HIDE DEF held
    <3>2. DOMAIN <<>> = {}
      OBVIOUS
    <3>3. QED
      BY <2>2, <3>1, <3>2
  <2>3. QED
    BY <2>1, <2>2
<1>4. /\ \A i \in DOMAIN raised : i = 1 /\ uart.RXIC /\ raised[i] = Event("RXIC", uart.rx)
      /\ uart.RXIC => 1 \in DOMAIN raised /\ raised[1] = Event("RXIC", uart.rx)
      /\ Event("RXIC", uart.rx).type = "RXIC" /\ Event("RXIC", uart.rx).val = uart.rx
  BY DEF Event
<1>5. /\ \A i \in DOMAIN inbox : inbox[i].val \in Nat
      /\ \A i \in DOMAIN event_q : event_q[i].val \in Nat
  <2>1. /\ \A i \in DOMAIN inbox : inbox[i] \in MsgType
        /\ \A i \in DOMAIN event_q : event_q[i] \in EventType
    BY <1>2, LenProperties, ElementOfSeq
  <2>2. QED
    BY <2>1 DEF MsgType, EventType
<1> HIDE DEF held, raised
\* A pending byte is at its place.
<1>6. ASSUME NEW p \in Pending
      PROVE  /\ p.place \in 1..4 /\ p.byte \in Nat /\ ByteAt(p.place, p.byte)
             /\ p.place = 1 => p.nth \in DOMAIN inbox /\ inbox[p.nth].type = "RXIC"
             /\ p.place \in {2, 4} => p.nth = 1
             /\ p.place = 3 => /\ p.nth \in DOMAIN event_q /\ event_q[p.nth].type = "RXIC"
                               /\ p.byte = event_q[p.nth].val
  <2>1. CASE p \in bytes(1, inbox)
    <3>1. PICK i \in DOMAIN inbox :
            inbox[i].type = "RXIC" /\ p = [place |-> 1, nth |-> i, byte |-> inbox[i].val]
      BY <2>1
    <3>2. p.place = 1 /\ p.nth = i /\ p.byte = inbox[i].val
      BY <3>1
    <3>3. ByteAt(1, p.byte)
      BY <3>1, <3>2, BytePlaces DEF HoldsByte
    <3>4. QED
      BY <1>5, <3>1, <3>2, <3>3
  <2>2. CASE p \in bytes(2, held)
    <3>1. PICK i \in DOMAIN held :
            held[i].type = "RXIC" /\ p = [place |-> 2, nth |-> i, byte |-> held[i].val]
      BY <2>2
    <3>2. p.place = 2 /\ p.nth = i /\ p.byte = held[i].val
      BY <3>1
    <3>3. /\ i = 1 /\ p.byte = notif.event.val /\ notif.event.type = "RXIC"
          /\ notif.at = "looks up"
      BY <1>3, <3>1, <3>2
    <3>4. ByteAt(2, p.byte) /\ p.byte \in Nat
      BY <1>2, <3>3, BytePlaces DEF EventType
    <3>5. p.place = 2 /\ p.nth = 1
      BY <3>2, <3>3
    <3>6. ByteAt(p.place, p.byte)
      BY <3>4, <3>5
    <3>7. QED
      BY <3>4, <3>5, <3>6
  <2>3. CASE p \in bytes(3, event_q)
    <3>1. PICK i \in DOMAIN event_q :
            event_q[i].type = "RXIC" /\ p = [place |-> 3, nth |-> i, byte |-> event_q[i].val]
      BY <2>3
    <3>2. p.place = 3 /\ p.nth = i /\ p.byte = event_q[i].val
      BY <3>1
    <3>3. ByteAt(3, p.byte)
      BY <3>1, <3>2, BytePlaces DEF HoldsByte
    <3>4. QED
      BY <1>5, <3>1, <3>2, <3>3
  <2>4. CASE p \in bytes(4, raised)
    <3>1. PICK i \in DOMAIN raised :
            raised[i].type = "RXIC" /\ p = [place |-> 4, nth |-> i, byte |-> raised[i].val]
      BY <2>4
    <3>2. p.place = 4 /\ p.nth = i /\ p.byte = raised[i].val
      BY <3>1
    <3>3. i = 1 /\ uart.RXIC /\ p.byte = uart.rx
      BY <1>4, <3>1, <3>2
    <3>4. ByteAt(4, p.byte)
      BY <3>3, BytePlaces
    <3>5. QED
      BY <1>2, <3>2, <3>3, <3>4
  <2>5. QED
    BY <1>1, <1>6, <2>1, <2>2, <2>3, <2>4
\* And every byte at a place is pending.
<1>7. ASSUME NEW b \in Nat, NEW place \in 1..4, ByteAt(place, b)
      PROVE  \E p \in Pending : p.byte = b
  <2>1. CASE place = 1
    <3>1. PICK i \in DOMAIN inbox : inbox[i].type = "RXIC" /\ inbox[i].val = b
      BY <1>7, <2>1, BytePlaces DEF HoldsByte
    <3>2. [place |-> 1, nth |-> i, byte |-> inbox[i].val] \in bytes(1, inbox)
      BY <3>1
    <3>3. QED
      BY <1>1, <3>1, <3>2
  <2>2. CASE place = 2
    <3>1. notif.at = "looks up" /\ notif.event.type = "RXIC" /\ notif.event.val = b
      BY <1>7, <2>2, BytePlaces
    <3>2. [place |-> 2, nth |-> 1, byte |-> held[1].val] \in bytes(2, held)
      BY <1>3, <3>1
    <3>3. held[1].val = b
      BY <1>3, <3>1
    <3>4. PICK p \in Pending : p = [place |-> 2, nth |-> 1, byte |-> held[1].val]
      BY <1>1, <3>2
    <3>5. p.byte = b
      BY <3>3, <3>4
    <3>6. QED
      BY <3>5
  <2>3. CASE place = 3
    <3>1. PICK i \in DOMAIN event_q : event_q[i].type = "RXIC" /\ event_q[i].val = b
      BY <1>7, <2>3, BytePlaces DEF HoldsByte
    <3>2. [place |-> 3, nth |-> i, byte |-> event_q[i].val] \in bytes(3, event_q)
      BY <3>1
    <3>3. QED
      BY <1>1, <3>1, <3>2
  <2>4. CASE place = 4
    <3>1. uart.RXIC /\ uart.rx = b
      BY <1>7, <2>4, BytePlaces
    <3>2. [place |-> 4, nth |-> 1, byte |-> raised[1].val] \in bytes(4, raised)
      BY <1>4, <3>1
    <3>3. QED
      BY <1>1, <1>4, <3>1, <3>2
  <2>5. QED
    BY <2>1, <2>2, <2>3, <2>4
<1> HIDE DEF bytes
<1>8. \A b \in Nat : (\E p \in Pending : p.byte = b) <=> lo < b /\ b <= sent
  BY <1>6, <1>7 DEF OnTheWay
<1>9. {p.byte : p \in Pending} = (lo + 1)..sent
  <2>1. \A b : b \in (lo + 1)..sent <=> b \in Nat /\ lo < b /\ b <= sent
    BY <1>2
  <2>2. \A b : b \in {p.byte : p \in Pending} <=> b \in Nat /\ \E p \in Pending : p.byte = b
    BY <1>6
  <2>3. QED
    BY <1>8, <2>1, <2>2
<1>10. ASSUME NEW p \in Pending, NEW q \in Pending, Before(p, q)
       PROVE  p.byte < q.byte
  <2>1. CASE p.place < q.place
    BY <1>6, <2>1 DEF OnTheWay
  <2>2. CASE p.place = q.place /\ p.nth < q.nth
    <3>1. CASE p.place = 1
      <4>1. /\ p.nth \in DOMAIN inbox /\ inbox[p.nth].type = "RXIC"
            /\ q.nth \in DOMAIN inbox /\ inbox[q.nth].type = "RXIC"
        BY <1>6, <2>2, <3>1
      <4>2. \A i \in DOMAIN inbox : i \in Nat /\ inbox[i] \in MsgType
        BY <1>2, LenProperties, ElementOfSeq
      <4>3. inbox[p.nth].tid = NotifTid /\ inbox[q.nth].tid = NotifTid
        BY <4>1, <4>2 DEF MsgType
      <4>4. p.nth = q.nth /\ p.nth \in Nat
        BY <4>1, <4>2, <4>3 DEF MInv, MessageInv
      <4>5. QED
        BY <2>2, <4>4
    <3>2. CASE p.place \in {2, 4}
      <4>1. p.nth = 1 /\ q.nth = 1
        BY <1>6, <2>2, <3>2
      <4>2. QED
        BY <2>2, <4>1
    <3>3. CASE p.place = 3
      <4>1. /\ p.nth \in DOMAIN event_q /\ event_q[p.nth].type = "RXIC"
            /\ q.nth \in DOMAIN event_q /\ event_q[q.nth].type = "RXIC"
            /\ p.byte = event_q[p.nth].val /\ q.byte = event_q[q.nth].val
        BY <1>6, <2>2, <3>3
      <4>2. QED
        BY <2>2, <4>1 DEF OnTheWay, Ascends
    <3>4. QED
      BY <1>6, <3>1, <3>2, <3>3
  <2>3. QED
    BY <1>10, <2>1, <2>2 DEF Before
<1>11. QED
  BY <1>9, <1>10

\* No byte the box sends is lost, doubled or overtaken once the server has
\* registered: the server and Getc() have the bytes from some byte on, and the
\* later ones are in the register, the queue, the notifier's hands or the inbox.
THEOREM BytesKeepOrder == MSpec => []BytesInOrder
<1>1. ASSUME MInv, ByteInv
      PROVE  BytesInOrder
  <2>1. PICK n \in Nat : n + Len(Received) <= sent /\ Has(n) /\ OnTheWay(n + Len(Received))
    BY <1>1 DEF ByteInv
  <2>2. PICK len \in Nat : len = Len(Received)
    BY <1>1, ReceivedFacts DEF MInv
  <2>3. sent \in Nat /\ n + len <= sent /\ n + len \in Nat
    <3>1. sent \in Nat
      BY <1>1 DEF MInv, MarklinTypeOK
    <3>2. n + len <= sent
      BY <2>1, <2>2
    <3>3. n + len \in Nat
      OBVIOUS
    <3>4. QED
      BY <3>1, <3>2, <3>3
  <2>4. n \in 0..(sent - len)
    BY <2>3
  <2>5. /\ {p.byte : p \in Pending} = (n + len + 1)..sent
        /\ \A p, q \in Pending : Before(p, q) => p.byte < q.byte
    <3>1. PICK lo \in Nat : lo = n + len
      BY <2>3
    <3>2. OnTheWay(lo) /\ lo <= sent
      BY <2>1, <2>2, <2>3, <3>1
    <3>3. QED
      BY <1>1, <3>1, <3>2, PendingFacts
  <2>6. \A i \in DOMAIN Received : Received[i] = n + i
    BY <2>1 DEF Has
  <2>7. QED
    BY <2>2, <2>4, <2>5, <2>6 DEF BytesInOrder, Received
<1>2. MInit => ByteInv
  BY BytesInitially
<1>3. MInv /\ MInv' /\ ByteInv /\ [MNext]_marklinVars => ByteInv'
  BY BytesStep
<1>4. QED
  BY <1>1, <1>2, <1>3, MarklinInvariant, PTL DEF MSpec
=============================================================================
