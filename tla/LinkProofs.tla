------------------------------ MODULE LinkProofs -------------------------------
(***************************************************************************)
(* Proofs about the link to the container and the calls of the disk file   *)
(* system: a client is answered with words of its own line (LinkServer),   *)
(* and a call tells what it did to its file (DiskFs), both while no        *)
(* command was given up.                                                   *)
(***************************************************************************)
EXTENDS DiskFs, QueueLemmas

-----------------------------------------------------------------------------
(* Types. *)

Verbs == {"STAT", "LS", "MKDIR", "RM", "READ", "TRUNC", "WRITE", "APPEND"}
Words ==
  {"OK", "ERR", "NOENT", "FILE", "DIR", "EOF", "HEX", "\n",
   "(no link)", "(busy)", "(no response)"} \cup STRING
WordType == [word : Words, data : Seq(STRING), of : Nat]
CommandType == [verb : Verbs, path : Clients, off : Nat, data : Seq(STRING)]
AtPath == [kind : {"none", "file", "dir"}, data : Seq(STRING)]
MessageType ==
  [type : {"RX", "SEND"}, from : Clients \cup {"notifier"}, words : Seq(WordType),
   cmd : CommandType \cup {NoCommand}]
SentType == [cmd : CommandType, of : Nat]
JobType ==
  [op : DiskOps \cup {"none"}, path : Clients \cup {"none"}, sends : CommandType \cup {NoCommand},
   total : Nat, data : Seq(STRING), old : AtPath]

LinkTypes ==
  /\ linkUp \in BOOLEAN
  /\ link \in [client : Clients \cup {NoTask}, deadline : Nat, line : Seq(WordType), sent : Nat]
  /\ linbox \in Seq(MessageType)
  /\ lnotif \in {"drains", "sends", "delays"}
  /\ rxFifo \in Seq(WordType) /\ answering \in Seq(WordType)
  /\ commands \in Seq(SentType)
  /\ asking \in [Clients -> [at : {"runs", "sends", "answered"}, reply : Seq(WordType)]]

DiskTypes ==
  /\ disk \in [Clients -> AtPath]
  /\ job \in [Clients -> JobType]
  /\ \A c \in Clients : job[c].op # "none" => job[c].path = c

\* The notifier has sent one message at most, and waits for its reply.
OneRx(q) == \A i, j \in DOMAIN q : q[i].type = "RX" /\ q[j].type = "RX" => i = j
NotifierWaits ==
  /\ \A i \in DOMAIN linbox : linbox[i].type = "RX" => lnotif = "sends"
  /\ ~linkUp => linbox = <<>> /\ lnotif = "sends"
\* Messages of clients hold commands, and come from clients.
SendsCommands ==
  \A i \in DOMAIN linbox :
    linbox[i].type = "SEND" => linbox[i].from \in Clients /\ linbox[i].cmd \in CommandType

\* No name in a directory is an end of line.
NamesAreWords(at) ==
  at.kind = "dir" => \A i \in DOMAIN at.data : at.data[i] # "\n"

DTypes ==
  /\ LinkTypes /\ DiskTypes
  /\ OneRx(linbox) /\ NotifierWaits /\ SendsCommands
  /\ \A c \in Clients : NamesAreWords(disk[c])

-----------------------------------------------------------------------------
(* The line on its way. *)

\* The words of the message of the notifier that waits for the server.
RxOf(q) ==
  LET is == {i \in DOMAIN q : q[i].type = "RX"}
  IN  IF is = {} THEN <<>> ELSE q[CHOOSE i \in is : TRUE].words
Waiting == RxOf(linbox)

\* Words without an end of line; words that end with the only end of line.
Clean(s) == \A i \in DOMAIN s : s[i].word # "\n"
Ends(s) ==
  s # <<>> /\ s[Len(s)].word = "\n" /\ \A i \in 1..(Len(s) - 1) : s[i].word # "\n"
\* Words of the line that answers the command n.
OfCommand(s, n) == \A i \in DOMAIN s : s[i].of \in {0, n}

\* The rest of one line, in the three places it passes, in their order.
OneLine(waits, came, comes) ==
  \/ Clean(waits) /\ Clean(came) /\ Ends(comes)
  \/ Clean(waits) /\ Ends(came) /\ comes = <<>>
  \/ Ends(waits) /\ came = <<>> /\ comes = <<>>

\* An idle server has nothing under way; a busy one has its command or the
\* line that answers it.
OnWay ==
  IF link.client = NoTask
  THEN commands = <<>> /\ Waiting = <<>> /\ rxFifo = <<>> /\ answering = <<>>
  ELSE /\ Clean(link.line)
       /\ \A s \in {link.line, Waiting, rxFifo, answering} : OfCommand(s, link.sent)
       /\ \/ /\ \E m \in SentType : commands = <<m>> /\ m.of = link.sent
             /\ Waiting = <<>> /\ rxFifo = <<>> /\ answering = <<>>
          \/ commands = <<>> /\ OneLine(Waiting, rxFifo, answering)

-----------------------------------------------------------------------------
(* The calls and their commands. *)

\* What is at the path before the command the job has under way is served, and
\* after it, for the calls that write.
Before(j) ==
  CASE j.op = "DiskWrite" /\ j.data # <<>> ->
         [kind |-> "file", data |-> SubSeq(Text, 1, j.total)]
    [] j.op = "DiskAppend" /\ j.total # 0 ->
         [kind |-> "file", data |-> j.old.data \o SubSeq(Text, 1, j.total)]
    [] OTHER -> j.old
After(j) ==
  LET total == j.total + Len(Chunk(j.total))
  IN  [kind |-> "file",
       data |-> IF j.op = "DiskAppend" THEN j.old.data \o SubSeq(Text, 1, total)
                ELSE IF j.data = <<>> THEN <<>> ELSE SubSeq(Text, 1, total)]

\* The command that job j has under way.
Matches(j, cmd) ==
  /\ cmd.path = j.path
  /\ cmd.verb = CASE j.op = "DiskStat" -> "STAT"
                  [] j.op = "DiskLs" -> "LS"
                  [] j.op = "DiskMkdir" -> "MKDIR"
                  [] j.op = "DiskRm" -> "RM"
                  [] j.op = "DiskRead" -> "READ"
                  [] j.op = "DiskWrite" ->
                       IF j.data = <<>> THEN "TRUNC" ELSE IF j.total = 0 THEN "WRITE" ELSE "APPEND"
                  [] OTHER -> "APPEND"
  /\ cmd.verb \in {"WRITE", "APPEND"} => cmd.data = Chunk(j.total)

\* What the word w that answers job j says of its path.
Told(j, w, at) ==
  CASE j.op \in {"DiskWrite", "DiskAppend"} -> at = IF w.word = "OK" THEN After(j) ELSE Before(j)
    [] j.op = "DiskStat" -> /\ w.word = "FILE" => at.kind = "file" /\ at.data = w.data
                            /\ w.word = "DIR" => at.kind = "dir"
                            /\ w.word = "NOENT" => at.kind = "none"
    [] j.op = "DiskMkdir" -> w.word = "OK" => at.kind = "dir" /\ j.old.kind = "none"
    [] j.op = "DiskRm" -> w.word \in {"OK", "NOENT"} => at.kind = "none"
    [] OTHER -> at = Before(j)

JobOf(c) ==
  /\ job[c].op = "none" => asking[c].at = "runs"
  /\ job[c].sends # NoCommand =>
       job[c].op # "none" /\ asking[c].at = "runs" /\ Matches(job[c], job[c].sends)
  /\ job[c].op \in {"DiskWrite", "DiskAppend"} =>
       job[c].total <= Len(Text) /\ (job[c].data = <<>> => job[c].total = 0)

\* Who waits for the server waits for one command, which is in its mailbox or
\* under way.
Asking ==
  /\ \A c \in Clients : JobOf(c)
  /\ link.client # NoTask => asking[link.client].at = "sends"
  /\ \A i \in DOMAIN linbox : linbox[i].type = "SEND" =>
       LET c == linbox[i].from
       IN  asking[c].at = "sends" /\ link.client # c /\ Matches(job[c], linbox[i].cmd)
  /\ \A i, j \in DOMAIN linbox :
       linbox[i].type = "SEND" /\ linbox[j].type = "SEND" /\ linbox[i].from = linbox[j].from
         => i = j

\* The word that answers a command comes with its end of line.
Comes(w) ==
  LET l == <<w, NewLine>>
  IN  <<Waiting, rxFifo, answering>> \in {<<l, <<>>, <<>>>>, <<<<>>, l, <<>>>>, <<<<>>, <<>>, l>>}

OneWord(c) == job[c].op # "DiskLs"

\* What is at the path of a client while its call goes on.
Truth(c) ==
  job[c].op # "none" =>
    /\ asking[c].at = "runs" => disk[c] = Before(job[c])
    /\ asking[c].at = "sends" /\ link.client # c => disk[c] = Before(job[c])
    /\ link.client = c /\ commands # <<>> =>
         disk[c] = Before(job[c]) /\ Matches(job[c], commands[1].cmd) /\ link.line = <<>>
    /\ link.client = c /\ commands = <<>> /\ OneWord(c) =>
         /\ link.line = <<>>
         /\ \E w \in WordType : w.word # "\n" /\ Told(job[c], w, disk[c]) /\ Comes(w)
    /\ asking[c].at = "answered" /\ OneWord(c) =>
         \E w \in WordType : asking[c].reply = <<w>> /\ Told(job[c], w, disk[c])

-----------------------------------------------------------------------------
(* Sequences of words. *)

LEMMA MinOfTwo ==
  ASSUME NEW a \in Int, NEW b \in Int
  PROVE  Min({a, b}) = IF a <= b THEN a ELSE b
<1> DEFINE m == IF a <= b THEN a ELSE b
<1>1. m \in {a, b} /\ \A y \in {a, b} : m <= y
  OBVIOUS
<1>2. \A x \in {a, b} : (\A y \in {a, b} : x <= y) => x = m
  OBVIOUS
<1> HIDE DEF m
<1>3. Min({a, b}) = m
  BY <1>1, <1>2 DEF Min
<1>4. QED
  BY <1>3 DEF m

\* A part of a sequence holds what the sequence holds.
LEMMA PartOf ==
  ASSUME NEW T, NEW s \in Seq(T), NEW m \in Nat \ {0}, NEW n \in Int, n <= Len(s)
  PROVE  LET r == SubSeq(s, m, n)
         IN  /\ r \in Seq(T) /\ Len(r) = (IF m <= n THEN n - m + 1 ELSE 0)
             /\ \A i \in DOMAIN r : m + i - 1 \in DOMAIN s /\ r[i] = s[m + i - 1]
             /\ DOMAIN r = 1..(n - m + 1)
<1> DEFINE r == SubSeq(s, m, n)
<1>1. Len(s) \in Nat /\ DOMAIN s = 1..Len(s) /\ \A i \in 1..Len(s) : s[i] \in T
  BY LenProperties, ElementOfSeq
<1>2. /\ r \in Seq(T) /\ Len(r) = (IF m <= n THEN n - m + 1 ELSE 0)
      /\ \A i \in 1..(n - m + 1) : r[i] = s[m + i - 1]
  BY <1>1, SubSeqProperties
<1>3. DOMAIN r = 1..Len(r)
  BY <1>2, LenProperties
<1> HIDE DEF r
<1>4. DOMAIN r = 1..(n - m + 1)
  BY <1>2, <1>3
<1>5. QED
  BY <1>1, <1>2, <1>4 DEF r

\* A sequence after another holds what they hold.
LEMMA JoinOf ==
  ASSUME NEW T, NEW s \in Seq(T), NEW t \in Seq(T)
  PROVE  LET r == s \o t
         IN  /\ r \in Seq(T) /\ Len(r) = Len(s) + Len(t)
             /\ DOMAIN s = 1..Len(s) /\ DOMAIN t = 1..Len(t) /\ DOMAIN r = 1..(Len(s) + Len(t))
             /\ Len(s) \in Nat /\ Len(t) \in Nat
             /\ \A i \in DOMAIN s : r[i] = s[i]
             /\ \A i \in DOMAIN t : r[Len(s) + i] = t[i]
             /\ \A i \in DOMAIN r : \/ i \in DOMAIN s /\ r[i] = s[i]
                                    \/ i - Len(s) \in DOMAIN t /\ r[i] = t[i - Len(s)]
<1> DEFINE r == s \o t
<1>1. /\ Len(s) \in Nat /\ DOMAIN s = 1..Len(s)
      /\ Len(t) \in Nat /\ DOMAIN t = 1..Len(t)
  BY LenProperties
<1>2. /\ r \in Seq(T) /\ Len(r) = Len(s) + Len(t)
      /\ \A i \in 1..(Len(s) + Len(t)) : r[i] = IF i <= Len(s) THEN s[i] ELSE t[i - Len(s)]
  BY ConcatProperties
<1>3. DOMAIN r = 1..(Len(s) + Len(t))
  BY <1>2, LenProperties
<1> HIDE DEF r
<1>4. QED
  BY <1>1, <1>2, <1>3 DEF r

\* What is kept of a line is a part of it; of no words and of one it is all.
LEMMA KeptOf ==
  ASSUME NEW s \in Seq(WordType)
  PROVE  /\ Kept(s) \in Seq(WordType)
         /\ \A i \in DOMAIN Kept(s) : \E j \in DOMAIN s : Kept(s)[i] = s[j]
         /\ Len(s) <= 1 => Kept(s) = s
<1> DEFINE rest == Len(s) % (LINK_REPLY_MAX + 1)
           m == Len(s) - rest + 1
<1>1. Len(s) \in Nat /\ LINK_REPLY_MAX + 1 \in Nat \ {0} /\ LINK_REPLY_MAX + 1 > 1
  BY LenProperties, LinkAssumption
<1>2. rest \in Nat /\ rest <= Len(s) /\ (Len(s) <= 1 => rest = Len(s))
  <2>1. \A a \in Nat, b \in Nat \ {0} : a % b \in Nat /\ a % b <= a /\ (a < b => a % b = a)
    OBVIOUS
  <2>2. QED
    BY <1>1, <2>1
<1> HIDE DEF rest
<1>3. m \in Nat \ {0}
  BY <1>1, <1>2
<1>4. Kept(s) = SubSeq(s, m, Len(s))
  BY DEF Kept, rest
<1> HIDE DEF m
<1>5. /\ Kept(s) \in Seq(WordType)
      /\ \A i \in DOMAIN Kept(s) : m + i - 1 \in DOMAIN s /\ Kept(s)[i] = s[m + i - 1]
  BY <1>1, <1>3, <1>4, PartOf
<1>6. Len(s) <= 1 => Kept(s) = s
  <2>1. Len(s) <= 1 => m = 1
    BY <1>1, <1>2 DEF m
  <2>2. SubSeq(s, 1, Len(s)) = s
    BY SubSeqFull
  <2>3. QED
    BY <1>4, <2>1, <2>2
<1>7. QED
  BY <1>5, <1>6

\* The message of the notifier in a mailbox, and its words.
NoRx(q) == \A i \in DOMAIN q : q[i].type # "RX"

LEMMA RxIs ==
  ASSUME NEW q \in Seq(MessageType), OneRx(q)
  PROVE  /\ \A i \in DOMAIN q : q[i].type = "RX" => RxOf(q) = q[i].words
         /\ NoRx(q) => RxOf(q) = <<>>
         /\ RxOf(q) \in Seq(WordType)
<1> DEFINE is == {i \in DOMAIN q : q[i].type = "RX"}
<1>1. ASSUME NEW i \in DOMAIN q, q[i].type = "RX" PROVE RxOf(q) = q[i].words
  <2>1. is = {i}
    BY <1>1 DEF OneRx
  <2>2. (CHOOSE k \in is : TRUE) = i
    BY <2>1
  <2>3. QED
    BY <2>1, <2>2 DEF RxOf
<1>2. NoRx(q) => RxOf(q) = <<>>
  BY DEF NoRx, RxOf
<1>3. \A i \in DOMAIN q : q[i].words \in Seq(WordType)
  <2>1. \A i \in DOMAIN q : q[i] \in MessageType
    BY ElementOfSeq, LenProperties
  <2>2. QED
    BY <2>1 DEF MessageType
<1>4. <<>> \in Seq(WordType)
  OBVIOUS
<1>5. RxOf(q) \in Seq(WordType)
  BY <1>1, <1>2, <1>3, <1>4 DEF NoRx
<1>6. QED
  BY <1>1, <1>2, <1>5

LEMMA RxJoins ==
  ASSUME NEW q \in Seq(MessageType), OneRx(q), NEW m \in MessageType
  PROVE  LET r == Append(q, m)
         IN  /\ m.type # "RX" => OneRx(r) /\ RxOf(r) = RxOf(q)
             /\ m.type = "RX" /\ NoRx(q) => OneRx(r) /\ RxOf(r) = m.words
<1> DEFINE r == Append(q, m)
<1>1. /\ r \in Seq(MessageType) /\ Len(q) \in Nat
      /\ DOMAIN q = 1..Len(q) /\ DOMAIN r = 1..(Len(q) + 1)
      /\ \A i \in DOMAIN q : r[i] = q[i]
      /\ r[Len(q) + 1] = m
      /\ \A i \in DOMAIN r : i \in DOMAIN q \/ i = Len(q) + 1
  BY AppendFacts
<1> HIDE DEF r
<1>2. Len(q) + 1 \in DOMAIN r /\ \A i \in DOMAIN q : i \in DOMAIN r
  BY <1>1
<1>3. CASE m.type # "RX"
  <2>1. \A i \in DOMAIN r : r[i].type = "RX" => i \in DOMAIN q /\ q[i].type = "RX"
    BY <1>1, <1>3
  <2>2. OneRx(r)
    BY <1>1, <2>1 DEF OneRx
  <2>3. CASE NoRx(q)
    <3>1. NoRx(r)
      BY <2>1, <2>3 DEF NoRx
    <3>2. QED
      BY <1>1, <1>3, <2>2, <2>3, <3>1, RxIs DEF r
  <2>4. CASE ~NoRx(q)
    <3>1. PICK i \in DOMAIN q : q[i].type = "RX"
      BY <2>4 DEF NoRx
    <3>2. i \in DOMAIN r /\ r[i] = q[i]
      BY <1>1, <1>2
    <3>3. RxOf(r) = r[i].words /\ RxOf(q) = q[i].words
      BY <1>1, <2>2, <3>1, <3>2, RxIs
    <3>4. QED
      BY <1>3, <2>2, <3>2, <3>3 DEF r
  <2>5. QED
    BY <2>3, <2>4
<1>4. CASE m.type = "RX" /\ NoRx(q)
  <2>1. \A i \in DOMAIN r : r[i].type = "RX" => i = Len(q) + 1
    BY <1>1, <1>4 DEF NoRx
  <2>2. OneRx(r)
    BY <2>1 DEF OneRx
  <2>3. RxOf(r) = m.words
    BY <1>1, <1>2, <1>4, <2>2, RxIs
  <2>4. QED
    BY <1>4, <2>2, <2>3 DEF r
<1>5. QED
  BY <1>3, <1>4 DEF r

LEMMA RxLeaves ==
  ASSUME NEW q \in Seq(MessageType), OneRx(q), q # <<>>
  PROVE  /\ OneRx(Tail(q))
         /\ Head(q).type # "RX" => RxOf(Tail(q)) = RxOf(q)
         /\ Head(q).type = "RX" =>
              RxOf(q) = Head(q).words /\ RxOf(Tail(q)) = <<>> /\ NoRx(Tail(q))
<1> DEFINE r == Tail(q)
<1>1. /\ r \in Seq(MessageType) /\ 1 \in DOMAIN q /\ Head(q) = q[1]
      /\ \A i \in DOMAIN r : i \in Nat /\ i + 1 \in DOMAIN q /\ i + 1 # 1 /\ r[i] = q[i + 1]
      /\ \A i \in DOMAIN q : i # 1 => i - 1 \in DOMAIN r /\ r[i - 1] = q[i]
      /\ \A i \in DOMAIN q : i \in Nat \ {0}
  BY TailFacts
<1> HIDE DEF r
<1>2. OneRx(r)
  <2> SUFFICES ASSUME NEW i \in DOMAIN r, NEW j \in DOMAIN r, r[i].type = "RX", r[j].type = "RX"
               PROVE  i = j
    BY DEF OneRx
  <2>1. i + 1 \in DOMAIN q /\ q[i + 1].type = "RX"
    BY <1>1
  <2>2. j + 1 \in DOMAIN q /\ q[j + 1].type = "RX"
    BY <1>1
  <2>3. i + 1 = j + 1
    BY <2>1, <2>2 DEF OneRx
  <2>4. QED
    BY <1>1, <2>3
<1>3. CASE Head(q).type # "RX"
  <2>1. CASE NoRx(q)
    <3>1. NoRx(r)
      BY <1>1, <2>1 DEF NoRx
    <3>2. QED
      BY <1>1, <1>2, <1>3, <2>1, <3>1, RxIs DEF r
  <2>2. CASE ~NoRx(q)
    <3>1. PICK i \in DOMAIN q : q[i].type = "RX"
      BY <2>2 DEF NoRx
    <3>2. i # 1
      BY <1>1, <1>3, <3>1
    <3>3. i - 1 \in DOMAIN r /\ r[i - 1] = q[i]
      BY <1>1, <3>2
    <3>4. RxOf(r) = r[i - 1].words /\ RxOf(q) = q[i].words
      BY <1>1, <1>2, <3>1, <3>3, RxIs
    <3>5. RxOf(r) = RxOf(q)
      BY <3>3, <3>4
    <3>6. QED
      BY <1>2, <1>3, <3>5 DEF r
  <2>3. QED
    BY <2>1, <2>2
<1>4. CASE Head(q).type = "RX"
  <2>1. NoRx(r)
    BY <1>1, <1>4 DEF OneRx, NoRx
  <2>2. RxOf(q) = Head(q).words /\ RxOf(r) = <<>>
    BY <1>1, <1>2, <1>4, <2>1, RxIs
  <2>3. QED
    BY <1>2, <1>4, <2>1, <2>2 DEF r
<1>5. QED
  BY <1>3, <1>4

\* Lines on their way, a word at a time.
LEMMA LineMoves ==
  ASSUME NEW came \in Seq(WordType), NEW comes \in Seq(WordType), comes # <<>>
  PROVE  LET n == IF Len(comes) = 2 THEN 2 ELSE 1
             now == came \o SubSeq(comes, 1, n)
             rest == SubSeq(comes, n + 1, Len(comes))
         IN  /\ now \in Seq(WordType) /\ rest \in Seq(WordType)
             /\ Clean(came) /\ Ends(comes) =>
                  (Clean(now) /\ Ends(rest)) \/ (Ends(now) /\ rest = <<>>)
             /\ \A k : OfCommand(came, k) /\ OfCommand(comes, k) =>
                         OfCommand(now, k) /\ OfCommand(rest, k)
             /\ Len(comes) = 2 => rest = <<>> /\ (came = <<>> => now = comes)
<1> DEFINE n == IF Len(comes) = 2 THEN 2 ELSE 1
           first == SubSeq(comes, 1, n)
           now == came \o first
           rest == SubSeq(comes, n + 1, Len(comes))
<1>1. Len(comes) \in Nat /\ Len(comes) >= 1 /\ DOMAIN comes = 1..Len(comes)
  BY LenProperties, EmptySeq
<1>2. n \in Nat \ {0} /\ n \in {1, 2} /\ n <= Len(comes) /\ (n = 2 <=> Len(comes) = 2)
  BY <1>1
<1> HIDE DEF n
<1>3. /\ first \in Seq(WordType) /\ Len(first) = n /\ DOMAIN first = 1..n
      /\ \A i \in 1..n : first[i] = comes[i]
  BY <1>1, <1>2, PartOf
<1>4. /\ rest \in Seq(WordType)
      /\ Len(rest) = Len(comes) - n /\ DOMAIN rest = 1..(Len(comes) - n)
      /\ \A i \in DOMAIN rest : n + i \in DOMAIN comes /\ rest[i] = comes[n + i]
  <2>1. /\ rest \in Seq(WordType)
        /\ Len(rest) = (IF n + 1 <= Len(comes) THEN Len(comes) - (n + 1) + 1 ELSE 0)
        /\ \A i \in DOMAIN rest :
             (n + 1) + i - 1 \in DOMAIN comes /\ rest[i] = comes[(n + 1) + i - 1]
        /\ DOMAIN rest = 1..(Len(comes) - (n + 1) + 1)
    <3>1. n + 1 \in Nat \ {0} /\ Len(comes) \in Int /\ Len(comes) <= Len(comes)
      BY <1>1, <1>2
    <3>2. QED
      BY <3>1, PartOf
  <2> HIDE DEF rest
  <2>2. Len(comes) - (n + 1) + 1 = Len(comes) - n
    BY <1>1, <1>2
  <2>3. Len(rest) = Len(comes) - n
    <3>1. n + 1 <= Len(comes) \/ Len(comes) - n = 0
      <4>1. \A a, b \in Nat : a <= b => a + 1 <= b \/ b - a = 0
        OBVIOUS
      <4>2. QED
        BY <1>1, <1>2, <4>1
    <3>2. QED
      BY <2>1, <2>2, <3>1
  <2>4. \A i \in 1..(Len(comes) - n) : (n + 1) + i - 1 = n + i
    BY <1>1, <1>2
  <2>5. QED
    BY <2>1, <2>2, <2>3, <2>4
<1> HIDE DEF first, rest
<1>5. /\ now \in Seq(WordType) /\ Len(now) = Len(came) + n /\ Len(came) \in Nat
      /\ DOMAIN came = 1..Len(came) /\ DOMAIN now = 1..(Len(came) + n)
      /\ \A i \in DOMAIN came : now[i] = came[i]
      /\ \A i \in 1..n : now[Len(came) + i] = comes[i]
      /\ \A i \in DOMAIN now : \/ i \in DOMAIN came /\ now[i] = came[i]
                               \/ i - Len(came) \in 1..n /\ now[i] = comes[i - Len(came)]
  BY <1>2, <1>3, JoinOf
<1> HIDE DEF now
<1>6. ASSUME Clean(came), Ends(comes)
      PROVE  (Clean(now) /\ Ends(rest)) \/ (Ends(now) /\ rest = <<>>)
  <2>1. CASE Len(comes) = n
    <3>1. rest = <<>>
      BY <1>4, <2>1, EmptySeq
    <3>2. now[Len(now)].word = "\n"
      BY <1>2, <1>5, <1>6, <2>1 DEF Ends
    <3>3. \A i \in 1..(Len(now) - 1) : now[i].word # "\n"
      <4> SUFFICES ASSUME NEW i \in 1..(Len(now) - 1) PROVE now[i].word # "\n"
        OBVIOUS
      <4>1. CASE i \in DOMAIN came
        BY <1>5, <1>6, <4>1 DEF Clean
      <4>2. CASE i \notin DOMAIN came
        <5>1. i \in DOMAIN now
          BY <1>2, <1>5
        <5>2. i - Len(came) \in 1..(Len(comes) - 1) /\ now[i] = comes[i - Len(came)]
          BY <1>2, <1>5, <2>1, <4>2, <5>1
        <5>3. QED
          BY <1>6, <5>2 DEF Ends
      <4>3. QED
        BY <4>1, <4>2
    <3>4. now # <<>>
      BY <1>2, <1>5
    <3>5. QED
      BY <3>1, <3>2, <3>3, <3>4 DEF Ends
  <2>2. CASE Len(comes) # n
    <3>1. n = 1 /\ Len(comes) > 1
      <4>1. n # 2
        BY <1>2, <2>2
      <4>2. n = 1
        BY <1>2, <4>1
      <4>3. Len(comes) # 1
        BY <2>2, <4>2
      <4>4. QED
        BY <1>1, <4>2, <4>3
    <3>2. Clean(now)
      BY <1>1, <1>5, <1>6, <3>1 DEF Clean, Ends
    <3>3. rest # <<>> /\ rest[Len(rest)].word = "\n"
      <4>1. Len(rest) \in DOMAIN rest /\ n + Len(rest) = Len(comes)
        BY <1>1, <1>2, <1>4, <3>1
      <4>2. QED
        BY <1>4, <1>6, <4>1 DEF Ends
    <3>4. \A i \in 1..(Len(rest) - 1) : rest[i].word # "\n"
      <4> SUFFICES ASSUME NEW i \in 1..(Len(rest) - 1) PROVE rest[i].word # "\n"
        OBVIOUS
      <4>1. i \in DOMAIN rest /\ n + i \in 1..(Len(comes) - 1)
        BY <1>1, <1>2, <1>4
      <4>2. QED
        BY <1>4, <1>6, <4>1 DEF Ends
    <3>5. Ends(rest)
      BY <3>3, <3>4, Zenon DEF Ends
    <3>6. QED
      BY <3>2, <3>5, Zenon
  <2>3. QED
    BY <2>1, <2>2
<1>7. ASSUME NEW k, OfCommand(came, k), OfCommand(comes, k)
      PROVE  OfCommand(now, k) /\ OfCommand(rest, k)
  <2>1. \A i \in 1..n : i \in DOMAIN comes
    BY <1>1, <1>2
  <2>2. QED
    BY <1>4, <1>5, <1>7, <2>1 DEF OfCommand
<1>8. ASSUME Len(comes) = 2 PROVE rest = <<>> /\ (came = <<>> => now = comes)
  <2>1. n = 2
    BY <1>2, <1>8
  <2>2. rest = <<>>
    BY <1>4, <1>8, <2>1, EmptySeq
  <2>3. ASSUME came = <<>> PROVE now = comes
    <3>1. Len(came) = 0
      BY <2>3
    <3>2. Len(now) = Len(comes) /\ \A i \in 1..Len(now) : now[i] = comes[i]
      BY <1>5, <1>8, <2>1, <3>1
    <3>3. QED
      BY <1>5, <3>2, SeqEqual
  <2>4. QED
    BY <2>2, <2>3
<1>9. QED
  BY <1>4, <1>5, <1>6, <1>7, <1>8 DEF now, rest, first, n

-----------------------------------------------------------------------------
(* What the server makes of the words it receives. *)

LEMMA LineReceived ==
  ASSUME link.line \in Seq(WordType), NEW words \in Seq(WordType)
  PROVE  /\ LineAfter(words) \in Seq(WordType)
         /\ LineEnds(words) # {} => FirstLine(words) \in Seq(WordType)
         /\ LineEnds(words) = {} =>
              /\ Clean(link.line) => Clean(LineAfter(words))
              /\ \A n : OfCommand(link.line, n) /\ OfCommand(words, n) =>
                          OfCommand(LineAfter(words), n)
              /\ link.line = <<>> /\ words = <<>> => LineAfter(words) = <<>>
         /\ \A n : LineEnds(words) # {} /\ OfCommand(link.line, n) /\ OfCommand(words, n) =>
                     OfCommand(FirstLine(words), n)
         /\ (Clean(words) <=> LineEnds(words) = {})
<1> DEFINE ends == LineEnds(words)
           all == link.line \o words
           rest == SubSeq(words, Max(ends) + 1, Len(words))
           part == SubSeq(words, 1, Min(ends) - 1)
           first == link.line \o part
<1>1. Len(words) \in Nat /\ DOMAIN words = 1..Len(words) /\ ends \subseteq DOMAIN words
  BY LenProperties DEF LineEnds
<1>2. Clean(words) <=> ends = {}
  BY DEF Clean, LineEnds
<1>3. CASE ends = {}
  <2>1. LineAfter(words) = Kept(all)
    BY <1>3 DEF LineAfter
  <2>2. /\ all \in Seq(WordType)
        /\ \A i \in DOMAIN all : \/ i \in DOMAIN link.line /\ all[i] = link.line[i]
                                 \/ i - Len(link.line) \in DOMAIN words /\ all[i] = words[i - Len(link.line)]
    BY JoinOf
  <2>3. /\ Kept(all) \in Seq(WordType)
        /\ \A i \in DOMAIN Kept(all) : \E j \in DOMAIN all : Kept(all)[i] = all[j]
        /\ Len(all) <= 1 => Kept(all) = all
    BY <2>2, KeptOf
  <2> HIDE DEF all
  <2>4. Clean(link.line) => Clean(Kept(all))
    BY <1>2, <1>3, <2>2, <2>3 DEF Clean
  <2>5. \A n : OfCommand(link.line, n) /\ OfCommand(words, n) => OfCommand(Kept(all), n)
    BY <2>2, <2>3 DEF OfCommand
  <2>6. ASSUME link.line = <<>>, words = <<>> PROVE Kept(all) = <<>>
    <3>1. all = <<>>
      BY <2>6, ConcatEmptySeq DEF all
    <3>2. QED
      BY <2>3, <3>1
  <2>7. QED
    BY <1>2, <1>3, <2>1, <2>3, <2>4, <2>5, <2>6
<1>4. CASE ends # {}
  <2>1. Max(ends) \in 1..Len(words)
    <3>1. ends \subseteq 0..Len(words)
      BY <1>1
    <3>2. PICK x \in ends : \A y \in ends : y <= x
      <4> HIDE DEF ends
      <4>1. QED
        BY <1>1, <1>4, <3>1, GreatestBelow
    <3>3. \A y \in ends : x >= y
      BY <1>1, <3>2
    <3> HIDE DEF ends
    <3>4. Max(ends) \in ends
      BY <3>2, <3>3 DEF Max
    <3>5. QED
      BY <1>1, <3>4
  <2>2. Min(ends) \in 1..Len(words)
    <3>1. ends \in SUBSET Nat
      BY <1>1
    <3> HIDE DEF ends
    <3>2. QED
      BY <1>1, <1>4, <3>1, MinIsIn
  <2> HIDE DEF ends
  <2>3. LineAfter(words) = Kept(rest) /\ FirstLine(words) = Kept(first)
    BY <1>4 DEF LineAfter, FirstLine, ends
  <2>4. rest \in Seq(WordType)
    BY <1>1, <2>1, PartOf
  <2>5. /\ part \in Seq(WordType)
        /\ \A i \in DOMAIN part : 1 + i - 1 \in DOMAIN words /\ part[i] = words[1 + i - 1]
    <3>1. Min(ends) - 1 \in Int /\ Min(ends) - 1 <= Len(words) /\ 1 \in Nat \ {0}
      BY <1>1, <2>2
    <3>2. QED
      BY <3>1, PartOf
  <2> HIDE DEF part, rest
  <2>6. /\ first \in Seq(WordType)
        /\ \A i \in DOMAIN first : \/ i \in DOMAIN link.line /\ first[i] = link.line[i]
                                   \/ i - Len(link.line) \in DOMAIN part
                                        /\ first[i] = part[i - Len(link.line)]
    BY <2>5, JoinOf
  <2>7. /\ Kept(first) \in Seq(WordType)
        /\ \A i \in DOMAIN Kept(first) : \E j \in DOMAIN first : Kept(first)[i] = first[j]
    BY <2>6, KeptOf
  <2> HIDE DEF first
  <2>8. \A n : OfCommand(link.line, n) /\ OfCommand(words, n) => OfCommand(Kept(first), n)
    <3>1. ASSUME NEW n, OfCommand(link.line, n), OfCommand(words, n) PROVE OfCommand(Kept(first), n)
      <4>1. \A i \in DOMAIN part : part[i].of \in {0, n}
        BY <2>5, <3>1 DEF OfCommand
      <4>2. \A i \in DOMAIN first : first[i].of \in {0, n}
        BY <2>6, <3>1, <4>1 DEF OfCommand
      <4>3. QED
        BY <2>7, <4>2 DEF OfCommand
    <3>2. QED
      BY <3>1
  <2>9. Kept(rest) \in Seq(WordType)
    BY <2>4, KeptOf
  <2>10. QED
    BY <1>2, <1>4, <2>3, <2>7, <2>8, <2>9 DEF ends
<1>5. QED
  BY <1>3, <1>4

\* A message that ends the line leaves nothing behind.
LEMMA LineEnded ==
  ASSUME link.line \in Seq(WordType), NEW words \in Seq(WordType), Ends(words)
  PROVE  /\ LineEnds(words) # {} /\ LineAfter(words) = <<>>
         /\ \A w \in WordType :
              w.word # "\n" /\ words = <<w, NewLine>> /\ link.line = <<>> => FirstLine(words) = <<w>>
<1> DEFINE n == Len(words)
<1>1. n \in Nat \ {0} /\ DOMAIN words = 1..n
  BY LenProperties, EmptySeq DEF Ends
<1>2. LineEnds(words) = {n}
  <2>1. \A i \in DOMAIN words : i # n => i \in 1..(n - 1)
    BY <1>1
  <2>2. n \in DOMAIN words
    BY <1>1
  <2> HIDE DEF n
  <2>3. QED
    BY <2>1, <2>2 DEF LineEnds, Ends, n
<1> HIDE DEF n
<1>3. Max({n}) = n /\ Min({n}) = n
  BY <1>1 DEF Max, Min
<1>4. LineAfter(words) = <<>>
  <2>1. SubSeq(words, n + 1, n) = <<>>
    BY <1>1, SubSeqEmpty
  <2>2. <<>> \in Seq(WordType) /\ Len(<<>>) <= 1
    OBVIOUS
  <2>3. Kept(<<>>) = <<>>
    BY <2>2, KeptOf
  <2>4. QED
    BY <1>2, <1>3, <2>1, <2>3 DEF LineAfter, n
<1>5. ASSUME NEW w \in WordType, words = <<w, NewLine>>, link.line = <<>>
      PROVE  FirstLine(words) = <<w>>
  <2>1. n = 2
    BY <1>5 DEF n
  <2>2. /\ SubSeq(words, 1, 1) \in Seq(WordType) /\ Len(SubSeq(words, 1, 1)) = 1
        /\ SubSeq(words, 1, 1)[1] = words[1]
    <3>1. \A i \in 1..1 : words[i] \in WordType
      BY <1>5
    <3>2. QED
      BY <3>1, SubSeqProperties
  <2>3. <<w>> \in Seq(WordType) /\ Len(<<w>>) = 1 /\ <<w>>[1] = w
    OBVIOUS
  <2>4. SubSeq(words, 1, 1) = <<w>>
    <3>1. words[1] = w
      BY <1>5
    <3>2. \A i \in 1..1 : SubSeq(words, 1, 1)[i] = <<w>>[i]
      BY <2>2, <2>3, <3>1
    <3>3. QED
      BY <2>2, <2>3, <3>2, SeqEqual
  <2>5. <<>> \o <<w>> = <<w>>
    BY <2>3, ConcatEmptySeq
  <2>6. Kept(<<w>>) = <<w>>
    <3>1. Len(<<w>>) <= 1
      BY <2>3
    <3>2. QED
      BY <2>3, <3>1, KeptOf
  <2>7. n - 1 = 1
    BY <2>1
  <2>8. FirstLine(words) = Kept(link.line \o SubSeq(words, 1, n - 1))
    BY <1>2, <1>3 DEF FirstLine
  <2>9. QED
    BY <1>5, <2>4, <2>5, <2>6, <2>7, <2>8
<1>6. QED
  BY <1>2, <1>4, <1>5

-----------------------------------------------------------------------------
(* What the container answers. *)

LEMMA WordTyped ==
  ASSUME NEW w \in Words, NEW data \in Seq(STRING), NEW n \in Nat
  PROVE  Word(w, data, n) \in WordType /\ Word(w, data, n).word = w
BY DEF Word, WordType

LEMMA OneWordLine ==
  ASSUME NEW w \in WordType, w.word # "\n"
  PROVE  <<w>> \in Seq(WordType) /\ Clean(<<w>>)
BY DEF Clean

LEMMA OutcomeIs ==
  ASSUME NEW cmd \in CommandType, NEW at \in AtPath, NamesAreWords(at)
  PROVE  LET o == Outcome(cmd, at)
         IN  /\ o.line \in Seq(WordType) /\ Clean(o.line)
             /\ o.at \in AtPath /\ NamesAreWords(o.at)
             /\ cmd.verb # "LS" => \E w \in WordType : o.line = <<w>> /\ w.word # "\n"
<1> DEFINE o == Outcome(cmd, at)
           Good(l) == \E w \in WordType : l = <<w>> /\ w.word # "\n"
<1>0. /\ <<>> \in Seq(STRING)
      /\ cmd.off \in Nat /\ cmd.data \in Seq(STRING) /\ at.data \in Seq(STRING)
      /\ at.kind \in {"none", "file", "dir"}
  BY DEF CommandType, AtPath
<1>1. \A w \in Words : w # "\n" => Good(Line(w))
  <2> SUFFICES ASSUME NEW w \in Words, w # "\n" PROVE Good(Line(w))
    OBVIOUS
  <2>1. Word(w, <<>>, 0) \in WordType /\ Word(w, <<>>, 0).word = w
    BY <1>0, WordTyped
  <2>2. QED
    BY <2>1 DEF Line
<1>2. \A d \in Seq(STRING) : Good(Hex(d)) /\ Good(<<Word("FILE", d, 0)>>)
  <2>1. "HEX" \in Words /\ "FILE" \in Words
    BY DEF Words
  <2>2. QED
    BY <2>1, WordTyped DEF Hex
<1>3. \A l : Good(l) => l \in Seq(WordType) /\ Clean(l)
  BY OneWordLine
<1>4. \A k \in {"file", "dir"} : [kind |-> k, data |-> <<>>] \in AtPath /\ NamesAreWords([kind |-> k, data |-> <<>>])
  BY <1>0 DEF AtPath, NamesAreWords
<1>5. Absent \in AtPath /\ NamesAreWords(Absent)
  BY <1>0 DEF AtPath, NamesAreWords, Absent
<1>6. LET f == [kind |-> "file", data |-> at.data \o cmd.data]
      IN  f \in AtPath /\ NamesAreWords(f)
  <2>1. at.data \o cmd.data \in Seq(STRING)
    BY <1>0, JoinOf
  <2>2. QED
    BY <2>1 DEF AtPath, NamesAreWords
<1>7. SubSeq(at.data, cmd.off + 1, Min({cmd.off + DISKFS_CHUNK, Len(at.data)})) \in Seq(STRING)
  <2>1. cmd.off + 1 \in Nat \ {0} /\ cmd.off + DISKFS_CHUNK \in Int /\ Len(at.data) \in Int
    BY <1>0, LenProperties, DiskAssumption
  <2>2. LET m == Min({cmd.off + DISKFS_CHUNK, Len(at.data)})
        IN  m \in Int /\ m <= Len(at.data)
    BY <2>1, MinOfTwo
  <2>3. QED
    BY <1>0, <2>1, <2>2, PartOf
<1>8. ASSUME at.kind = "dir"
      PROVE  LET l == [i \in DOMAIN at.data |-> Word(at.data[i], <<>>, 0)]
             IN  l \in Seq(WordType) /\ Clean(l)
  <2>1. Len(at.data) \in Nat /\ DOMAIN at.data = 1..Len(at.data) /\ \A i \in 1..Len(at.data) : at.data[i] \in STRING
    BY <1>0, LenProperties, ElementOfSeq
  <2> DEFINE l == [i \in DOMAIN at.data |-> Word(at.data[i], <<>>, 0)]
  <2>2. \A i \in 1..Len(at.data) : Word(at.data[i], <<>>, 0) \in WordType
    BY <1>0, <2>1, WordTyped DEF Words
  <2>3. l \in Seq(WordType)
    BY <2>1, <2>2
  <2>4. Clean(l)
    BY <1>8 DEF Clean, NamesAreWords, Word
  <2>5. QED
    BY <2>3, <2>4
<1> HIDE DEF Good
<1>9. cmd.verb # "LS" => Good(o.line)
  <2>1. Good(Line("DIR")) /\ Good(Line("NOENT")) /\ Good(Line("OK")) /\ Good(Line("EOF")) /\ Good(Line("ERR"))
    BY <1>1 DEF Words
  <2>2. Good(<<Word("FILE", at.data, 0)>>)
    BY <1>0, <1>2
  <2>3. Good(Hex(SubSeq(at.data, cmd.off + 1, Min({cmd.off + DISKFS_CHUNK, Len(at.data)}))))
    BY <1>2, <1>7
  <2>4. CASE cmd.verb = "STAT"
    BY <2>1, <2>2, <2>4 DEF Outcome
  <2>5. CASE cmd.verb = "READ"
    BY <2>1, <2>3, <2>5 DEF Outcome
  <2>6. CASE cmd.verb \notin {"STAT", "READ", "LS"}
    BY <2>1, <2>6 DEF Outcome
  <2>7. QED
    BY <2>4, <2>5, <2>6
<1>10. cmd.verb = "LS" => o.line \in Seq(WordType) /\ Clean(o.line)
  <2>1. Good(Line("NOENT")) /\ Good(Line("ERR"))
    BY <1>1 DEF Words
  <2>2. Line("NOENT") \in Seq(WordType) /\ Clean(Line("NOENT"))
        /\ Line("ERR") \in Seq(WordType) /\ Clean(Line("ERR"))
    BY <1>3, <2>1
  <2>3. QED
    BY <1>0, <1>8, <2>2 DEF Outcome
<1>11. o.at \in AtPath /\ NamesAreWords(o.at)
  BY <1>4, <1>5, <1>6 DEF Outcome
<1>12. QED
  BY <1>3, <1>9, <1>10, <1>11 DEF Good

\* The line as it comes: its words, marked with their command, and its end.
Marked(words, n) == [i \in DOMAIN words |-> [words[i] EXCEPT !.of = n]] \o <<NewLine>>

LEMMA LineStarts ==
  ASSUME NEW words \in Seq(WordType), Clean(words), NEW n \in Nat
  PROVE  /\ Marked(words, n) \in Seq(WordType)
         /\ Ends(Marked(words, n)) /\ OfCommand(Marked(words, n), n)
         /\ \A w \in WordType : words = <<w>> =>
              Marked(words, n) = <<[w EXCEPT !.of = n], NewLine>>
<1> DEFINE s == [i \in DOMAIN words |-> [words[i] EXCEPT !.of = n]]
           r == s \o <<NewLine>>
<1>1. Len(words) \in Nat /\ DOMAIN words = 1..Len(words) /\ \A i \in 1..Len(words) : words[i] \in WordType
  BY LenProperties, ElementOfSeq
<1>2. NewLine \in WordType /\ NewLine.word = "\n" /\ NewLine.of = 0
  <2>1. <<>> \in Seq(STRING)
    OBVIOUS
  <2>2. QED
    BY <2>1 DEF NewLine, Word, WordType, Words
<1>3. <<NewLine>> \in Seq(WordType) /\ Len(<<NewLine>>) = 1 /\ <<NewLine>>[1] = NewLine
  BY <1>2
<1>4. \A w \in WordType : /\ [w EXCEPT !.of = n] \in WordType
                          /\ [w EXCEPT !.of = n].of = n
                          /\ [w EXCEPT !.of = n].word = w.word
  BY DEF WordType
<1>5. s \in Seq(WordType) /\ Len(s) = Len(words) /\ \A i \in 1..Len(words) : s[i] = [words[i] EXCEPT !.of = n]
  <2>1. s \in Seq(WordType)
    BY <1>1, <1>4
  <2>2. DOMAIN s = 1..Len(s) /\ Len(s) \in Nat
    BY <2>1, LenProperties
  <2>3. QED
    BY <1>1, <2>1, <2>2
<1> HIDE DEF s
<1>6. /\ r \in Seq(WordType) /\ Len(r) = Len(words) + 1
      /\ \A i \in 1..Len(words) : r[i] = [words[i] EXCEPT !.of = n]
      /\ r[Len(words) + 1] = NewLine
      /\ DOMAIN r = 1..(Len(words) + 1)
  <2>1. /\ r \in Seq(WordType) /\ Len(r) = Len(s) + 1
        /\ \A i \in 1..(Len(s) + 1) :
             r[i] = IF i <= Len(s) THEN s[i] ELSE <<NewLine>>[i - Len(s)]
    BY <1>3, <1>5, ConcatProperties
  <2>2. DOMAIN r = 1..Len(r)
    BY <2>1, LenProperties
  <2> HIDE DEF r
  <2>3. QED
    BY <1>1, <1>3, <1>5, <2>1, <2>2
<1> HIDE DEF r
<1>7. Ends(r)
  <2>1. r # <<>>
    BY <1>1, <1>6
  <2>2. \A i \in 1..(Len(r) - 1) : i \in 1..Len(words) /\ r[i].word = words[i].word
    <3>1. Len(r) - 1 = Len(words)
      BY <1>1, <1>6
    <3>2. ASSUME NEW i \in 1..Len(words) PROVE r[i].word = words[i].word
      <4>1. r[i] = [words[i] EXCEPT !.of = n] /\ words[i] \in WordType
        BY <1>1, <1>6
      <4>2. QED
        BY <1>4, <4>1
    <3>3. QED
      BY <3>1, <3>2
  <2>3. QED
    BY <1>1, <1>2, <1>6, <2>1, <2>2 DEF Ends, Clean
<1>8. OfCommand(r, n)
  <2>1. \A i \in DOMAIN r : i \in 1..Len(words) \/ i = Len(words) + 1
    BY <1>1, <1>6
  <2>2. ASSUME NEW i \in 1..Len(words) PROVE r[i].of = n
    <3>1. r[i] = [words[i] EXCEPT !.of = n] /\ words[i] \in WordType
      BY <1>1, <1>6
    <3>2. QED
      BY <1>4, <3>1
  <2>3. QED
    BY <1>2, <1>6, <2>1, <2>2 DEF OfCommand
<1>9. ASSUME NEW w \in WordType, words = <<w>> PROVE r = <<[w EXCEPT !.of = n], NewLine>>
  <2>1. Len(words) = 1 /\ words[1] = w
    BY <1>9
  <2> DEFINE t == <<[w EXCEPT !.of = n], NewLine>>
  <2>2. t \in Seq(WordType) /\ Len(t) = 2 /\ t[1] = [w EXCEPT !.of = n] /\ t[2] = NewLine
    BY <1>2, <1>4
  <2> HIDE DEF t
  <2>3. Len(r) = 2 /\ r[1] = t[1] /\ r[2] = t[2]
    BY <1>6, <2>1, <2>2
  <2>4. \A i \in 1..Len(r) : r[i] = t[i]
    BY <2>3
  <2>5. QED
    BY <1>6, <2>2, <2>3, <2>4, SeqEqual DEF t
<1>10. QED
  BY <1>6, <1>7, <1>8, <1>9 DEF r, s, Marked

-----------------------------------------------------------------------------
(* Commands. *)

LEMMA CommandIs ==
  ASSUME NEW verb \in Verbs, NEW path \in Clients, NEW off \in Nat, NEW data \in Seq(STRING)
  PROVE  LET cmd == build_cmd(verb, path, off, data)
         IN  /\ cmd \in CommandType /\ cmd # NoCommand
             /\ cmd.verb = verb /\ cmd.path = path
             /\ Len(data) <= CommandRoom(verb) => cmd.data = data
<1> DEFINE room == CommandRoom(verb)
           part == SubSeq(data, 1, Min({Len(data), room}))
<1>1. Len(data) \in Nat
  BY LenProperties
<1>2. room \in Int
  <2>1. \A a \in Int : a \div 2 \in Int
    OBVIOUS
  <2>2. LINK_CMD_MAX - 1 - (5 + PathLen + (IF verb = "WRITE" THEN 5 ELSE 6)) \in Int
    BY DiskAssumption
  <2>3. QED
    BY <2>1, <2>2 DEF CommandRoom
<1> HIDE DEF room
<1>3. Min({Len(data), room}) = IF Len(data) <= room THEN Len(data) ELSE room
  BY <1>1, <1>2, MinOfTwo
<1>4. part \in Seq(STRING)
  <2>1. LET m == Min({Len(data), room}) IN m \in Int /\ m <= Len(data)
    BY <1>1, <1>2, <1>3
  <2>2. 1 \in Nat \ {0}
    OBVIOUS
  <2>3. QED
    BY <2>1, <2>2, PartOf
<1>5. Len(data) <= room => part = data
  BY <1>3, SubSeqFull
<1>6. build_cmd(verb, path, off, data) = [verb |-> verb, path |-> path, off |-> off, data |-> part]
  BY DEF build_cmd, room
<1> HIDE DEF part
<1>7. build_cmd(verb, path, off, data) # NoCommand
  BY <1>6 DEF NoCommand, Verbs
<1>8. QED
  BY <1>4, <1>5, <1>6, <1>7 DEF CommandType, room

LEMMA NoCommandIsNone == NoCommand \notin CommandType
BY DEF NoCommand, CommandType, Verbs

LEMMA ChunkIs ==
  ASSUME NEW total \in Nat
  PROVE  /\ Chunk(total) \in Seq(STRING)
         /\ Len(Chunk(total)) \in 0..DISKFS_CHUNK
         /\ total <= Len(Text) =>
              /\ total + Len(Chunk(total)) <= Len(Text)
              /\ total < Len(Text) => Len(Chunk(total)) > 0
              /\ SubSeq(Text, 1, total) \o Chunk(total) = SubSeq(Text, 1, total + Len(Chunk(total)))
              /\ SubSeq(Text, 1, total) \in Seq(STRING)
<1> DEFINE m == Min({total + DISKFS_CHUNK, Len(Text)})
<1>1. Len(Text) \in Nat /\ Text \in Seq(STRING) /\ DISKFS_CHUNK \in Nat \ {0}
  BY LenProperties, DiskAssumption
<1>2. m = IF total + DISKFS_CHUNK <= Len(Text) THEN total + DISKFS_CHUNK ELSE Len(Text)
  BY <1>1, MinOfTwo
<1> HIDE DEF m
<1>3. m \in Nat /\ m <= Len(Text) /\ total + 1 \in Nat \ {0}
  BY <1>1, <1>2
<1>4. Chunk(total) = SubSeq(Text, total + 1, m)
  BY DEF Chunk, m
<1>5. /\ Chunk(total) \in Seq(STRING)
      /\ Len(Chunk(total)) = (IF total + 1 <= m THEN m - (total + 1) + 1 ELSE 0)
  BY <1>1, <1>3, <1>4, PartOf
<1>6. Len(Chunk(total)) = IF total < m THEN m - total ELSE 0
  BY <1>3, <1>5
<1>7. Len(Chunk(total)) \in 0..DISKFS_CHUNK
  BY <1>1, <1>2, <1>3, <1>6
<1>8. ASSUME total <= Len(Text)
      PROVE  /\ total + Len(Chunk(total)) = m
             /\ total < Len(Text) => Len(Chunk(total)) > 0
             /\ SubSeq(Text, 1, total) \o Chunk(total) = SubSeq(Text, 1, m)
             /\ SubSeq(Text, 1, total) \in Seq(STRING)
  <2>1. total <= m
    BY <1>1, <1>2, <1>8
  <2>2. total + Len(Chunk(total)) = m
    BY <1>3, <1>6, <2>1
  <2>3. total < Len(Text) => total < m
    BY <1>1, <1>2
  <2>4. total < Len(Text) => Len(Chunk(total)) > 0
    BY <1>3, <1>6, <2>3
  <2>5. /\ SubSeq(Text, 1, total) \in Seq(STRING) /\ Len(SubSeq(Text, 1, total)) = total
        /\ \A i \in 1..total : SubSeq(Text, 1, total)[i] = Text[i]
    <3>1. /\ SubSeq(Text, 1, total) \in Seq(STRING)
          /\ Len(SubSeq(Text, 1, total)) = (IF 1 <= total THEN total - 1 + 1 ELSE 0)
          /\ \A i \in DOMAIN SubSeq(Text, 1, total) : SubSeq(Text, 1, total)[i] = Text[1 + i - 1]
          /\ DOMAIN SubSeq(Text, 1, total) = 1..(total - 1 + 1)
      BY <1>1, <1>8, PartOf
    <3>2. total - 1 + 1 = total /\ \A i \in 1..total : 1 + i - 1 = i
      OBVIOUS
    <3>3. QED
      BY <3>1, <3>2
  <2>6. /\ SubSeq(Text, 1, m) \in Seq(STRING) /\ Len(SubSeq(Text, 1, m)) = m
        /\ \A i \in 1..m : SubSeq(Text, 1, m)[i] = Text[i]
    <3>1. /\ SubSeq(Text, 1, m) \in Seq(STRING)
          /\ Len(SubSeq(Text, 1, m)) = (IF 1 <= m THEN m - 1 + 1 ELSE 0)
          /\ \A i \in DOMAIN SubSeq(Text, 1, m) : SubSeq(Text, 1, m)[i] = Text[1 + i - 1]
          /\ DOMAIN SubSeq(Text, 1, m) = 1..(m - 1 + 1)
      BY <1>1, <1>3, PartOf
    <3>2. m - 1 + 1 = m /\ \A i \in 1..m : 1 + i - 1 = i
      BY <1>3
    <3>3. QED
      BY <1>3, <3>1, <3>2
  <2>7. \A i \in 1..(m - total) : Chunk(total)[i] = Text[total + i]
    <3>1. \A i \in 1..(m - (total + 1) + 1) : SubSeq(Text, total + 1, m)[i] = Text[(total + 1) + i - 1]
      <4>1. /\ \A i \in DOMAIN SubSeq(Text, total + 1, m) :
                 SubSeq(Text, total + 1, m)[i] = Text[(total + 1) + i - 1]
            /\ DOMAIN SubSeq(Text, total + 1, m) = 1..(m - (total + 1) + 1)
        BY <1>1, <1>3, PartOf
      <4>2. QED
        BY <4>1
    <3>2. m - (total + 1) + 1 = m - total /\ \A i \in 1..(m - total) : (total + 1) + i - 1 = total + i
      BY <1>3
    <3>3. QED
      BY <1>4, <3>1, <3>2
  <2> DEFINE a == SubSeq(Text, 1, total)
             b == SubSeq(Text, 1, m)
             d == Chunk(total)
  <2> HIDE DEF a, b, d
  <2>8. /\ a \o d \in Seq(STRING) /\ Len(a \o d) = Len(a) + Len(d)
        /\ \A i \in 1..(Len(a) + Len(d)) : (a \o d)[i] = IF i <= Len(a) THEN a[i] ELSE d[i - Len(a)]
    BY <1>5, <2>5, ConcatProperties DEF a, d
  <2>9. Len(a) = total /\ Len(a) + Len(d) = m
    BY <2>2, <2>5 DEF a, d
  <2>10. \A i \in 1..m : (a \o d)[i] = b[i]
    <3> SUFFICES ASSUME NEW i \in 1..m PROVE (a \o d)[i] = b[i]
      OBVIOUS
    <3>1. CASE i <= total
      <4>1. i \in 1..total
        BY <1>3, <3>1
      <4>2. a[i] = Text[i] /\ b[i] = Text[i]
        BY <2>5, <2>6, <4>1 DEF a, b
      <4>3. QED
        BY <2>8, <2>9, <3>1, <4>2
    <3>2. CASE ~(i <= total)
      <4>1. i - total \in 1..(m - total) /\ total + (i - total) = i
        BY <1>3, <3>2
      <4>2. d[i - total] = Text[i] /\ b[i] = Text[i]
        BY <2>6, <2>7, <4>1 DEF d, b
      <4>3. QED
        BY <2>8, <2>9, <3>2, <4>2
    <3>3. QED
      BY <3>1, <3>2
  <2>11. a \o d = b
    BY <2>6, <2>8, <2>9, <2>10, SeqEqual DEF b
  <2>12. QED
    BY <2>2, <2>4, <2>5, <2>11 DEF a, b, d
<1>9. QED
  BY <1>3, <1>5, <1>7, <1>8

LEMMA FirstCommandIs ==
  ASSUME NEW op \in DiskOps, NEW path \in Clients
  PROVE  LET cmd == FirstCommand(op, path)
         IN  cmd \in CommandType /\ cmd # NoCommand /\ cmd.path = path
<1>1. <<>> \in Seq(STRING) /\ Chunk(0) \in Seq(STRING) /\ 0 \in Nat
  BY ChunkIs
<1>2. \A verb \in Verbs, data \in Seq(STRING) :
        LET cmd == build_cmd(verb, path, 0, data)
        IN  cmd \in CommandType /\ cmd # NoCommand /\ cmd.path = path
  BY <1>1, CommandIs
<1>3. QED
  BY <1>1, <1>2 DEF FirstCommand, DiskOps, Verbs

-----------------------------------------------------------------------------
(* Types are preserved. *)

\* What a call does with an answer: it returns or sends its next command.
AnswerTo(c) ==
  DiskStat(c) \/ DiskLs(c) \/ DiskMkdir(c) \/ DiskRm(c) \/ DiskRead(c) \/ disk_write_chunk(c)

LEMMA AnswerStep ==
  ASSUME DTypes, NEW c \in Clients, AnswerTo(c)
  PROVE  /\ asking[c].at = "answered" /\ job[c].op \in DiskOps /\ job[c].path = c
         /\ \/ \E ret, data : Returns(c, ret, data)
            \/ \E cmd \in CommandType, total \in Nat, data \in Seq(STRING) :
                 cmd # NoCommand /\ cmd.path = c /\ Continues(c, cmd, total, data)
<1> DEFINE Goes ==
      \/ \E ret, data : Returns(c, ret, data)
      \/ \E cmd \in CommandType, total \in Nat, data \in Seq(STRING) :
           cmd # NoCommand /\ cmd.path = c /\ Continues(c, cmd, total, data)
<1>1. job[c] \in JobType /\ (job[c].op # "none" => job[c].path = c)
  BY DEF DTypes, DiskTypes
<1>2. asking[c].at = "answered" /\ job[c].op \in DiskOps
  BY DEF AnswerTo, DiskStat, DiskLs, DiskMkdir, DiskRm, DiskRead, disk_write_chunk, Answered, DiskOps
<1>3. job[c].path = c /\ job[c].data \in Seq(STRING) /\ job[c].total \in Nat
  BY <1>1, <1>2 DEF JobType, DiskOps
<1>4. CASE DiskStat(c)
  <2>1. \/ Returns(c, 1, Head(asking[c].reply).data)
        \/ Returns(c, 2, <<>>) \/ Returns(c, 0, <<>>) \/ Returns(c, DISKFS_ERR, <<>>)
    BY <1>4 DEF DiskStat
  <2>2. QED
    BY <1>2, <1>3, <2>1, Zenon
<1>5. CASE DiskLs(c)
  <2>1. \/ Returns(c, DISKFS_ERR, <<>>) \/ Returns(c, DISKFS_NOENT, <<>>) \/ Returns(c, 2, <<>>)
        \/ Returns(c, Len(asking[c].reply), <<>>)
    BY <1>5 DEF DiskLs
  <2>2. QED
    BY <1>2, <1>3, <2>1, Zenon
<1>6. CASE DiskMkdir(c)
  <2>1. Returns(c, IF Starts(c, "OK") THEN DISKFS_OK ELSE DISKFS_ERR, <<>>)
    BY <1>6 DEF DiskMkdir
  <2>2. QED
    BY <1>2, <1>3, <2>1, Zenon
<1>7. CASE DiskRm(c)
  <2>1. \E ret : Returns(c, ret, <<>>)
    BY <1>7, Zenon DEF DiskRm
  <2>2. QED
    BY <1>2, <1>3, <2>1, Zenon
<1>8. CASE DiskRead(c)
  <2> DEFINE room == BufMax - 1 - Len(job[c].data)
             got == SubSeq(hex_dec(c), 1, Min({Len(hex_dec(c)), room}))
             all == job[c].data \o got
             cmd == build_cmd("READ", job[c].path, Len(all), <<>>)
  <2>1. \/ Returns(c, DISKFS_ERR, <<>>) \/ Returns(c, DISKFS_NOENT, <<>>)
        \/ Returns(c, Len(all), all) \/ Continues(c, cmd, Len(all), all)
    BY <1>8 DEF DiskRead
  <2>2. hex_dec(c) \in Seq(STRING)
    <3>1. asking[c].reply \in Seq(WordType) /\ <<>> \in Seq(STRING)
      BY DEF DTypes, LinkTypes
    <3>2. asking[c].reply # <<>> => Head(asking[c].reply) \in WordType
      BY <3>1, HeadTailProperties
    <3>3. QED
      BY <3>1, <3>2 DEF hex_dec, Starts, WordType
  <2>3. got \in Seq(STRING)
    <3>1. Len(hex_dec(c)) \in Nat /\ room \in Int
      BY <1>3, <2>2, LenProperties, DiskAssumption
    <3>2. LET m == Min({Len(hex_dec(c)), room}) IN m \in Int /\ m <= Len(hex_dec(c))
      <4> HIDE DEF room
      <4>1. QED
        BY <3>1, MinOfTwo
    <3>3. 1 \in Nat \ {0}
      OBVIOUS
    <3>4. QED
      BY <2>2, <3>2, <3>3, PartOf
  <2> HIDE DEF got
  <2>4. all \in Seq(STRING) /\ Len(all) \in Nat
    <3>1. all \in Seq(STRING)
      BY <1>3, <2>3, JoinOf
    <3>2. QED
      BY <3>1, LenProperties
  <2> HIDE DEF all
  <2>5. cmd \in CommandType /\ cmd # NoCommand /\ cmd.path = c
    <3>1. "READ" \in Verbs /\ <<>> \in Seq(STRING)
      BY DEF Verbs
    <3>2. LET d == build_cmd("READ", c, Len(all), <<>>)
          IN  d \in CommandType /\ d # NoCommand /\ d.path = c
      <4>1. \A verb \in Verbs, off \in Nat, data \in Seq(STRING) :
              LET d == build_cmd(verb, c, off, data)
              IN  d \in CommandType /\ d # NoCommand /\ d.path = c
        BY CommandIs
      <4>2. QED
        BY <2>4, <3>1, <4>1
    <3>3. QED
      BY <1>3, <3>2
  <2> HIDE DEF cmd
  <2>6. Goes
    BY <2>1, <2>4, <2>5, Zenon
  <2>7. QED
    BY <1>2, <1>3, <2>6, Zenon
<1>9. CASE disk_write_chunk(c)
  <2> DEFINE first == job[c].op = "DiskWrite" /\ job[c].data = <<>>
             total == IF first THEN 0 ELSE job[c].total + Len(Chunk(job[c].total))
             verb == IF first THEN "WRITE" ELSE "APPEND"
             cmd == build_cmd(verb, job[c].path, 0, Chunk(total))
  <2>1. \/ Returns(c, DISKFS_ERR, <<>>) \/ Returns(c, total, <<>>)
        \/ Continues(c, cmd, total, Text)
    BY <1>9 DEF disk_write_chunk
  <2>2. total \in Nat
    <3>1. Len(Chunk(job[c].total)) \in Nat
      BY <1>3, ChunkIs, LenProperties
    <3>2. QED
      BY <1>3, <3>1
  <2> HIDE DEF total
  <2>3. cmd \in CommandType /\ cmd # NoCommand /\ cmd.path = c
    <3>1. verb \in Verbs /\ Chunk(total) \in Seq(STRING) /\ 0 \in Nat
      BY <2>2, ChunkIs DEF Verbs
    <3> HIDE DEF verb
    <3>2. QED
      BY <1>3, <3>1, CommandIs
  <2> HIDE DEF cmd
  <2>4. Goes
    BY <2>1, <2>2, <2>3, DiskAssumption, Zenon
  <2>5. QED
    BY <1>2, <1>3, <2>4, Zenon
<1>10. QED
  BY <1>2, <1>3, <1>4, <1>5, <1>6, <1>7, <1>8, <1>9 DEF AnswerTo

\* Everything but the link and its server.
diskOwn == <<disk, job>>

LEMMA TypesInit == DInit => DTypes
<1> SUFFICES ASSUME DInit PROVE DTypes
  OBVIOUS
<1> USE DEF DInit, LInit
<1>1. <<>> \in Seq(WordType) /\ <<>> \in Seq(MessageType) /\ <<>> \in Seq(SentType) /\ <<>> \in Seq(STRING)
  OBVIOUS
<1>2. LinkTypes
  BY <1>1 DEF LinkTypes, NoTask
<1>3. FirstDisk \subseteq AtPath
  BY DiskAssumption DEF AtPath
<1>4. DiskTypes
  <2>1. disk \in [Clients -> AtPath]
    BY <1>3
  <2>2. NoJob \in JobType /\ NoJob.op = "none"
    BY <1>1 DEF NoJob, JobType, Absent, AtPath
  <2>3. QED
    BY <2>1, <2>2 DEF DiskTypes
<1>5. OneRx(linbox) /\ NotifierWaits /\ SendsCommands
  BY DEF OneRx, NotifierWaits, SendsCommands
<1>6. \A c \in Clients : NamesAreWords(disk[c])
  BY DiskAssumption DEF NamesAreWords
<1>7. QED
  BY <1>2, <1>4, <1>5, <1>6 DEF DTypes

\* The mailbox after a message joined it, or left it.
LEMMA MailboxGrows ==
  ASSUME DTypes, NEW m \in MessageType, linbox' = Append(linbox, m), linkUp' = linkUp
  PROVE  /\ linbox' \in Seq(MessageType)
         /\ m.type = "SEND" /\ m.from \in Clients /\ m.cmd \in CommandType /\ lnotif' = lnotif /\ linkUp =>
              (OneRx(linbox) /\ NotifierWaits /\ SendsCommands)'
         /\ m.type = "RX" /\ lnotif = "drains" /\ lnotif' = "sends" =>
              (OneRx(linbox) /\ NotifierWaits /\ SendsCommands)' /\ NoRx(linbox)
<1>1. linbox \in Seq(MessageType) /\ OneRx(linbox)
  BY DEF DTypes, LinkTypes
<1>2. /\ linbox' \in Seq(MessageType) /\ Len(linbox) \in Nat
      /\ DOMAIN linbox = 1..Len(linbox) /\ DOMAIN linbox' = 1..(Len(linbox) + 1)
      /\ \A i \in DOMAIN linbox : linbox'[i] = linbox[i]
      /\ linbox'[Len(linbox) + 1] = m
      /\ \A i \in DOMAIN linbox' : i \in DOMAIN linbox \/ i = Len(linbox) + 1
  BY <1>1, AppendFacts
<1>3. ASSUME m.type = "SEND", m.from \in Clients, m.cmd \in CommandType, lnotif' = lnotif, linkUp
      PROVE  (OneRx(linbox) /\ NotifierWaits /\ SendsCommands)'
  <2>1. OneRx(linbox')
    BY <1>1, <1>3, RxJoins
  <2>2. NotifierWaits' /\ SendsCommands'
    BY <1>2, <1>3 DEF DTypes, NotifierWaits, SendsCommands
  <2>3. QED
    BY <2>1, <2>2
<1>4. ASSUME m.type = "RX", lnotif = "drains", lnotif' = "sends"
      PROVE  (OneRx(linbox) /\ NotifierWaits /\ SendsCommands)' /\ NoRx(linbox)
  <2>1. NoRx(linbox)
    BY <1>4 DEF DTypes, NotifierWaits, NoRx
  <2>2. OneRx(linbox')
    BY <1>1, <1>4, <2>1, RxJoins
  <2>3. NotifierWaits' /\ SendsCommands'
    BY <1>2, <1>4 DEF DTypes, NotifierWaits, SendsCommands
  <2>4. QED
    BY <2>1, <2>2, <2>3
<1>5. QED
  BY <1>2, <1>3, <1>4

LEMMA MailboxShrinks ==
  ASSUME DTypes, linbox # <<>>, linbox' = Tail(linbox), linkUp' = linkUp
  PROVE  /\ linbox' \in Seq(MessageType)
         /\ Head(linbox) \in MessageType
         /\ Head(linbox).type = "SEND" => Head(linbox).from \in Clients /\ Head(linbox).cmd \in CommandType
         /\ lnotif' = lnotif \/ Head(linbox).type = "RX" =>
              (OneRx(linbox) /\ NotifierWaits /\ SendsCommands)'
<1>1. linbox \in Seq(MessageType) /\ OneRx(linbox)
  BY DEF DTypes, LinkTypes
<1>2. /\ linbox' \in Seq(MessageType) /\ Head(linbox) \in MessageType
      /\ 1 \in DOMAIN linbox /\ Head(linbox) = linbox[1]
      /\ \A i \in DOMAIN linbox' : i + 1 \in DOMAIN linbox /\ linbox'[i] = linbox[i + 1]
  BY <1>1, TailFacts
<1>3. OneRx(linbox')
  BY <1>1, RxLeaves
<1>4. Head(linbox).type = "RX" => NoRx(linbox')
  BY <1>1, RxLeaves
<1>5. lnotif' = lnotif \/ Head(linbox).type = "RX" => NotifierWaits'
  BY <1>2, <1>4 DEF DTypes, NotifierWaits, NoRx
<1>6. SendsCommands'
  BY <1>2 DEF DTypes, SendsCommands
<1>7. QED
  BY <1>2, <1>3, <1>5, <1>6 DEF DTypes, SendsCommands

LEMMA MessageTyped ==
  /\ \A from \in Clients, cmd \in CommandType : LinkMsg("SEND", from, <<>>, cmd) \in MessageType
  /\ \A words \in Seq(WordType) : LinkMsg("RX", "notifier", words, NoCommand) \in MessageType
BY DEF LinkMsg, MessageType

LEMMA ReplyTyped ==
  ASSUME DTypes, NEW c \in Clients, NEW words \in Seq(WordType)
  PROVE  LinkReply(c, words) \in [Clients -> [at : {"runs", "sends", "answered"}, reply : Seq(WordType)]]
BY DEF DTypes, LinkTypes, LinkReply

LEMMA SaysTyped ==
  \A w \in {"(no link)", "(busy)", "(no response)"} : Says(w) \in Seq(WordType)
<1>1. \A w \in {"(no link)", "(busy)", "(no response)"} : w \in Words
  BY DEF Words
<1>2. <<>> \in Seq(STRING) /\ 0 \in Nat
  OBVIOUS
<1>3. \A w \in Words : <<Word(w, <<>>, 0)>> \in Seq(WordType)
  <2> SUFFICES ASSUME NEW w \in Words PROVE <<Word(w, <<>>, 0)>> \in Seq(WordType)
    OBVIOUS
  <2>1. Word(w, <<>>, 0) \in WordType
    BY <1>2, WordTyped
  <2>2. QED
    BY <2>1
<1>4. QED
  BY <1>1, <1>3 DEF Says

LEMMA ReceivesTypes == DTypes /\ ServerReceives /\ UNCHANGED <<disk, job>> => DTypes'
<1> SUFFICES ASSUME DTypes, ServerReceives, UNCHANGED <<disk, job>> PROVE DTypes'
  OBVIOUS
<1> DEFINE words == Head(linbox).words
           answered == link.client # NoTask /\ LineEnds(words) # {}
           gaveUp == link.client # NoTask /\ ~answered /\ link.deadline = 0
<1>1. /\ linbox # <<>> /\ Head(linbox).type = "RX" /\ linbox' = Tail(linbox)
      /\ link' = [link EXCEPT !.client = IF answered \/ gaveUp THEN NoTask ELSE @,
                              !.line = IF gaveUp THEN <<>> ELSE LineAfter(words)]
      /\ asking' = IF answered THEN LinkReply(link.client, FirstLine(words))
                   ELSE IF gaveUp THEN LinkReply(link.client, Says("(no response)")) ELSE asking
      /\ lnotif' \in {"drains", "delays"}
      /\ UNCHANGED <<linkUp, rxFifo, commands, answering>>
  BY DEF ServerReceives, container
<1>2. /\ linbox' \in Seq(MessageType) /\ Head(linbox) \in MessageType
      /\ (OneRx(linbox) /\ NotifierWaits /\ SendsCommands)'
  BY <1>1, MailboxShrinks
<1>3. words \in Seq(WordType) /\ link.line \in Seq(WordType)
  BY <1>2 DEF MessageType, DTypes, LinkTypes
<1> HIDE DEF words
<1>4. LineAfter(words) \in Seq(WordType) /\ (answered => FirstLine(words) \in Seq(WordType))
  BY <1>3, LineReceived
<1>5. asking' \in [Clients -> [at : {"runs", "sends", "answered"}, reply : Seq(WordType)]]
  <2>1. link.client # NoTask => link.client \in Clients
    BY DEF DTypes, LinkTypes
  <2>2. Says("(no response)") \in Seq(WordType)
    BY SaysTyped
  <2>3. answered => LinkReply(link.client, FirstLine(words)) \in
                      [Clients -> [at : {"runs", "sends", "answered"}, reply : Seq(WordType)]]
    BY <1>4, <2>1, ReplyTyped
  <2>4. gaveUp => LinkReply(link.client, Says("(no response)")) \in
                      [Clients -> [at : {"runs", "sends", "answered"}, reply : Seq(WordType)]]
    BY <2>1, <2>2, ReplyTyped
  <2>5. QED
    BY <1>1, <2>3, <2>4 DEF DTypes, LinkTypes
<1> HIDE DEF answered, gaveUp
<1>6. link' \in [client : Clients \cup {NoTask}, deadline : Nat, line : Seq(WordType), sent : Nat]
  <2>1. <<>> \in Seq(WordType)
    OBVIOUS
  <2>2. QED
    BY <1>1, <1>4, <2>1 DEF DTypes, LinkTypes
<1>7. LinkTypes'
  BY <1>1, <1>2, <1>5, <1>6 DEF DTypes, LinkTypes
<1>8. QED
  BY <1>2, <1>7 DEF DTypes, DiskTypes

LEMMA SendsTypes == DTypes /\ ServerSends /\ UNCHANGED <<disk, job>> => DTypes'
<1> SUFFICES ASSUME DTypes, ServerSends, UNCHANGED <<disk, job>> PROVE DTypes'
  OBVIOUS
<1> DEFINE m == Head(linbox)
<1>1. /\ linbox # <<>> /\ m.type = "SEND" /\ linbox' = Tail(linbox)
      /\ UNCHANGED <<linkUp, lnotif, rxFifo, answering>>
  BY DEF ServerSends
<1>2. /\ linbox' \in Seq(MessageType) /\ m \in MessageType
      /\ m.from \in Clients /\ m.cmd \in CommandType
      /\ (OneRx(linbox) /\ NotifierWaits /\ SendsCommands)'
  BY <1>1, MailboxShrinks
<1>3. LinkTypes'
  <2>1. CASE link.client # NoTask
    <3>1. UNCHANGED <<link, commands>> /\ asking' = LinkReply(m.from, Says("(busy)"))
      BY <2>1 DEF ServerSends
    <3>2. asking' \in [Clients -> [at : {"runs", "sends", "answered"}, reply : Seq(WordType)]]
      BY <1>2, <3>1, SaysTyped, ReplyTyped
    <3>3. QED
      BY <1>1, <1>2, <3>1, <3>2 DEF DTypes, LinkTypes
  <2>2. CASE link.client = NoTask
    <3>1. /\ link' = [client |-> m.from, deadline |-> LINK_TIMEOUT_TICKS,
                      line |-> <<>>, sent |-> link.sent + 1]
          /\ commands' = Append(commands, [cmd |-> m.cmd, of |-> link.sent + 1])
          /\ UNCHANGED asking
      BY <2>2 DEF ServerSends
    <3>2. link.sent + 1 \in Nat /\ <<>> \in Seq(WordType) /\ LINK_TIMEOUT_TICKS \in Nat
      BY LinkAssumption DEF DTypes, LinkTypes
    <3> HIDE DEF m
    <3>3. link' \in [client : Clients \cup {NoTask}, deadline : Nat, line : Seq(WordType), sent : Nat]
      BY <1>2, <3>1, <3>2
    <3>4. commands' \in Seq(SentType)
      <4>1. [cmd |-> m.cmd, of |-> link.sent + 1] \in SentType
        BY <1>2, <3>2 DEF SentType
      <4>2. QED
        BY <3>1, <4>1, AppendProperties DEF DTypes, LinkTypes
    <3>5. QED
      BY <1>1, <1>2, <3>1, <3>3, <3>4 DEF DTypes, LinkTypes
  <2>3. QED
    BY <2>1, <2>2
<1>4. QED
  BY <1>2, <1>3 DEF DTypes, DiskTypes

LEMMA DrainsTypes == DTypes /\ NotifierDrains /\ UNCHANGED <<disk, job>> => DTypes'
<1> SUFFICES ASSUME DTypes, NotifierDrains, UNCHANGED <<disk, job>> PROVE DTypes'
  OBVIOUS
<1> DEFINE m == LinkMsg("RX", "notifier", rxFifo, NoCommand)
<1>1. /\ lnotif = "drains" /\ lnotif' = "sends" /\ linbox' = Append(linbox, m) /\ rxFifo' = <<>>
      /\ UNCHANGED <<linkUp, link, commands, answering, asking, late>>
  BY DEF NotifierDrains
<1>2. m \in MessageType /\ m.type = "RX"
  BY MessageTyped DEF DTypes, LinkTypes, LinkMsg
<1> HIDE DEF m
<1>3. linbox' \in Seq(MessageType) /\ (OneRx(linbox) /\ NotifierWaits /\ SendsCommands)'
  BY <1>1, <1>2, MailboxGrows
<1>4. <<>> \in Seq(WordType)
  OBVIOUS
<1>5. LinkTypes'
  BY <1>1, <1>3, <1>4 DEF DTypes, LinkTypes
<1>6. QED
  BY <1>3, <1>5 DEF DTypes, DiskTypes

LEMMA ArrivesTypes == DTypes /\ LineArrives /\ UNCHANGED <<disk, job>> => DTypes'
<1> SUFFICES ASSUME DTypes, LineArrives, UNCHANGED <<disk, job>> PROVE DTypes'
  OBVIOUS
<1>1. answering # <<>> /\ rxFifo \in Seq(WordType) /\ answering \in Seq(WordType)
  BY DEF LineArrives, DTypes, LinkTypes
<1>2. rxFifo' \in Seq(WordType) /\ answering' \in Seq(WordType)
  BY <1>1, LineMoves DEF LineArrives
<1>3. UNCHANGED <<linkUp, link, linbox, lnotif, commands, asking, late>>
  BY DEF LineArrives
<1>4. LinkTypes'
  BY <1>2, <1>3 DEF DTypes, LinkTypes
<1>5. QED
  BY <1>3, <1>4 DEF DTypes, DiskTypes, NotifierWaits, SendsCommands

LEMMA AnswersTypes ==
  ASSUME DTypes, NEW words \in Seq(WordType), Clean(words), ContainerAnswers(words)
  PROVE  /\ LinkTypes' /\ UNCHANGED <<linkUp, link, linbox, lnotif, rxFifo, asking, late>>
         /\ commands # <<>> /\ Head(commands) \in SentType /\ Head(commands).of \in Nat
         /\ Head(commands).cmd \in CommandType
         /\ answering' = Marked(words, Head(commands).of)
<1>1. /\ commands # <<>> /\ commands' = Tail(commands)
      /\ UNCHANGED <<linkUp, link, linbox, lnotif, rxFifo, asking, late>>
      /\ answering' = Marked(words, Head(commands).of)
  BY DEF ContainerAnswers, Marked
<1>2. Head(commands) \in SentType /\ Tail(commands) \in Seq(SentType)
  BY <1>1, HeadTailProperties DEF DTypes, LinkTypes
<1>3. Head(commands).of \in Nat /\ Head(commands).cmd \in CommandType
  BY <1>2 DEF SentType
<1>4. answering' \in Seq(WordType)
  BY <1>1, <1>3, LineStarts
<1>5. LinkTypes'
  BY <1>1, <1>2, <1>4 DEF DTypes, LinkTypes
<1>6. QED
  BY <1>1, <1>2, <1>3, <1>5

LEMMA ContainerTypes == DTypes /\ Container => DTypes'
<1> SUFFICES ASSUME DTypes, Container PROVE DTypes'
  OBVIOUS
<1>1. CASE ContainerServes
  <2> DEFINE cmd == Head(commands).cmd
             done == Outcome(cmd, disk[cmd.path])
  <2>1. /\ commands # <<>> /\ ContainerAnswers(done.line)
        /\ disk' = [disk EXCEPT ![cmd.path] = done.at] /\ UNCHANGED job
    BY <1>1 DEF ContainerServes
  <2>2. cmd \in CommandType
    <3>1. Head(commands) \in SentType
      BY <2>1, HeadTailProperties DEF DTypes, LinkTypes
    <3>2. QED
      BY <3>1 DEF SentType
  <2>3. cmd.path \in Clients
    BY <2>2 DEF CommandType
  <2>4. disk[cmd.path] \in AtPath /\ NamesAreWords(disk[cmd.path])
    BY <2>3 DEF DTypes, DiskTypes
  <2>5. /\ done.line \in Seq(WordType) /\ Clean(done.line)
        /\ done.at \in AtPath /\ NamesAreWords(done.at)
    BY <2>2, <2>4, OutcomeIs
  <2> HIDE DEF done, cmd
  <2>6. LinkTypes' /\ UNCHANGED <<linkUp, linbox, lnotif>>
    BY <2>1, <2>5, AnswersTypes
  <2>7. DiskTypes' /\ \A c \in Clients : NamesAreWords(disk[c])'
    BY <2>1, <2>3, <2>5 DEF DTypes, DiskTypes
  <2>8. QED
    BY <2>6, <2>7 DEF DTypes, NotifierWaits, SendsCommands
<1>2. CASE ContainerRefuses
  <2>1. ContainerAnswers(Line("ERR")) /\ UNCHANGED <<disk, job>>
    BY <1>2 DEF ContainerRefuses
  <2>2. Line("ERR") \in Seq(WordType) /\ Clean(Line("ERR"))
    <3>1. Word("ERR", <<>>, 0) \in WordType /\ Word("ERR", <<>>, 0).word = "ERR"
      <4>1. "ERR" \in Words /\ <<>> \in Seq(STRING) /\ 0 \in Nat
        BY DEF Words
      <4>2. QED
        BY <4>1, WordTyped
    <3>2. QED
      BY <3>1, OneWordLine DEF Line
  <2>3. LinkTypes' /\ UNCHANGED <<linkUp, linbox, lnotif>>
    BY <2>1, <2>2, AnswersTypes
  <2>4. QED
    BY <2>1, <2>3 DEF DTypes, DiskTypes, NotifierWaits, SendsCommands
<1>3. QED
  BY <1>1, <1>2 DEF Container

LEMMA BeginsTypes ==
  ASSUME DTypes, NEW c \in Clients, Call(c)
  PROVE  DTypes'
<1>1. PICK op \in Calls[c] : Begins(c, op, c)
  BY DEF Call
<1>2. op \in DiskOps
  BY DiskAssumption
<1>3. FirstCommand(op, c) \in CommandType
  BY <1>2, FirstCommandIs
<1> DEFINE j == [NoJob EXCEPT !.op = op, !.path = c, !.sends = FirstCommand(op, c), !.old = disk[c]]
<1>4. job' = [job EXCEPT ![c] = j] /\ UNCHANGED <<linkVars, disk>>
  BY <1>1 DEF Begins
<1>5. disk[c] \in AtPath /\ <<>> \in Seq(STRING)
  BY DEF DTypes, DiskTypes
<1>6. j \in JobType /\ j.path = c
  BY <1>2, <1>3, <1>5 DEF NoJob, JobType
<1> HIDE DEF j
<1>7. DiskTypes'
  BY <1>4, <1>6 DEF DTypes, DiskTypes
<1>8. LinkTypes'
  BY <1>4 DEF DTypes, LinkTypes, linkVars
<1>9. QED
  BY <1>4, <1>7, <1>8 DEF DTypes, NotifierWaits, SendsCommands, linkVars

LEMMA ClientSendsTypes ==
  ASSUME DTypes, NEW c \in Clients, Sends(c)
  PROVE  DTypes'
<1>1. job[c] \in JobType /\ job[c].sends # NoCommand
  BY DEF DTypes, DiskTypes, Sends
<1>2. job[c].sends \in CommandType
  BY <1>1 DEF JobType
<1>3. /\ job' = [job EXCEPT ![c].sends = NoCommand]
      /\ UNCHANGED <<disk, linkUp, link, lnotif, rxFifo, commands, answering, late>>
  BY DEF Sends, LinkSend, container
<1>4. DiskTypes'
  BY <1>1, <1>3 DEF DTypes, DiskTypes, JobType
<1>5. CASE ~linkUp
  <2>1. asking' = LinkReply(c, Says("(no link)")) /\ UNCHANGED linbox
    BY <1>5 DEF Sends, LinkSend
  <2>2. asking' \in [Clients -> [at : {"runs", "sends", "answered"}, reply : Seq(WordType)]]
    BY <2>1, SaysTyped, ReplyTyped
  <2>3. LinkTypes'
    BY <1>3, <2>1, <2>2 DEF DTypes, LinkTypes
  <2>4. QED
    BY <1>3, <1>4, <2>1, <2>3 DEF DTypes, NotifierWaits, SendsCommands
<1>6. CASE linkUp
  <2> DEFINE m == LinkMsg("SEND", c, <<>>, job[c].sends)
  <2>1. /\ asking' = [asking EXCEPT ![c] = [at |-> "sends", reply |-> <<>>]]
        /\ linbox' = Append(linbox, m)
    BY <1>6 DEF Sends, LinkSend
  <2>2. m \in MessageType /\ m.type = "SEND" /\ m.from = c /\ m.cmd = job[c].sends
    BY <1>2, MessageTyped DEF LinkMsg
  <2> HIDE DEF m
  <2>3. linbox' \in Seq(MessageType) /\ (OneRx(linbox) /\ NotifierWaits /\ SendsCommands)'
    BY <1>2, <1>3, <1>6, <2>1, <2>2, MailboxGrows
  <2>4. <<>> \in Seq(WordType)
    OBVIOUS
  <2>5. LinkTypes'
    BY <1>3, <2>1, <2>3, <2>4 DEF DTypes, LinkTypes
  <2>6. QED
    BY <1>3, <1>4, <2>3, <2>5 DEF DTypes
<1>7. QED
  BY <1>5, <1>6

LEMMA AnswerTypes ==
  ASSUME DTypes, NEW c \in Clients, AnswerTo(c)
  PROVE  DTypes'
<1>1. /\ job[c] \in JobType /\ job[c].path = c /\ <<>> \in Seq(WordType) /\ <<>> \in Seq(STRING)
  BY AnswerStep DEF DTypes, DiskTypes
<1>2. /\ UNCHANGED <<linkUp, link, linbox, lnotif, rxFifo, late, commands, answering, disk>>
      /\ asking' = Resumes(c)
      /\ \/ job' = [job EXCEPT ![c] = NoJob]
         \/ \E cmd \in CommandType, total \in Nat, data \in Seq(STRING) :
              job' = [job EXCEPT ![c] = [@ EXCEPT !.sends = cmd, !.total = total, !.data = data]]
  <2>1. CASE \E ret, data : Returns(c, ret, data)
    BY <2>1 DEF Returns, linkRest
  <2>2. CASE \E cmd \in CommandType, total \in Nat, data \in Seq(STRING) : Continues(c, cmd, total, data)
    BY <2>2 DEF Continues, linkRest
  <2>3. QED
    BY <2>1, <2>2, AnswerStep
<1>3. LinkTypes'
  <2>1. asking' \in [Clients -> [at : {"runs", "sends", "answered"}, reply : Seq(WordType)]]
    BY <1>1, <1>2 DEF DTypes, LinkTypes, Resumes
  <2>2. QED
    BY <1>2, <2>1 DEF DTypes, LinkTypes
<1>4. DiskTypes'
  <2>1. CASE job' = [job EXCEPT ![c] = NoJob]
    <3>1. NoJob \in JobType /\ NoJob.op = "none"
      BY <1>1 DEF NoJob, JobType, Absent, AtPath
    <3>2. QED
      BY <1>2, <2>1, <3>1 DEF DTypes, DiskTypes
  <2>2. ASSUME NEW cmd \in CommandType, NEW total \in Nat, NEW data \in Seq(STRING),
               job' = [job EXCEPT ![c] = [@ EXCEPT !.sends = cmd, !.total = total, !.data = data]]
        PROVE  DiskTypes'
    <3> DEFINE j == [job[c] EXCEPT !.sends = cmd, !.total = total, !.data = data]
    <3>1. j \in JobType /\ j.path = c
      BY <1>1 DEF JobType
    <3>2. job' = [job EXCEPT ![c] = j]
      BY <2>2
    <3> HIDE DEF j
    <3>3. QED
      BY <1>2, <3>1, <3>2 DEF DTypes, DiskTypes
  <2>3. QED
    BY <1>2, <2>1, <2>2
<1>5. QED
  BY <1>2, <1>3, <1>4 DEF DTypes, NotifierWaits, SendsCommands

\* Every step of the system is one of these.
LEMMA TypesStep == DTypes /\ [DNext]_diskVars => DTypes'
<1> SUFFICES ASSUME DTypes, [DNext]_diskVars PROVE DTypes'
  OBVIOUS
<1>1. CASE UNCHANGED diskVars
  BY <1>1 DEF diskVars, linkVars, DTypes, LinkTypes, DiskTypes, NotifierWaits, SendsCommands
<1>2. ASSUME Link PROVE DTypes'
  <2>1. UNCHANGED <<disk, job>>
    BY <1>2 DEF Link
  <2>2. CASE ServerStarts
    BY <2>1, <2>2 DEF ServerStarts, DTypes, LinkTypes, DiskTypes, NotifierWaits, SendsCommands, container
  <2>3. CASE ServerReceives
    BY <2>1, <2>3, ReceivesTypes
  <2>4. CASE ServerSends
    BY <2>1, <2>4, SendsTypes
  <2>5. CASE NotifierDrains
    BY <2>1, <2>5, DrainsTypes
  <2>6. CASE LinkTick
    <3>1. link' \in [client : Clients \cup {NoTask}, deadline : Nat, line : Seq(WordType), sent : Nat]
      <4>1. (IF link.deadline = 0 THEN 0 ELSE link.deadline - 1) \in Nat
        BY DEF DTypes, LinkTypes
      <4>2. link' = [link EXCEPT !.deadline = IF link.deadline = 0 THEN 0 ELSE link.deadline - 1]
        BY <2>6 DEF LinkTick
      <4>3. QED
        BY <4>1, <4>2 DEF DTypes, LinkTypes
    <3>2. QED
      BY <2>1, <2>6, <3>1 DEF LinkTick, DTypes, LinkTypes, DiskTypes, NotifierWaits, SendsCommands, container
  <2>7. CASE LineArrives
    BY <2>1, <2>7, ArrivesTypes
  <2>8. QED
    BY <1>2, <2>2, <2>3, <2>4, <2>5, <2>6, <2>7 DEF Link, LinkStep, LinkServerStep
<1>3. CASE Container
  BY <1>3, ContainerTypes
<1>4. ASSUME NEW c \in Clients, Call(c) \/ GoesOn(c) PROVE DTypes'
  BY <1>4, BeginsTypes, ClientSendsTypes, AnswerTypes DEF GoesOn, AnswerTo
<1>5. QED
  BY <1>1, <1>2, <1>3, <1>4 DEF DNext

-----------------------------------------------------------------------------
(* One line at most is on its way, and it answers the command under way. *)

OwnLine == late = {} => OnWay

\* Steps that leave the line where it is.
LEMMA WayKept ==
  ASSUME OwnLine, late' = late, UNCHANGED <<commands, rxFifo, answering>>, Waiting' = Waiting,
         link'.client = link.client, link'.line = link.line, link'.sent = link.sent
  PROVE  OwnLine'
BY DEF OwnLine, OnWay

LEMMA NothingSaid ==
  Clean(<<>>) /\ ~Ends(<<>>) /\ \A n : OfCommand(<<>>, n)
BY DEF Clean, Ends, OfCommand

LEMMA ReceivesWay == DTypes /\ OwnLine /\ ServerReceives => OwnLine'
<1> SUFFICES ASSUME DTypes, OwnLine, ServerReceives, late' = {} PROVE OnWay'
  BY DEF OwnLine
<1> DEFINE words == Head(linbox).words
           answered == link.client # NoTask /\ LineEnds(words) # {}
           gaveUp == link.client # NoTask /\ ~answered /\ link.deadline = 0
<1>1. /\ linbox # <<>> /\ Head(linbox).type = "RX" /\ linbox' = Tail(linbox)
      /\ link' = [link EXCEPT !.client = IF answered \/ gaveUp THEN NoTask ELSE @,
                              !.line = IF gaveUp THEN <<>> ELSE LineAfter(words)]
      /\ late' = IF gaveUp THEN late \cup {link.sent} ELSE late
      /\ UNCHANGED <<linkUp, rxFifo, commands, answering>>
  BY DEF ServerReceives, container
<1>2. ~gaveUp /\ late = {}
  BY <1>1
<1>3. linbox \in Seq(MessageType) /\ OneRx(linbox) /\ Head(linbox) \in MessageType
  BY <1>1, HeadTailProperties DEF DTypes, LinkTypes
<1>4. Waiting = words /\ Waiting' = <<>>
  BY <1>1, <1>3, RxLeaves DEF Waiting
<1>5. words \in Seq(WordType) /\ link.line \in Seq(WordType)
  BY <1>3 DEF MessageType, DTypes, LinkTypes
<1> HIDE DEF words
<1>6. OnWay
  BY <1>2 DEF OwnLine
<1>7. CASE link.client = NoTask
  BY <1>1, <1>2, <1>4, <1>6, <1>7 DEF OnWay, DTypes, LinkTypes
<1>8. CASE link.client # NoTask
  <2>1. link' = [link EXCEPT !.client = IF answered THEN NoTask ELSE @, !.line = LineAfter(words)]
    BY <1>1, <1>2
  <2>2. /\ link'.client = IF answered THEN NoTask ELSE link.client
        /\ link'.line = LineAfter(words) /\ link'.sent = link.sent
    BY <2>1 DEF DTypes, LinkTypes
  <2>3. CASE LineEnds(words) # {}
    <3>1. ~Clean(words)
      BY <1>5, <2>3, LineReceived
    <3>2. rxFifo = <<>> /\ answering = <<>> /\ commands = <<>>
      BY <1>4, <1>6, <1>8, <3>1, NothingSaid DEF OnWay, OneLine
    <3>3. link'.client = NoTask
      BY <1>8, <2>2, <2>3
    <3>4. QED
      BY <1>1, <1>4, <3>2, <3>3 DEF OnWay
  <2>4. CASE LineEnds(words) = {}
    <3>1. link'.client = link.client
      BY <2>2, <2>4
    <3>2. Clean(words) /\ Clean(link.line) /\ \A n : OfCommand(<<>>, n)
      BY <1>5, <1>6, <1>8, <2>4, LineReceived, NothingSaid DEF OnWay
    <3>3. OfCommand(words, link.sent) /\ OfCommand(link.line, link.sent)
          /\ OfCommand(rxFifo, link.sent) /\ OfCommand(answering, link.sent)
      BY <1>4, <1>6, <1>8 DEF OnWay
    <3>4. Clean(LineAfter(words)) /\ OfCommand(LineAfter(words), link.sent)
      BY <1>5, <2>4, <3>2, <3>3, LineReceived
    <3>5. ~Ends(words)
      BY <1>5, <2>4, LineEnded
    <3>6. \/ /\ \E m \in SentType : commands = <<m>> /\ m.of = link.sent
             /\ rxFifo = <<>> /\ answering = <<>>
          \/ commands = <<>> /\ OneLine(<<>>, rxFifo, answering)
      BY <1>4, <1>6, <1>8, <3>5, NothingSaid DEF OnWay, OneLine
    <3>7. \A s \in {link'.line, Waiting', rxFifo', answering'} : OfCommand(s, link'.sent)
      BY <1>1, <1>4, <2>2, <3>2, <3>3, <3>4
    <3>8. \/ /\ \E m \in SentType : commands' = <<m>> /\ m.of = link'.sent
             /\ Waiting' = <<>> /\ rxFifo' = <<>> /\ answering' = <<>>
          \/ commands' = <<>> /\ OneLine(Waiting', rxFifo', answering')
      BY <1>1, <1>4, <2>2, <3>6
    <3>9. Clean(link'.line) /\ link'.client # NoTask
      BY <1>8, <2>2, <3>1, <3>4
    <3>10. QED
      BY <3>7, <3>8, <3>9 DEF OnWay
  <2>5. QED
    BY <2>3, <2>4
<1>9. QED
  BY <1>7, <1>8

LEMMA SendsWay == DTypes /\ OwnLine /\ ServerSends => OwnLine'
<1> SUFFICES ASSUME DTypes, OwnLine, ServerSends, late' = {} PROVE OnWay'
  BY DEF OwnLine
<1> DEFINE m == Head(linbox)
<1>1. /\ linbox # <<>> /\ m.type = "SEND" /\ linbox' = Tail(linbox)
      /\ UNCHANGED <<linkUp, lnotif, rxFifo, answering, late>>
  BY DEF ServerSends
<1>2. linbox \in Seq(MessageType) /\ OneRx(linbox)
  BY DEF DTypes, LinkTypes
<1>3. Waiting' = Waiting
  BY <1>1, <1>2, RxLeaves DEF Waiting
<1>4. OnWay
  BY <1>1 DEF OwnLine
<1>5. CASE link.client # NoTask
  <2>1. UNCHANGED <<link, commands>>
    BY <1>5 DEF ServerSends
  <2>2. OwnLine'
    BY <1>1, <1>3, <2>1, WayKept
  <2>3. QED
    BY <2>2 DEF OwnLine
<1>6. CASE link.client = NoTask
  <2>1. /\ link' = [client |-> m.from, deadline |-> LINK_TIMEOUT_TICKS,
                    line |-> <<>>, sent |-> link.sent + 1]
        /\ commands' = Append(commands, [cmd |-> m.cmd, of |-> link.sent + 1])
    BY <1>6 DEF ServerSends
  <2>2. commands = <<>> /\ Waiting = <<>> /\ rxFifo = <<>> /\ answering = <<>>
    BY <1>4, <1>6 DEF OnWay
  <2>3. [cmd |-> m.cmd, of |-> link.sent + 1] \in SentType
    <3>1. m.cmd \in CommandType
      BY <1>1, MailboxShrinks
    <3>2. link.sent + 1 \in Nat
      BY DEF DTypes, LinkTypes
    <3> HIDE DEF m
    <3>3. QED
      BY <3>1, <3>2 DEF SentType
  <2>4. link'.line = <<>> /\ link'.sent = link.sent + 1
    BY <2>1
  <2>5. \E k \in SentType : commands' = <<k>> /\ k.of = link'.sent
    <3>1. commands' = <<[cmd |-> m.cmd, of |-> link.sent + 1]>>
      BY <2>1, <2>2
    <3> HIDE DEF m
    <3>2. QED
      BY <2>3, <2>4, <3>1
  <2>6. link'.client # NoTask
    <3>1. m.from \in Clients
      BY <1>1, MailboxShrinks
    <3> HIDE DEF m
    <3>2. QED
      BY <2>1, <3>1, LinkAssumption DEF NoTask
  <2>7. QED
    BY <1>1, <1>3, <2>2, <2>4, <2>5, <2>6, NothingSaid DEF OnWay
<1>7. QED
  BY <1>5, <1>6

LEMMA DrainsWay == DTypes /\ OwnLine /\ NotifierDrains => OwnLine'
<1> SUFFICES ASSUME DTypes, OwnLine, NotifierDrains, late' = {} PROVE OnWay'
  BY DEF OwnLine
<1> DEFINE m == LinkMsg("RX", "notifier", rxFifo, NoCommand)
<1>1. /\ lnotif = "drains" /\ lnotif' = "sends" /\ linbox' = Append(linbox, m) /\ rxFifo' = <<>>
      /\ UNCHANGED <<linkUp, link, commands, answering, late>>
  BY DEF NotifierDrains
<1>2. m \in MessageType /\ m.type = "RX" /\ m.words = rxFifo
  BY MessageTyped DEF DTypes, LinkTypes, LinkMsg
<1>3. linbox \in Seq(MessageType) /\ OneRx(linbox) /\ NoRx(linbox)
  BY <1>1 DEF DTypes, LinkTypes, NotifierWaits, NoRx
<1> HIDE DEF m
<1>4. Waiting = <<>> /\ Waiting' = rxFifo
  BY <1>1, <1>2, <1>3, RxIs, RxJoins DEF Waiting
<1>5. OnWay
  BY <1>1 DEF OwnLine
<1>6. QED
  BY <1>1, <1>4, <1>5, NothingSaid DEF OnWay, OneLine

LEMMA ArrivesWay == DTypes /\ OwnLine /\ LineArrives => OwnLine'
<1> SUFFICES ASSUME DTypes, OwnLine, LineArrives, late' = {} PROVE OnWay'
  BY DEF OwnLine
<1>1. answering # <<>> /\ UNCHANGED <<linkUp, link, linbox, lnotif, commands, asking, late>>
  BY DEF LineArrives
<1>2. OnWay /\ Waiting' = Waiting
  BY <1>1 DEF OwnLine, Waiting
<1>3. link.client # NoTask /\ commands = <<>> /\ OneLine(Waiting, rxFifo, answering)
  BY <1>1, <1>2 DEF OnWay
<1>4. Clean(Waiting) /\ Clean(rxFifo) /\ Ends(answering)
  BY <1>1, <1>3 DEF OneLine
<1>5. rxFifo \in Seq(WordType) /\ answering \in Seq(WordType)
  BY DEF DTypes, LinkTypes
<1>6. /\ (Clean(rxFifo') /\ Ends(answering')) \/ (Ends(rxFifo') /\ answering' = <<>>)
      /\ OfCommand(rxFifo', link.sent) /\ OfCommand(answering', link.sent)
  BY <1>1, <1>2, <1>3, <1>4, <1>5, LineMoves DEF LineArrives, OnWay
<1>7. OneLine(Waiting, rxFifo', answering')
  BY <1>4, <1>6 DEF OneLine
<1>8. QED
  BY <1>1, <1>2, <1>3, <1>6, <1>7 DEF OnWay

LEMMA AnswersWay ==
  ASSUME DTypes, OwnLine, NEW words \in Seq(WordType), Clean(words), ContainerAnswers(words)
  PROVE  OwnLine'
<1> SUFFICES ASSUME late' = {} PROVE OnWay'
  BY DEF OwnLine
<1>1. /\ UNCHANGED <<linkUp, link, linbox, lnotif, rxFifo, asking, late>>
      /\ commands # <<>> /\ Head(commands).of \in Nat /\ commands' = Tail(commands)
      /\ answering' = Marked(words, Head(commands).of)
  BY AnswersTypes DEF ContainerAnswers
<1>2. OnWay /\ Waiting' = Waiting
  BY <1>1 DEF OwnLine, Waiting
<1>3. PICK m \in SentType : commands = <<m>> /\ m.of = link.sent
  BY <1>1, <1>2 DEF OnWay
<1>4. commands' = <<>> /\ Head(commands).of = link.sent
  BY <1>1, <1>3
<1>5. Ends(answering') /\ OfCommand(answering', link.sent)
  BY <1>1, <1>4, LineStarts
<1>6. link.client # NoTask /\ Waiting = <<>> /\ rxFifo = <<>>
  BY <1>1, <1>2 DEF OnWay
<1>7. OneLine(Waiting, rxFifo, answering')
  BY <1>5, <1>6, NothingSaid DEF OneLine
<1>8. QED
  BY <1>1, <1>2, <1>4, <1>5, <1>6, <1>7 DEF OnWay

\* The words the container may answer with.
LEMMA ContainerSays ==
  ASSUME DTypes, Container
  PROVE  \E words \in Seq(WordType) : Clean(words) /\ ContainerAnswers(words)
<1>1. CASE ContainerServes
  <2> DEFINE cmd == Head(commands).cmd
             done == Outcome(cmd, disk[cmd.path])
  <2>1. commands # <<>> /\ ContainerAnswers(done.line)
    BY <1>1 DEF ContainerServes
  <2>2. cmd \in CommandType
    <3>1. Head(commands) \in SentType
      BY <2>1, HeadTailProperties DEF DTypes, LinkTypes
    <3>2. QED
      BY <3>1 DEF SentType
  <2>3. disk[cmd.path] \in AtPath /\ NamesAreWords(disk[cmd.path])
    BY <2>2 DEF DTypes, DiskTypes, CommandType
  <2>4. done.line \in Seq(WordType) /\ Clean(done.line)
    BY <2>2, <2>3, OutcomeIs
  <2> HIDE DEF done
  <2>5. QED
    BY <2>1, <2>4
<1>2. CASE ContainerRefuses
  <2>1. ContainerAnswers(Line("ERR"))
    BY <1>2 DEF ContainerRefuses
  <2>2. Line("ERR") \in Seq(WordType) /\ Clean(Line("ERR"))
    <3>1. "ERR" \in Words /\ <<>> \in Seq(STRING) /\ 0 \in Nat
      BY DEF Words
    <3>2. Word("ERR", <<>>, 0) \in WordType /\ Word("ERR", <<>>, 0).word = "ERR"
      BY <3>1, WordTyped
    <3>3. QED
      BY <3>2, OneWordLine DEF Line
  <2>3. QED
    BY <2>1, <2>2
<1>3. QED
  BY <1>1, <1>2 DEF Container

LEMMA ClientSendsWay ==
  ASSUME DTypes, OwnLine, NEW c \in Clients, Sends(c)
  PROVE  OwnLine'
<1>1. UNCHANGED <<link, rxFifo, commands, answering, late>>
  BY DEF Sends, LinkSend, container
<1>2. linbox \in Seq(MessageType) /\ OneRx(linbox)
  BY DEF DTypes, LinkTypes
<1>3. Waiting' = Waiting
  <2>1. CASE ~linkUp
    BY <2>1 DEF Sends, LinkSend, Waiting
  <2>2. CASE linkUp
    <3> DEFINE m == LinkMsg("SEND", c, <<>>, job[c].sends)
    <3>1. linbox' = Append(linbox, m)
      BY <2>2 DEF Sends, LinkSend
    <3>2. m \in MessageType /\ m.type # "RX"
      <4>1. job[c].sends \in CommandType
        BY DEF Sends, DTypes, DiskTypes, JobType
      <4>2. QED
        BY <4>1, MessageTyped DEF LinkMsg
    <3> HIDE DEF m
    <3>3. QED
      BY <1>2, <3>1, <3>2, RxJoins DEF Waiting
  <2>3. QED
    BY <2>1, <2>2
<1>4. QED
  BY <1>1, <1>3, WayKept

LEMMA WayStep == DTypes /\ OwnLine /\ [DNext]_diskVars => OwnLine'
<1> SUFFICES ASSUME DTypes, OwnLine, [DNext]_diskVars PROVE OwnLine'
  OBVIOUS
<1>1. CASE UNCHANGED diskVars
  BY <1>1, WayKept DEF diskVars, linkVars, Waiting
<1>2. ASSUME Link PROVE OwnLine'
  <2>1. CASE ServerStarts
    BY <2>1, WayKept DEF ServerStarts, container, Waiting
  <2>2. CASE LinkTick
    <3>1. link'.client = link.client /\ link'.line = link.line /\ link'.sent = link.sent
      BY <2>2 DEF LinkTick, DTypes, LinkTypes
    <3>2. QED
      BY <2>2, <3>1, WayKept DEF LinkTick, container, Waiting
  <2>3. QED
    BY <1>2, <2>1, <2>2, ReceivesWay, SendsWay, DrainsWay, ArrivesWay DEF Link, LinkStep, LinkServerStep
<1>3. CASE Container
  BY <1>3, ContainerSays, AnswersWay
<1>4. ASSUME NEW c \in Clients, Call(c) PROVE OwnLine'
  <2>1. UNCHANGED linkVars
    BY <1>4 DEF Call, Begins
  <2>2. QED
    BY <2>1, WayKept DEF linkVars, Waiting
<1>5. ASSUME NEW c \in Clients, GoesOn(c) PROVE OwnLine'
  <2>1. CASE Sends(c)
    BY <2>1, ClientSendsWay
  <2>2. CASE AnswerTo(c)
    <3>1. UNCHANGED <<link, linbox, rxFifo, late, commands, answering>>
      BY <2>2, AnswerStep DEF Returns, Continues, linkRest
    <3>2. QED
      BY <3>1, WayKept DEF Waiting
  <2>3. QED
    BY <1>5, <2>1, <2>2 DEF GoesOn, AnswerTo
<1>6. QED
  BY <1>1, <1>2, <1>3, <1>4, <1>5 DEF DNext

\* Who is answered in a step is answered by the server, and with words of the
\* line of the command under way, or with the server's own.
LEMMA AnswerStepIsOwn ==
  ASSUME DTypes, OwnLine, [DNext]_diskVars, NEW c \in Clients,
         asking[c].at = "sends", asking'[c].at = "answered", late' = {}
  PROVE  \A i \in DOMAIN asking'[c].reply : asking'[c].reply[i].of \in {0, link.sent}
<1> DEFINE Own(reply) == \A i \in DOMAIN reply : reply[i].of \in {0, link.sent}
<1>1. \A w : Own(Says(w))
  BY DEF Says, Word
<1>2. \A d \in Clients, words \in Seq(WordType) :
        asking' = LinkReply(d, words) => asking'[c].reply = words
  <2> SUFFICES ASSUME NEW d \in Clients, NEW words \in Seq(WordType), asking' = LinkReply(d, words)
               PROVE  asking'[c].reply = words
    OBVIOUS
  <2>1. asking' = [asking EXCEPT ![d] = [at |-> "answered", reply |-> words]]
    BY DEF LinkReply
  <2>2. asking \in [Clients -> [at : {"runs", "sends", "answered"}, reply : Seq(WordType)]]
    BY DEF DTypes, LinkTypes
  <2>3. c = d
    BY <2>1, <2>2
  <2>4. QED
    BY <2>1, <2>2, <2>3
<1>3. asking' # asking
  OBVIOUS
<1>4. CASE ServerReceives
  <2> DEFINE words == Head(linbox).words
             answered == link.client # NoTask /\ LineEnds(words) # {}
             gaveUp == link.client # NoTask /\ ~answered /\ link.deadline = 0
  <2>1. /\ linbox # <<>> /\ Head(linbox).type = "RX"
        /\ asking' = IF answered THEN LinkReply(link.client, FirstLine(words))
                     ELSE IF gaveUp THEN LinkReply(link.client, Says("(no response)")) ELSE asking
        /\ late' = IF gaveUp THEN late \cup {link.sent} ELSE late
    BY <1>4 DEF ServerReceives
  <2>2. ~gaveUp /\ late = {}
    BY <2>1
  <2>3. answered /\ asking' = LinkReply(link.client, FirstLine(words))
    BY <1>3, <2>1, <2>2
  <2>4. linbox \in Seq(MessageType) /\ OneRx(linbox) /\ Head(linbox) \in MessageType
    BY <2>1, HeadTailProperties DEF DTypes, LinkTypes
  <2>5. Waiting = words
    BY <2>1, <2>4, RxLeaves DEF Waiting
  <2>6. words \in Seq(WordType) /\ link.line \in Seq(WordType) /\ link.client \in Clients
    BY <2>3, <2>4 DEF MessageType, DTypes, LinkTypes
  <2>7. OfCommand(words, link.sent) /\ OfCommand(link.line, link.sent)
    BY <2>2, <2>3, <2>5 DEF OwnLine, OnWay
  <2>8. LineEnds(words) # {}
    BY <2>3
  <2> HIDE DEF words
  <2>9. FirstLine(words) \in Seq(WordType) /\ OfCommand(FirstLine(words), link.sent)
    BY <2>6, <2>7, <2>8, LineReceived
  <2>10. Own(FirstLine(words))
    BY <2>9 DEF OfCommand
  <2>11. asking'[c].reply = FirstLine(words)
    BY <1>2, <2>3, <2>6, <2>9
  <2>12. QED
    BY <2>10, <2>11
<1>5. CASE ServerSends
  <2> DEFINE m == Head(linbox)
  <2>1. linbox # <<>> /\ asking' = LinkReply(m.from, Says("(busy)"))
    BY <1>3, <1>5 DEF ServerSends
  <2>2. m.type = "SEND" /\ linbox' = Tail(linbox) /\ linkUp' = linkUp
    BY <1>5 DEF ServerSends
  <2>3. m.from \in Clients
    BY <2>1, <2>2, MailboxShrinks
  <2> HIDE DEF m
  <2>4. asking'[c].reply = Says("(busy)")
    BY <1>2, <2>1, <2>3, SaysTyped
  <2>5. QED
    BY <1>1, <2>4
<1>6. asking' = asking \/ ServerReceives \/ ServerSends
  <2>1. CASE UNCHANGED diskVars
    BY <2>1 DEF diskVars, linkVars
  <2>2. CASE Link
    BY <2>2 DEF Link, LinkStep, LinkServerStep, ServerStarts, NotifierDrains, LinkTick, LineArrives
  <2>3. CASE Container
    BY <2>3 DEF Container, ContainerServes, ContainerRefuses, ContainerAnswers
  <2>4. ASSUME NEW d \in Clients, Call(d) PROVE asking' = asking
    BY <2>4 DEF Call, Begins, linkVars
  <2>5. ASSUME NEW d \in Clients, GoesOn(d) PROVE FALSE
    <3>1. asking \in [Clients -> [at : {"runs", "sends", "answered"}, reply : Seq(WordType)]]
      BY DEF DTypes, LinkTypes
    <3>2. CASE Sends(d)
      <4>1. asking[d].at = "runs" /\ c # d
        BY <3>2 DEF Sends, LinkSend
      <4>2. asking'[c] = asking[c]
        BY <3>1, <3>2, <4>1 DEF Sends, LinkSend, LinkReply
      <4>3. QED
        BY <4>2
    <3>3. CASE AnswerTo(d)
      <4>1. asking[d].at = "answered" /\ asking' = Resumes(d)
        BY <3>3, AnswerStep DEF Returns, Continues
      <4>2. asking'[c] = asking[c]
        BY <3>1, <4>1 DEF Resumes
      <4>3. QED
        BY <4>2
    <3>4. QED
      BY <2>5, <3>2, <3>3 DEF GoesOn, AnswerTo
  <2>6. QED
    BY <2>1, <2>2, <2>3, <2>4, <2>5 DEF DNext
<1>7. QED
  BY <1>3, <1>4, <1>5, <1>6

LEMMA OwnInit == DInit => OwnLine
<1> SUFFICES ASSUME DInit PROVE OwnLine
  OBVIOUS
<1>1. DTypes
  BY TypesInit
<1>2. linbox = <<>> /\ linbox \in Seq(MessageType) /\ OneRx(linbox)
  BY <1>1 DEF DInit, LInit, DTypes, LinkTypes
<1>3. NoRx(linbox)
  BY <1>2 DEF NoRx
<1>4. Waiting = <<>>
  BY <1>2, <1>3, RxIs DEF Waiting
<1>5. QED
  BY <1>4 DEF OwnLine, OnWay, DInit, LInit

LEMMA OwnInvariant == DSpec => [](DTypes /\ OwnLine)
<1>1. DInit => DTypes /\ OwnLine
  BY TypesInit, OwnInit
<1>2. (DTypes /\ OwnLine) /\ [DNext]_diskVars => (DTypes /\ OwnLine)'
  BY TypesStep, WayStep
<1>3. QED
  BY <1>1, <1>2, PTL DEF DSpec

\* A client is answered with words of the line that answers its own command,
\* while no command was given up (link_server_entry: one command at a time).
THEOREM AnswersAreOwn == DSpec => AnswerIsOwn
<1>1. (DTypes /\ OwnLine) /\ [DNext]_diskVars =>
        [\A c \in Clients :
           asking[c].at = "sends" /\ asking'[c].at = "answered" /\ late' = {} =>
             \A i \in DOMAIN asking'[c].reply : asking'[c].reply[i].of \in {0, link.sent}]_linkVars
  BY AnswerStepIsOwn
<1>2. QED
  BY <1>1, OwnInvariant, PTL DEF DSpec, AnswerIsOwn

-----------------------------------------------------------------------------
(* What a call makes of the word that answers it. *)

\* A command of disk_write_chunk() holds a whole chunk: the path is short.
WholeChunks == CommandRoom("WRITE") >= DISKFS_CHUNK /\ CommandRoom("APPEND") >= DISKFS_CHUNK

\* What the property says of a result, when this is at its path.
Telling(r, at) ==
  CASE r.op = "DiskWrite" ->
         IF r.ret = DISKFS_ERR THEN at = r.old \/ IsPrefix(at.data, Text)
         ELSE at = [kind |-> "file", data |-> Text] /\ r.ret = Len(Text)
    [] r.op = "DiskAppend" ->
         IF r.ret = DISKFS_ERR THEN at = r.old \/ \E n \in 0..Len(Text) :
                                                at.data = r.old.data \o SubSeq(Text, 1, n)
         ELSE at = [kind |-> "file", data |-> r.old.data \o Text] /\ r.ret = Len(Text)
    [] r.op = "DiskStat" -> /\ r.ret = 1 => at.kind = "file" /\ Len(at.data) = Len(r.data)
                            /\ r.ret = 2 => at.kind = "dir"
                            /\ r.ret = 0 => at.kind = "none"
    [] r.op = "DiskMkdir" -> r.ret = DISKFS_OK => at.kind = "dir" /\ r.old.kind = "none"
    [] r.op = "DiskRm" -> r.ret # DISKFS_ERR => at.kind = "none"
    [] OTHER -> TRUE

Result(c, ret, data) ==
  [op |-> job[c].op, path |-> job[c].path, ret |-> ret, data |-> data, old |-> job[c].old]
NextJob(c, cmd, total, data) == [job[c] EXCEPT !.sends = cmd, !.total = total, !.data = data]

\* A true word makes a true result, and the next command starts from what is there.
ReturnsTruth(c, w, ret, data) ==
  Told(job[c], w, disk[c]) => Telling(Result(c, ret, data), disk[c])
GoesOnFrom(c, cmd, total, data) ==
  LET j == NextJob(c, cmd, total, data)
  IN  /\ cmd \in CommandType /\ total \in Nat /\ data \in Seq(STRING)
      /\ Matches(j, cmd)
      /\ j.op \in {"DiskWrite", "DiskAppend"} =>
           total <= Len(Text) /\ (data = <<>> => total = 0)
      /\ \A w \in WordType :
           asking[c].reply = <<w>> /\ Told(job[c], w, disk[c]) => disk[c] = Before(j)

TrueReturn(c, ret, data) ==
  \A w \in WordType : asking[c].reply = <<w>> => ReturnsTruth(c, w, ret, data)

LEMMA StartsIs ==
  ASSUME NEW c, NEW w \in WordType, asking[c].reply = <<w>>
  PROVE  \A x : Starts(c, x) <=> w.word = x
BY DEF Starts

\* The calls that send one command.
LEMMA ShortCalls ==
  ASSUME DTypes, NEW c \in Clients, DiskStat(c) \/ DiskLs(c) \/ DiskMkdir(c) \/ DiskRm(c)
  PROVE  \E ret, data : Returns(c, ret, data) /\ TrueReturn(c, ret, data)
<1>1. CASE DiskStat(c)
  <2> DEFINE d == Head(asking[c].reply).data
  <2>0. job[c].op = "DiskStat"
    BY <1>1 DEF DiskStat, Answered
  <2>1. \/ Returns(c, 1, d) /\ Starts(c, "FILE")
        \/ Returns(c, 2, <<>>) /\ Starts(c, "DIR")
        \/ Returns(c, 0, <<>>) /\ Starts(c, "NOENT")
        \/ Returns(c, DISKFS_ERR, <<>>)
    BY <1>1 DEF DiskStat
  <2>2. Starts(c, "FILE") => TrueReturn(c, 1, d)
    <3> SUFFICES ASSUME Starts(c, "FILE"), NEW w \in WordType, asking[c].reply = <<w>>,
                        Told(job[c], w, disk[c])
                 PROVE  Telling(Result(c, 1, d), disk[c])
      BY DEF TrueReturn, ReturnsTruth
    <3>1. w.word = "FILE" /\ d = w.data
      BY StartsIs
    <3>2. disk[c].kind = "file" /\ disk[c].data = d
      BY <2>0, <3>1 DEF Told
    <3> HIDE DEF d
    <3>3. QED
      BY <2>0, <3>2 DEF Telling, Result
  <2>3. Starts(c, "DIR") => TrueReturn(c, 2, <<>>)
    BY <2>0, StartsIs DEF TrueReturn, ReturnsTruth, Told, Telling, Result
  <2>4. Starts(c, "NOENT") => TrueReturn(c, 0, <<>>)
    BY <2>0, StartsIs DEF TrueReturn, ReturnsTruth, Told, Telling, Result
  <2>5. TrueReturn(c, DISKFS_ERR, <<>>)
    BY <2>0 DEF TrueReturn, ReturnsTruth, Told, Telling, Result, DISKFS_ERR
  <2> HIDE DEF d
  <2>6. QED
    BY <2>1, <2>2, <2>3, <2>4, <2>5, Zenon
<1>2. CASE DiskLs(c)
  <2>0. job[c].op = "DiskLs"
    BY <1>2 DEF DiskLs, Answered
  <2>1. \/ Returns(c, DISKFS_ERR, <<>>) \/ Returns(c, DISKFS_NOENT, <<>>) \/ Returns(c, 2, <<>>)
        \/ Returns(c, Len(asking[c].reply), <<>>)
    BY <1>2 DEF DiskLs
  <2>2. \A ret : TrueReturn(c, ret, <<>>)
    BY <2>0 DEF TrueReturn, ReturnsTruth, Telling, Result
  <2>3. QED
    BY <2>1, <2>2, Zenon
<1>3. CASE DiskMkdir(c)
  <2>0. job[c].op = "DiskMkdir"
    BY <1>3 DEF DiskMkdir, Answered
  <2>1. Returns(c, IF Starts(c, "OK") THEN DISKFS_OK ELSE DISKFS_ERR, <<>>)
    BY <1>3 DEF DiskMkdir
  <2>2. TrueReturn(c, IF Starts(c, "OK") THEN DISKFS_OK ELSE DISKFS_ERR, <<>>)
    BY <2>0, StartsIs DEF TrueReturn, ReturnsTruth, Told, Telling, Result, DISKFS_OK, DISKFS_ERR
  <2>3. QED
    BY <2>1, <2>2, Zenon
<1>4. CASE DiskRm(c)
  <2> DEFINE ret == CASE Starts(c, "NOENT") -> DISKFS_NOENT
                      [] Starts(c, "OK") -> DISKFS_OK
                      [] OTHER -> DISKFS_ERR
  <2>0. job[c].op = "DiskRm"
    BY <1>4 DEF DiskRm, Answered
  <2>1. Returns(c, ret, <<>>)
    BY <1>4, Zenon DEF DiskRm
  <2>2. ret # DISKFS_ERR => Starts(c, "NOENT") \/ Starts(c, "OK")
    OBVIOUS
  <2> HIDE DEF ret
  <2>3. TrueReturn(c, ret, <<>>)
    BY <2>0, <2>2, StartsIs DEF TrueReturn, ReturnsTruth, Told, Telling, Result
  <2>4. QED
    BY <2>1, <2>3, Zenon
<1>5. QED
  BY <1>1, <1>2, <1>3, <1>4

\* DiskRead() tells nothing of its path, and changes nothing.
LEMMA ReadCalls ==
  ASSUME DTypes, NEW c \in Clients, DiskRead(c)
  PROVE  \/ \E ret, data : Returns(c, ret, data) /\ TrueReturn(c, ret, data)
         \/ \E cmd \in CommandType, total \in Nat, data \in Seq(STRING) :
              cmd # NoCommand /\ Continues(c, cmd, total, data) /\ GoesOnFrom(c, cmd, total, data)
<1>1. job[c].op = "DiskRead" /\ job[c] \in JobType /\ job[c].path = c
  BY DEF DiskRead, Answered, DTypes, DiskTypes
<1>2. \A ret, data : TrueReturn(c, ret, data)
  BY <1>1 DEF TrueReturn, ReturnsTruth, Telling, Result
<1>3. CASE \E ret, data : Returns(c, ret, data)
  BY <1>2, <1>3, Zenon
<1>4. ASSUME ~\E ret, data : Returns(c, ret, data)
      PROVE  \E cmd \in CommandType, total \in Nat, data \in Seq(STRING) :
               cmd # NoCommand /\ Continues(c, cmd, total, data) /\ GoesOnFrom(c, cmd, total, data)
  <2>1. PICK cmd \in CommandType, total \in Nat, data \in Seq(STRING) :
               cmd # NoCommand /\ cmd.path = c /\ Continues(c, cmd, total, data)
    BY <1>4, AnswerStep DEF AnswerTo
  <2>2. cmd.verb = "READ"
    <3> DEFINE room == BufMax - 1 - Len(job[c].data)
               got == SubSeq(hex_dec(c), 1, Min({Len(hex_dec(c)), room}))
               all == job[c].data \o got
               k == build_cmd("READ", job[c].path, Len(all), <<>>)
    <3>1. Continues(c, k, Len(all), all)
      <4>1. \/ Returns(c, DISKFS_ERR, <<>>) \/ Returns(c, DISKFS_NOENT, <<>>)
            \/ Returns(c, Len(all), all) \/ Continues(c, k, Len(all), all)
        BY DEF DiskRead
      <4>2. QED
        BY <1>4, <4>1, Zenon
    <3>2. k.verb = "READ"
      BY DEF build_cmd
    <3> HIDE DEF k, all
    <3>3. job'[c].sends = k /\ job'[c].sends = cmd
      <4>1. \A x, n, s : Continues(c, x, n, s) => job'[c].sends = x
        <5> SUFFICES ASSUME NEW x, NEW n, NEW s, Continues(c, x, n, s) PROVE job'[c].sends = x
          OBVIOUS
        <5>1. job'[c] = [job[c] EXCEPT !.sends = x, !.total = n, !.data = s]
          BY DEF Continues, DTypes, DiskTypes
        <5>2. QED
          BY <1>1, <5>1 DEF JobType
      <4>2. QED
        BY <2>1, <3>1, <4>1
    <3>4. QED
      BY <3>2, <3>3
  <2> DEFINE j == NextJob(c, cmd, total, data)
  <2>3. j.op = "DiskRead" /\ j.path = c /\ j.old = job[c].old
    BY <1>1 DEF NextJob, JobType
  <2> HIDE DEF j
  <2>4. Matches(j, cmd)
    BY <2>1, <2>2, <2>3 DEF Matches
  <2>5. \A w \in WordType : Told(job[c], w, disk[c]) => disk[c] = Before(j)
    BY <1>1, <2>3 DEF Told, Before
  <2>6. GoesOnFrom(c, cmd, total, data)
    BY <2>1, <2>3, <2>4, <2>5 DEF GoesOnFrom, j
  <2>7. QED
    BY <2>1, <2>6, Zenon
<1>5. QED
  BY <1>3, <1>4

LEMMA BeforeIs ==
  ASSUME NEW j
  PROVE  \/ Before(j) = j.old
         \/ /\ j.op = "DiskWrite"
            /\ Before(j) = [kind |-> "file", data |-> SubSeq(Text, 1, j.total)]
            /\ Before(j).data = SubSeq(Text, 1, j.total)
         \/ /\ j.op = "DiskAppend"
            /\ Before(j) = [kind |-> "file", data |-> j.old.data \o SubSeq(Text, 1, j.total)]
            /\ Before(j).data = j.old.data \o SubSeq(Text, 1, j.total)
BY DEF Before

\* disk_write_chunk(): what it sends next begins where the file ends.
LEMMA WriteCalls ==
  ASSUME WholeChunks, DTypes, NEW c \in Clients, JobOf(c), disk_write_chunk(c)
  PROVE  \/ \E ret, data : Returns(c, ret, data) /\ TrueReturn(c, ret, data)
         \/ \E cmd \in CommandType, total \in Nat, data \in Seq(STRING) :
              cmd # NoCommand /\ Continues(c, cmd, total, data) /\ GoesOnFrom(c, cmd, total, data)
<1> DEFINE op == job[c].op
           first == op = "DiskWrite" /\ job[c].data = <<>>
           next == job[c].total + Len(Chunk(job[c].total))
           total == IF first THEN 0 ELSE next
           verb == IF first THEN "WRITE" ELSE "APPEND"
           cmd == build_cmd(verb, job[c].path, 0, Chunk(total))
           j == NextJob(c, cmd, total, Text)
           old == job[c].old
<1>1. /\ op \in {"DiskWrite", "DiskAppend"} /\ job[c] \in JobType /\ job[c].path = c
      /\ job[c].total \in Nat /\ job[c].total <= Len(Text) /\ (job[c].data = <<>> => job[c].total = 0)
  BY DEF disk_write_chunk, Answered, DTypes, DiskTypes, JobType, JobOf
<1>2. /\ \/ Returns(c, DISKFS_ERR, <<>>) /\ ~Starts(c, "OK")
         \/ Returns(c, total, <<>>) /\ Starts(c, "OK") /\ total = Len(Text)
         \/ Continues(c, cmd, total, Text) /\ Starts(c, "OK") /\ total # Len(Text)
  BY DEF disk_write_chunk
<1>3. /\ Len(Text) \in Nat /\ Text \in Seq(STRING) /\ Text = SubSeq(Text, 1, Len(Text))
      /\ SubSeq(Text, 1, 0) = <<>>
  BY DiskAssumption, LenProperties, SubSeqFull, SubSeqEmpty
<1>4. /\ next \in Nat /\ next <= Len(Text) /\ job[c].total <= next
      /\ job[c].total < Len(Text) => next > 0
  <2>1. LET l == Len(Chunk(job[c].total))
        IN  l \in Nat /\ job[c].total + l <= Len(Text) /\ (job[c].total < Len(Text) => l > 0)
    BY <1>1, ChunkIs, LenProperties
  <2>2. QED
    BY <1>1, <2>1
<1> HIDE DEF next
<1>5. total \in Nat /\ total <= Len(Text)
  BY <1>3, <1>4
<1>6. ASSUME NEW w \in WordType, asking[c].reply = <<w>>, Told(job[c], w, disk[c])
      PROVE  /\ ~Starts(c, "OK") => disk[c] = Before(job[c])
             /\ Starts(c, "OK") => disk[c] = After(job[c])
  BY <1>1, <1>6, StartsIs DEF Told
<1>7. After(job[c]) =
        [kind |-> "file",
         data |-> IF op = "DiskAppend" THEN old.data \o SubSeq(Text, 1, total)
                  ELSE SubSeq(Text, 1, total)]
  <2>1. CASE first
    BY <1>3, <2>1 DEF After
  <2>2. CASE ~first
    BY <1>1, <2>2 DEF After, next
  <2>3. QED
    BY <2>1, <2>2
<1>8. CASE Returns(c, DISKFS_ERR, <<>>) /\ ~Starts(c, "OK")
  <2> DEFINE r == Result(c, DISKFS_ERR, <<>>)
  <2>1. TrueReturn(c, DISKFS_ERR, <<>>)
    <3> SUFFICES ASSUME disk[c] = Before(job[c]) PROVE Telling(r, disk[c])
      BY <1>6, <1>8 DEF TrueReturn, ReturnsTruth
    <3>1. r.op = op /\ r.ret = DISKFS_ERR /\ r.old = old
      BY DEF Result
    <3>2. CASE disk[c] = old
      <4> HIDE DEF r
      <4>1. QED
        BY <1>1, <3>1, <3>2 DEF Telling
    <3>3. CASE op = "DiskWrite" /\ disk[c].data = SubSeq(Text, 1, job[c].total)
      <4> DEFINE s == SubSeq(Text, 1, job[c].total)
      <4>1. s \in Seq(STRING) /\ Len(s) = job[c].total
        <5>1. \A i \in 1..job[c].total : Text[i] \in STRING
          BY <1>1, <1>3, ElementOfSeq
        <5>2. /\ s \in Seq(STRING)
              /\ Len(s) = IF 1 <= job[c].total THEN job[c].total - 1 + 1 ELSE 0
          BY <1>1, <5>1, SubSeqProperties
        <5> HIDE DEF s
        <5>3. QED
          BY <1>1, <5>2
      <4>2. SubSeq(s, 1, Len(s)) = s
        BY <4>1, SubSeqFull
      <4>3. IsPrefix(s, Text)
        <5>1. SubSeq(s, 1, Len(s)) = SubSeq(Text, 1, Len(s))
          BY <4>1, <4>2
        <5> HIDE DEF s
        <5>2. QED
          BY <1>1, <4>1, <5>1 DEF IsPrefix
      <4>4. IsPrefix(disk[c].data, Text)
        BY <3>3, <4>3
      <4> HIDE DEF r, s
      <4>5. QED
        BY <3>1, <3>3, <4>4 DEF Telling
    <3>4. CASE op = "DiskAppend" /\ disk[c].data = old.data \o SubSeq(Text, 1, job[c].total)
      <4>1. job[c].total \in 0..Len(Text)
        BY <1>1, <1>3
      <4> HIDE DEF r
      <4>2. QED
        BY <3>1, <3>4, <4>1 DEF Telling
    <3> HIDE DEF r
    <3>5. QED
      BY <1>1, <3>2, <3>3, <3>4, BeforeIs
  <2>2. QED
    BY <1>8, <2>1, Zenon
<1>9. CASE Returns(c, total, <<>>) /\ Starts(c, "OK") /\ total = Len(Text)
  <2> DEFINE r == Result(c, total, <<>>)
  <2>1. TrueReturn(c, total, <<>>)
    <3> SUFFICES ASSUME disk[c] = After(job[c]) PROVE Telling(r, disk[c])
      BY <1>6, <1>9 DEF TrueReturn, ReturnsTruth
    <3>1. r.op = op /\ r.ret = total /\ r.old = old /\ total # DISKFS_ERR
      BY <1>5 DEF Result, DISKFS_ERR
    <3>2. SubSeq(Text, 1, total) = Text
      BY <1>3, <1>9
    <3> HIDE DEF r, total
    <3>3. QED
      BY <1>1, <1>7, <1>9, <3>1, <3>2 DEF Telling
  <2>2. QED
    BY <1>9, <2>1, Zenon
<1>10. CASE Continues(c, cmd, total, Text) /\ Starts(c, "OK") /\ total # Len(Text)
  <2>1. Text # <<>>
    <3>1. Len(Text) # 0
      BY <1>3, <1>5, <1>10
    <3>2. QED
      BY <3>1
  <2>2. total = 0 => first
    <3>1. ~first => next # 0
      <4>1. ~first /\ next = 0 => job[c].total < Len(Text)
        BY <1>1, <1>3, <1>4, <1>5, <1>10
      <4>2. QED
        BY <1>4, <4>1
    <3>2. QED
      BY <3>1
  <2>3. /\ cmd \in CommandType /\ cmd # NoCommand /\ cmd.verb = verb /\ cmd.path = c
        /\ cmd.data = Chunk(total)
    <3>1. Chunk(total) \in Seq(STRING) /\ Len(Chunk(total)) \in 0..DISKFS_CHUNK
      BY <1>5, ChunkIs
    <3>2. verb \in Verbs /\ 0 \in Nat
      BY DEF Verbs
    <3>3. CommandRoom("WRITE") \in Int /\ CommandRoom("APPEND") \in Int
      <4>1. \A a \in Int : a \div 2 \in Int
        OBVIOUS
      <4>2. \A v : LINK_CMD_MAX - 1 - (5 + PathLen + (IF v = "WRITE" THEN 5 ELSE 6)) \in Int
        BY DiskAssumption
      <4>3. QED
        BY <4>1, <4>2 DEF CommandRoom
    <3>4. Len(Chunk(total)) <= CommandRoom(verb)
      <4>1. \A l \in 0..DISKFS_CHUNK : l <= CommandRoom("WRITE") /\ l <= CommandRoom("APPEND")
        BY <3>3, DiskAssumption DEF WholeChunks
      <4>2. QED
        BY <3>1, <4>1
    <3> DEFINE k == build_cmd(verb, c, 0, Chunk(total))
    <3>5. cmd = k
      BY <1>1
    <3> HIDE DEF total, verb
    <3>6. k \in CommandType /\ k # NoCommand /\ k.verb = verb /\ k.path = c /\ k.data = Chunk(total)
      BY <3>1, <3>2, <3>4, CommandIs
    <3> HIDE DEF cmd, k
    <3>7. QED
      BY <3>5, <3>6
  <2>4. j.op = op /\ j.path = c /\ j.old = old /\ j.data = Text /\ j.total = total
    BY <1>1 DEF NextJob, JobType
  <2> HIDE DEF j, cmd
  <2>5. Matches(j, cmd)
    <3>1. op = "DiskWrite" => cmd.verb = IF total = 0 THEN "WRITE" ELSE "APPEND"
      <4>1. first => total = 0
        OBVIOUS
      <4>2. QED
        BY <2>2, <2>3, <4>1
    <3>2. op = "DiskAppend" => cmd.verb = "APPEND"
      BY <2>3
    <3> HIDE DEF total, first
    <3>3. QED
      BY <1>1, <2>1, <2>3, <2>4, <3>1, <3>2 DEF Matches
  <2>6. After(job[c]) = Before(j)
    <3>1. op = "DiskAppend" => total # 0
      BY <2>2
    <3> HIDE DEF total, first
    <3>2. QED
      BY <1>1, <1>7, <2>1, <2>4, <3>1 DEF Before
  <2>7. GoesOnFrom(c, cmd, total, Text)
    <3>1. \A w \in WordType :
            asking[c].reply = <<w>> /\ Told(job[c], w, disk[c]) => disk[c] = Before(j)
      BY <1>6, <1>10, <2>6
    <3> HIDE DEF total
    <3>2. QED
      BY <1>3, <1>5, <2>1, <2>3, <2>5, <3>1 DEF GoesOnFrom, j
  <2> HIDE DEF total
  <2>8. QED
    BY <1>3, <1>5, <1>10, <2>3, <2>7, Zenon
<1>11. QED
  BY <1>2, <1>8, <1>9, <1>10

LEMMA AnswerTold ==
  ASSUME WholeChunks, DTypes, NEW c \in Clients, JobOf(c), AnswerTo(c)
  PROVE  \/ \E ret, data : Returns(c, ret, data) /\ TrueReturn(c, ret, data)
         \/ OneWord(c) /\ \E cmd \in CommandType, total \in Nat, data \in Seq(STRING) :
              cmd # NoCommand /\ Continues(c, cmd, total, data) /\ GoesOnFrom(c, cmd, total, data)
<1>1. CASE DiskStat(c) \/ DiskLs(c) \/ DiskMkdir(c) \/ DiskRm(c)
  BY <1>1, ShortCalls, Zenon
<1>2. CASE DiskRead(c) \/ disk_write_chunk(c)
  <2>1. OneWord(c)
    BY <1>2 DEF DiskRead, disk_write_chunk, Answered, OneWord
  <2>2. QED
    BY <1>2, <2>1, ReadCalls, WriteCalls, Zenon
<1>3. QED
  BY <1>1, <1>2 DEF AnswerTo

-----------------------------------------------------------------------------
(* Who waits for the server has one command, in its mailbox or under way.  *)

\* The commands in the mailbox are those of waiting clients, one of each.
Posted ==
  /\ \A i \in DOMAIN linbox : linbox[i].type = "SEND" =>
       LET c == linbox[i].from
       IN  asking[c].at = "sends" /\ link.client # c /\ Matches(job[c], linbox[i].cmd)
  /\ \A i, j \in DOMAIN linbox :
       linbox[i].type = "SEND" /\ linbox[j].type = "SEND" /\ linbox[i].from = linbox[j].from
         => i = j

LEMMA AskingIs ==
  Asking <=> /\ \A c \in Clients : JobOf(c)
             /\ link.client # NoTask => asking[link.client].at = "sends"
             /\ Posted
BY DEF Asking, Posted

\* Steps of the link that concern no client.
LEMMA AskingKept ==
  ASSUME DTypes, Asking, job' = job, asking' = asking, link'.client = link.client,
         \/ linbox' = linbox
         \/ \E m \in MessageType : m.type = "RX" /\ linbox' = Append(linbox, m)
  PROVE  Asking'
<1>1. \A c \in Clients : JobOf(c)'
  BY DEF Asking, JobOf
<1>2. CASE linbox' = linbox
  BY <1>1, <1>2 DEF Asking
<1>3. ASSUME NEW m \in MessageType, m.type = "RX", linbox' = Append(linbox, m) PROVE Asking'
  <2>1. linbox \in Seq(MessageType)
    BY DEF DTypes, LinkTypes
  <2>2. /\ linbox' \in Seq(MessageType) /\ Len(linbox) \in Nat
        /\ \A i \in DOMAIN linbox : linbox'[i] = linbox[i]
        /\ linbox'[Len(linbox) + 1] = m
        /\ \A i \in DOMAIN linbox' : i \in DOMAIN linbox \/ i = Len(linbox) + 1
    BY <1>3, <2>1, AppendFacts
  <2>3. \A i \in DOMAIN linbox' : linbox'[i].type = "SEND" =>
                                    i \in DOMAIN linbox /\ linbox'[i] = linbox[i]
    BY <1>3, <2>2
  <2>4. QED
    BY <1>1, <2>3 DEF Asking
<1>4. QED
  BY <1>2, <1>3

\* The mailbox when a message has left it.
LEMMA PostLeaves ==
  ASSUME DTypes, Posted, linbox # <<>>, linbox' = Tail(linbox)
  PROVE  /\ \A i \in DOMAIN linbox' : linbox'[i].type = "SEND" =>
              LET c == linbox'[i].from
              IN  /\ c \in Clients
                  /\ asking[c].at = "sends" /\ link.client # c /\ Matches(job[c], linbox'[i].cmd)
                  /\ Head(linbox).type = "SEND" => c # Head(linbox).from
         /\ \A i, j \in DOMAIN linbox' :
              linbox'[i].type = "SEND" /\ linbox'[j].type = "SEND" /\ linbox'[i].from = linbox'[j].from
                => i = j
         /\ Head(linbox).type = "SEND" =>
              LET c == Head(linbox).from
              IN  /\ c \in Clients
                  /\ asking[c].at = "sends" /\ link.client # c /\ Matches(job[c], Head(linbox).cmd)
<1>1. linbox \in Seq(MessageType)
  BY DEF DTypes, LinkTypes
<1>2. /\ 1 \in DOMAIN linbox /\ Head(linbox) = linbox[1]
      /\ \A i \in DOMAIN linbox' :
           i \in Nat /\ i + 1 \in DOMAIN linbox /\ i + 1 # 1 /\ linbox'[i] = linbox[i + 1]
  BY <1>1, TailFacts
<1>3. ASSUME NEW i \in DOMAIN linbox', NEW j \in DOMAIN linbox', linbox'[i].type = "SEND",
             linbox'[j].type = "SEND", linbox'[i].from = linbox'[j].from
      PROVE  i = j
  <2>1. i + 1 = j + 1
    BY <1>2, <1>3 DEF Posted
  <2>2. QED
    BY <1>2, <2>1
<1>4. ASSUME NEW i \in DOMAIN linbox', linbox'[i].type = "SEND"
      PROVE  LET c == linbox'[i].from
             IN  /\ c \in Clients
                 /\ asking[c].at = "sends" /\ link.client # c /\ Matches(job[c], linbox'[i].cmd)
                 /\ Head(linbox).type = "SEND" => c # Head(linbox).from
  BY <1>2, <1>4 DEF Posted, DTypes, SendsCommands
<1>5. QED
  BY <1>2, <1>3, <1>4 DEF Posted, DTypes, SendsCommands

\* A client that is answered: its call goes on, and it waits no more.
LEMMA JobAnswered ==
  ASSUME DTypes, Asking, NEW c \in Clients, asking[c].at = "sends", NEW words, job' = job,
         asking' = LinkReply(c, words)
  PROVE  /\ \A d \in Clients : JobOf(d)'
         /\ asking'[c].at = "answered" /\ \A d \in Clients \ {c} : asking'[d] = asking[d]
<1>1. /\ asking'[c] = [at |-> "answered", reply |-> words]
      /\ \A d \in Clients \ {c} : asking'[d] = asking[d]
  BY DEF LinkReply, DTypes, LinkTypes
<1>2. asking'[c].at = "answered"
  BY <1>1
<1>3. \A d \in Clients : JobOf(d)
  BY DEF Asking
<1>4. job[c].op # "none" /\ job[c].sends = NoCommand
  BY <1>3 DEF JobOf
<1>5. \A d \in Clients : JobOf(d)'
  BY <1>1, <1>2, <1>3, <1>4 DEF JobOf
<1>6. QED
  BY <1>1, <1>2, <1>5

LEMMA ReceivesAsking == DTypes /\ Asking /\ ServerReceives /\ job' = job => Asking'
<1> SUFFICES ASSUME DTypes, Asking, ServerReceives, job' = job PROVE Asking'
  OBVIOUS
<1> DEFINE words == Head(linbox).words
           answered == link.client # NoTask /\ LineEnds(words) # {}
           gaveUp == link.client # NoTask /\ ~answered /\ link.deadline = 0
<1>1. /\ linbox # <<>> /\ Head(linbox).type = "RX" /\ linbox' = Tail(linbox)
      /\ link'.client = IF answered \/ gaveUp THEN NoTask ELSE link.client
      /\ asking' = IF answered THEN LinkReply(link.client, FirstLine(words))
                   ELSE IF gaveUp THEN LinkReply(link.client, Says("(no response)")) ELSE asking
  BY DEF ServerReceives, DTypes, LinkTypes
<1>2. /\ \A c \in Clients : JobOf(c)
      /\ link.client # NoTask => asking[link.client].at = "sends" /\ link.client \in Clients
      /\ Posted
  BY AskingIs DEF DTypes, LinkTypes
<1>3. CASE ~answered /\ ~gaveUp
  <2>1. link'.client = link.client /\ asking' = asking
    BY <1>1, <1>3
  <2>2. \A c \in Clients : JobOf(c)'
    BY <1>2, <2>1 DEF JobOf
  <2>3. Posted'
    BY <1>1, <1>2, <2>1, PostLeaves DEF Posted
  <2>4. QED
    BY <1>2, <2>1, <2>2, <2>3 DEF Asking, Posted
<1>4. CASE answered \/ gaveUp
  <2>1. link'.client = NoTask /\ link.client \in Clients /\ asking[link.client].at = "sends"
    BY <1>1, <1>2, <1>4
  <2>2. \E w : asking' = LinkReply(link.client, w)
    BY <1>1, <1>4
  <2>3. /\ \A d \in Clients : JobOf(d)'
        /\ \A d \in Clients \ {link.client} : asking'[d] = asking[d]
    BY <2>1, <2>2, JobAnswered
  <2>4. NoTask \notin Clients
    BY LinkAssumption DEF NoTask
  <2>5. Posted'
    <3>1. \A i \in DOMAIN linbox' : linbox'[i].type = "SEND" =>
            /\ linbox'[i].from \in Clients /\ asking[linbox'[i].from].at = "sends"
            /\ link.client # linbox'[i].from
            /\ Matches(job[linbox'[i].from], linbox'[i].cmd)
      BY <1>1, <1>2, PostLeaves
    <3>2. \A i \in DOMAIN linbox' : linbox'[i].type = "SEND" =>
            /\ asking'[linbox'[i].from].at = "sends"
            /\ link'.client # linbox'[i].from
            /\ Matches(job'[linbox'[i].from], linbox'[i].cmd)
      BY <2>1, <2>3, <2>4, <3>1
    <3>3. \A i, j \in DOMAIN linbox' :
            linbox'[i].type = "SEND" /\ linbox'[j].type = "SEND" /\ linbox'[i].from = linbox'[j].from
              => i = j
      BY <1>1, <1>2, PostLeaves
    <3>4. QED
      BY <3>2, <3>3 DEF Posted
  <2>6. QED
    BY <2>1, <2>3, <2>5 DEF Asking, Posted
<1>5. QED
  BY <1>3, <1>4

LEMMA SendsAsking == DTypes /\ Asking /\ ServerSends /\ job' = job => Asking'
<1> SUFFICES ASSUME DTypes, Asking, ServerSends, job' = job PROVE Asking'
  OBVIOUS
<1> DEFINE m == Head(linbox)
<1>1. linbox # <<>> /\ m.type = "SEND" /\ linbox' = Tail(linbox)
  BY DEF ServerSends
<1>2. /\ \A c \in Clients : JobOf(c)
      /\ link.client # NoTask => asking[link.client].at = "sends"
      /\ Posted
  BY AskingIs
<1>3. m.from \in Clients /\ asking[m.from].at = "sends" /\ link.client # m.from
  BY <1>1, <1>2, PostLeaves
<1>4. CASE link.client # NoTask
  <2>1. link' = link /\ asking' = LinkReply(m.from, Says("(busy)"))
    BY <1>4 DEF ServerSends
  <2>2. /\ \A d \in Clients : JobOf(d)'
        /\ \A d \in Clients \ {m.from} : asking'[d] = asking[d]
    BY <1>3, <2>1, JobAnswered
  <2>3. Posted'
    BY <1>1, <1>2, <2>1, <2>2, PostLeaves DEF Posted
  <2>4. link.client \in Clients
    BY <1>4 DEF DTypes, LinkTypes
  <2> HIDE DEF m
  <2>5. link'.client # NoTask => asking'[link'.client].at = "sends"
    BY <1>2, <1>3, <2>1, <2>2, <2>4
  <2>6. QED
    BY <2>2, <2>3, <2>5 DEF Asking, Posted
<1>5. CASE link.client = NoTask
  <2>1. link'.client = m.from /\ asking' = asking
    BY <1>5 DEF ServerSends
  <2>2. \A d \in Clients : JobOf(d)'
    BY <1>2, <2>1 DEF JobOf
  <2>3. Posted'
    BY <1>1, <1>2, <2>1, PostLeaves DEF Posted
  <2>4. QED
    BY <1>3, <2>1, <2>2, <2>3 DEF Asking, Posted
<1>6. QED
  BY <1>4, <1>5

FirstJob(op, c, old) ==
  [NoJob EXCEPT !.op = op, !.path = c, !.sends = FirstCommand(op, c), !.old = old]

LEMMA FirstMatches ==
  ASSUME WholeChunks, NEW op \in DiskOps, NEW c \in Clients
  PROVE  \A old : LET j == FirstJob(op, c, old)
                  IN  /\ Matches(j, FirstCommand(op, c)) /\ j.op = op /\ j.path = c
                      /\ j.sends = FirstCommand(op, c)
                      /\ j.total = 0 /\ j.data = <<>> /\ j.old = old /\ Before(j) = old
<1> TAKE old
<1> DEFINE cmd == FirstCommand(op, c)
           j == [NoJob EXCEPT !.op = op, !.path = c, !.sends = cmd, !.old = old]
<1>1. j.op = op /\ j.path = c /\ j.sends = cmd /\ j.total = 0 /\ j.data = <<>> /\ j.old = old
  BY DEF NoJob
<1>2. cmd.path = c /\ cmd.verb = CASE op = "DiskStat" -> "STAT"
                                   [] op = "DiskLs" -> "LS"
                                   [] op = "DiskMkdir" -> "MKDIR"
                                   [] op = "DiskRm" -> "RM"
                                   [] op = "DiskRead" -> "READ"
                                   [] op = "DiskWrite" -> "TRUNC"
                                   [] OTHER -> "APPEND"
  BY DEF FirstCommand, build_cmd, DiskOps
<1>3. op = "DiskAppend" => cmd.data = Chunk(0)
  <2>1. Chunk(0) \in Seq(STRING) /\ Len(Chunk(0)) \in 0..DISKFS_CHUNK
    BY ChunkIs
  <2>2. CommandRoom("APPEND") \in Int
    <3>1. \A a \in Int : a \div 2 \in Int
      OBVIOUS
    <3>2. LINK_CMD_MAX - 1 - (5 + PathLen + (IF "APPEND" = "WRITE" THEN 5 ELSE 6)) \in Int
      BY DiskAssumption
    <3>3. QED
      BY <3>1, <3>2 DEF CommandRoom
  <2>3. Len(Chunk(0)) <= CommandRoom("APPEND")
    BY <2>1, <2>2, DiskAssumption DEF WholeChunks
  <2>4. "APPEND" \in Verbs /\ 0 \in Nat
    BY DEF Verbs
  <2>5. build_cmd("APPEND", c, 0, Chunk(0)).data = Chunk(0)
    <3>1. \A verb \in Verbs, data \in Seq(STRING) :
            Len(data) <= CommandRoom(verb) => build_cmd(verb, c, 0, data).data = data
      BY CommandIs
    <3>2. QED
      BY <2>1, <2>3, <2>4, <3>1
  <2>6. QED
    BY <2>5 DEF FirstCommand
<1> HIDE DEF cmd, j
<1>4. Matches(j, cmd)
  BY <1>1, <1>2, <1>3 DEF Matches, DiskOps
<1>5. Before(j) = old
  BY <1>1 DEF Before
<1>6. QED
  BY <1>1, <1>4, <1>5 DEF j, cmd, FirstJob

LEMMA BeginsAsking ==
  ASSUME WholeChunks, DTypes, Asking, NEW c \in Clients, Call(c)
  PROVE  Asking'
<1>1. PICK op \in Calls[c] : Begins(c, op, c)
  BY DEF Call
<1>2. op \in DiskOps
  BY DiskAssumption
<1> DEFINE j == FirstJob(op, c, disk[c])
<1>3. job[c].op = "none" /\ job' = [job EXCEPT ![c] = j] /\ UNCHANGED linkVars
  BY <1>1 DEF Begins, FirstJob
<1>4. /\ Matches(j, j.sends) /\ j.op # "none" /\ j.total = 0
  <2>1. /\ Matches(j, FirstCommand(op, c)) /\ j.op = op /\ j.sends = FirstCommand(op, c)
        /\ j.total = 0
    BY <1>2, FirstMatches
  <2> HIDE DEF j
  <2>2. QED
    BY <1>2, <2>1 DEF DiskOps
<1> HIDE DEF j
<1>5. job'[c] = j /\ \A d \in Clients \ {c} : job'[d] = job[d]
  BY <1>3 DEF DTypes, DiskTypes
<1>6. asking[c].at = "runs"
  BY <1>3 DEF Asking, JobOf
<1>7. Len(Text) \in Nat
  BY DiskAssumption, LenProperties
<1>8. \A d \in Clients : JobOf(d)'
  BY <1>3, <1>4, <1>5, <1>6, <1>7 DEF Asking, JobOf, linkVars
<1>9. \A i \in DOMAIN linbox : linbox[i].type = "SEND" =>
        linbox[i].from # c /\ job'[linbox[i].from] = job[linbox[i].from]
  BY <1>5, <1>6 DEF Asking, DTypes, SendsCommands
<1>10. QED
  BY <1>3, <1>8, <1>9 DEF Asking, linkVars

LEMMA ClientSendsAsking ==
  ASSUME DTypes, Asking, NEW c \in Clients, Sends(c)
  PROVE  Asking'
<1>1. /\ job[c].sends # NoCommand /\ job' = [job EXCEPT ![c].sends = NoCommand]
      /\ asking[c].at = "runs" /\ link' = link
  BY DEF Sends, LinkSend
<1> DEFINE j == [job[c] EXCEPT !.sends = NoCommand]
<1>2. job'[c] = j /\ \A d \in Clients \ {c} : job'[d] = job[d]
  BY <1>1 DEF DTypes, DiskTypes
<1>3. /\ j.op = job[c].op /\ j.path = job[c].path /\ j.sends = NoCommand
      /\ j.total = job[c].total /\ j.data = job[c].data /\ j.old = job[c].old
  BY DEF DTypes, DiskTypes, JobType
<1> HIDE DEF j
<1>4. job[c].op # "none" /\ Matches(j, job[c].sends)
  <2>1. job[c].op # "none" /\ Matches(job[c], job[c].sends)
    BY <1>1 DEF Asking, JobOf
  <2>2. QED
    BY <1>3, <2>1 DEF Matches
<1>5. \A i \in DOMAIN linbox : linbox[i].type = "SEND" =>
        linbox[i].from # c /\ linbox[i].from \in Clients
  BY <1>1 DEF Asking, DTypes, SendsCommands
<1>6. link.client # c
  BY <1>1, LinkAssumption DEF Asking, NoTask
<1>7. ASSUME NEW at, at # "runs", asking'[c].at = at, \A d \in Clients \ {c} : asking'[d] = asking[d]
      PROVE  \A d \in Clients : JobOf(d)'
  BY <1>2, <1>3, <1>4, <1>7 DEF Asking, JobOf
<1>8. link.client # NoTask => link.client \in Clients \ {c} /\ asking[link.client].at = "sends"
  BY <1>6 DEF Asking, DTypes, LinkTypes
<1>9. CASE ~linkUp
  <2>1. asking' = LinkReply(c, Says("(no link)")) /\ linbox' = linbox
    BY <1>9 DEF Sends, LinkSend
  <2> DEFINE words == Says("(no link)")
  <2> HIDE DEF words
  <2>2. /\ asking'[c] = [at |-> "answered", reply |-> words]
        /\ \A d \in Clients \ {c} : asking'[d] = asking[d]
    BY <2>1 DEF LinkReply, DTypes, LinkTypes, words
  <2>3. asking'[c].at = "answered"
    BY <2>2
  <2>4. \A d \in Clients : JobOf(d)'
    BY <1>7, <2>2, <2>3
  <2>5. Posted'
    <3>1. \A i \in DOMAIN linbox' : linbox'[i].type = "SEND" =>
            /\ linbox'[i].from \in Clients \ {c} /\ linbox'[i].from # link.client
            /\ asking[linbox'[i].from].at = "sends"
            /\ Matches(job[linbox'[i].from], linbox'[i].cmd)
      BY <1>5, <2>1 DEF Asking
    <3>2. \A i \in DOMAIN linbox' : linbox'[i].type = "SEND" =>
            /\ asking'[linbox'[i].from].at = "sends"
            /\ link'.client # linbox'[i].from
            /\ Matches(job'[linbox'[i].from], linbox'[i].cmd)
      BY <1>1, <1>2, <2>2, <3>1
    <3>3. \A i, k \in DOMAIN linbox' :
            linbox'[i].type = "SEND" /\ linbox'[k].type = "SEND" /\ linbox'[i].from = linbox'[k].from
              => i = k
      BY <2>1 DEF Asking
    <3>4. QED
      BY <3>2, <3>3 DEF Posted
  <2>6. QED
    BY <1>1, <1>8, <2>2, <2>4, <2>5 DEF Asking, Posted
<1>10. CASE linkUp
  <2> DEFINE m == LinkMsg("SEND", c, <<>>, job[c].sends)
  <2>1. /\ asking' = [asking EXCEPT ![c] = [at |-> "sends", reply |-> <<>>]]
        /\ linbox' = Append(linbox, m)
    BY <1>10 DEF Sends, LinkSend
  <2>2. /\ asking'[c] = [at |-> "sends", reply |-> <<>>]
        /\ \A d \in Clients \ {c} : asking'[d] = asking[d]
    BY <2>1 DEF DTypes, LinkTypes
  <2>3. asking'[c].at = "sends"
    BY <2>2
  <2>4. m \in MessageType /\ m.type = "SEND" /\ m.from = c /\ m.cmd = job[c].sends
    <3>1. job[c].sends \in CommandType
      BY <1>1 DEF DTypes, DiskTypes, JobType
    <3>2. QED
      BY <3>1, MessageTyped DEF LinkMsg
  <2> HIDE DEF m
  <2>5. /\ Len(linbox) \in Nat /\ DOMAIN linbox = 1..Len(linbox)
        /\ \A i \in DOMAIN linbox : linbox'[i] = linbox[i]
        /\ linbox'[Len(linbox) + 1] = m
        /\ \A i \in DOMAIN linbox' : i \in DOMAIN linbox \/ i = Len(linbox) + 1
    BY <2>1, <2>4, AppendFacts DEF DTypes, LinkTypes
  <2>6. \A d \in Clients : JobOf(d)'
    BY <1>7, <2>2, <2>3
  <2>7. \A i \in DOMAIN linbox' : linbox'[i].type = "SEND" =>
          LET d == linbox'[i].from
          IN  asking'[d].at = "sends" /\ link'.client # d /\ Matches(job'[d], linbox'[i].cmd)
    <3>1. \A i \in DOMAIN linbox : linbox[i].type = "SEND" =>
            LET d == linbox[i].from
            IN  asking'[d].at = "sends" /\ link'.client # d /\ Matches(job'[d], linbox[i].cmd)
      BY <1>1, <1>2, <1>5, <2>2 DEF Asking
    <3>2. asking'[c].at = "sends" /\ link'.client # c /\ Matches(job'[c], m.cmd)
      BY <1>1, <1>2, <1>4, <1>6, <2>3, <2>4
    <3>3. QED
      BY <2>4, <2>5, <3>1, <3>2
  <2>8. \A i, k \in DOMAIN linbox' :
          linbox'[i].type = "SEND" /\ linbox'[k].type = "SEND" /\ linbox'[i].from = linbox'[k].from
            => i = k
    BY <1>5, <2>4, <2>5 DEF Asking
  <2>9. QED
    BY <1>1, <1>8, <2>2, <2>6, <2>7, <2>8 DEF Asking
<1>11. QED
  BY <1>9, <1>10

LEMMA AnswerAsking ==
  ASSUME WholeChunks, DTypes, Asking, NEW c \in Clients, AnswerTo(c)
  PROVE  Asking'
<1>1. asking[c].at = "answered" /\ JobOf(c)
  BY AnswerStep DEF Asking
<1>2. /\ UNCHANGED <<link, linbox>> /\ asking' = Resumes(c)
      /\ \/ job' = [job EXCEPT ![c] = NoJob]
         \/ \E cmd \in CommandType, total \in Nat, data \in Seq(STRING) :
              /\ job' = [job EXCEPT ![c] = NextJob(c, cmd, total, data)]
              /\ cmd # NoCommand /\ GoesOnFrom(c, cmd, total, data)
  <2>1. CASE \E ret, data : Returns(c, ret, data)
    BY <2>1 DEF Returns, linkRest
  <2>2. ASSUME NEW cmd \in CommandType, NEW total \in Nat, NEW data \in Seq(STRING), cmd # NoCommand,
               Continues(c, cmd, total, data), GoesOnFrom(c, cmd, total, data)
        PROVE  /\ UNCHANGED <<link, linbox>> /\ asking' = Resumes(c)
               /\ job' = [job EXCEPT ![c] = NextJob(c, cmd, total, data)]
    BY <2>2 DEF Continues, linkRest, NextJob
  <2>3. QED
    BY <1>1, <2>1, <2>2, AnswerTold
<1>3. /\ asking'[c] = [at |-> "runs", reply |-> <<>>]
      /\ \A d \in Clients \ {c} : asking'[d] = asking[d] /\ job'[d] = job[d]
  BY <1>2 DEF Resumes, DTypes, LinkTypes, DiskTypes
<1>4. asking'[c].at = "runs"
  BY <1>3
<1>5. JobOf(c)'
  <2>1. CASE job' = [job EXCEPT ![c] = NoJob]
    <3>1. job'[c] = NoJob /\ NoJob.op = "none" /\ NoJob.sends = NoCommand
      BY <2>1 DEF DTypes, DiskTypes, NoJob
    <3>2. QED
      BY <1>4, <3>1 DEF JobOf
  <2>2. ASSUME NEW cmd \in CommandType, NEW total \in Nat, NEW data \in Seq(STRING), cmd # NoCommand,
               job' = [job EXCEPT ![c] = NextJob(c, cmd, total, data)],
               GoesOnFrom(c, cmd, total, data)
        PROVE  JobOf(c)'
    <3> DEFINE j == NextJob(c, cmd, total, data)
    <3>1. job'[c] = j
      BY <2>2 DEF DTypes, DiskTypes
    <3>2. j.sends = cmd /\ j.op = job[c].op /\ j.total = total /\ j.data = data
      BY DEF NextJob, DTypes, DiskTypes, JobType
    <3>3. job[c].op # "none"
      BY AnswerStep DEF DiskOps
    <3>4. /\ Matches(j, cmd)
          /\ j.op \in {"DiskWrite", "DiskAppend"} => total <= Len(Text) /\ (data = <<>> => total = 0)
      BY <2>2 DEF GoesOnFrom
    <3> HIDE DEF j
    <3>5. QED
      BY <1>4, <3>1, <3>2, <3>3, <3>4 DEF JobOf
  <2>3. QED
    BY <1>2, <2>1, <2>2
<1>6. \A d \in Clients : JobOf(d)'
  BY <1>3, <1>5 DEF Asking, JobOf
<1>7. \A i \in DOMAIN linbox : linbox[i].type = "SEND" =>
        linbox[i].from # c /\ linbox[i].from \in Clients
  BY <1>1 DEF Asking, DTypes, SendsCommands
<1>8. link.client # NoTask => link.client \in Clients \ {c} /\ asking[link.client].at = "sends"
  BY <1>1 DEF Asking, DTypes, LinkTypes
<1>9. Posted'
  BY <1>2, <1>3, <1>7 DEF Asking, Posted
<1>10. QED
  BY <1>2, <1>3, <1>6, <1>8, <1>9 DEF Asking, Posted

LEMMA AskingStep ==
  ASSUME WholeChunks, DTypes, Asking, [DNext]_diskVars
  PROVE  Asking'
<1>1. CASE UNCHANGED diskVars
  BY <1>1, AskingKept DEF diskVars, linkVars
<1>2. ASSUME Link PROVE Asking'
  <2>1. job' = job
    BY <1>2 DEF Link
  <2>2. CASE ServerStarts \/ LineArrives
    BY <2>1, <2>2, AskingKept DEF ServerStarts, LineArrives
  <2>3. CASE LinkTick
    <3>1. link'.client = link.client
      BY <2>3 DEF LinkTick, DTypes, LinkTypes
    <3>2. QED
      BY <2>1, <2>3, <3>1, AskingKept DEF LinkTick
  <2>4. CASE NotifierDrains
    <3> DEFINE m == LinkMsg("RX", "notifier", rxFifo, NoCommand)
    <3>1. m \in MessageType /\ m.type = "RX"
      BY MessageTyped DEF DTypes, LinkTypes, LinkMsg
    <3>2. linbox' = Append(linbox, m) /\ asking' = asking /\ link' = link
      BY <2>4 DEF NotifierDrains
    <3> HIDE DEF m
    <3>3. QED
      BY <2>1, <3>1, <3>2, AskingKept
  <2>5. QED
    BY <1>2, <2>1, <2>2, <2>3, <2>4, ReceivesAsking, SendsAsking DEF Link, LinkStep, LinkServerStep
<1>3. CASE Container
  BY <1>3, AskingKept DEF Container, ContainerServes, ContainerRefuses, ContainerAnswers
<1>4. ASSUME NEW c \in Clients, Call(c) \/ GoesOn(c) PROVE Asking'
  BY <1>4, BeginsAsking, ClientSendsAsking, AnswerAsking DEF GoesOn, AnswerTo
<1>5. QED
  BY <1>1, <1>2, <1>3, <1>4 DEF DNext


-----------------------------------------------------------------------------
(* What is at the path of a client while its call goes on. *)

\* A word that says nothing leaves what was there.
LEMMA ToldNothing ==
  ASSUME NEW j, NEW w, w.word \notin {"OK", "FILE", "DIR", "NOENT"}
  PROVE  Told(j, w, Before(j))
<1>1. w.word # "OK" /\ w.word # "FILE" /\ w.word # "DIR" /\ w.word # "NOENT"
  OBVIOUS
<1>2. QED
  BY <1>1 DEF Told

\* The container's answer tells what it did.
LEMMA OutcomeTold ==
  ASSUME WholeChunks, NEW j \in JobType, j.op \in DiskOps \ {"DiskLs"}, NEW cmd \in CommandType,
         Matches(j, cmd), Before(j) \in AtPath,
         j.op \in {"DiskWrite", "DiskAppend"} => j.total <= Len(Text) /\ (j.data = <<>> => j.total = 0)
  PROVE  \A w \in WordType : Outcome(cmd, Before(j)).line = <<w>> =>
           Told(j, w, Outcome(cmd, Before(j)).at)
<1> DEFINE at == Before(j)
           o == Outcome(cmd, at)
<1> SUFFICES ASSUME NEW w \in WordType, o.line = <<w>>
             PROVE  Told(j, w, o.at)
  OBVIOUS
<1> HIDE DEF at
<1>1. \A x, d, n : o.line = <<Word(x, d, n)>> => w.word = x /\ w.data = d
  <2> SUFFICES ASSUME NEW x, NEW d, NEW n, o.line = <<Word(x, d, n)>>
               PROVE  w.word = x /\ w.data = d
    OBVIOUS
  <2>1. w = Word(x, d, n)
    <3> HIDE DEF o
    <3>1. <<w>>[1] = <<Word(x, d, n)>>[1]
      OBVIOUS
    <3>2. QED
      BY <3>1
  <2>2. QED
    BY <2>1 DEF Word
<1>2. \A x : o.line = Line(x) => w.word = x
  BY <1>1 DEF Line
<1>3. at.kind \in {"none", "file", "dir"} /\ at.data \in Seq(STRING)
  BY DEF AtPath, at
<1>4. CASE j.op = "DiskStat"
  <2>1. cmd.verb = "STAT"
    BY <1>4 DEF Matches
  <2>2. o = [line |-> CASE at.kind = "file" -> <<Word("FILE", at.data, 0)>>
                        [] at.kind = "dir" -> Line("DIR")
                        [] OTHER -> Line("NOENT"),
             at |-> at]
    BY <2>1 DEF Outcome
  <2>3. o.at = at
    BY <2>2
  <2>4. /\ at.kind = "file" => o.line = <<Word("FILE", at.data, 0)>>
        /\ at.kind = "dir" => o.line = Line("DIR")
        /\ at.kind = "none" => o.line = Line("NOENT")
    BY <2>2
  <2> HIDE DEF o
  <2>5. QED
    BY <1>1, <1>2, <1>3, <1>4, <2>3, <2>4 DEF Told
<1>5. CASE j.op = "DiskMkdir"
  <2>1. cmd.verb = "MKDIR" /\ at = j.old
    BY <1>5 DEF Matches, Before, at
  <2>2. CASE at.kind = "none"
    <3>1. o.at.kind = "dir"
      BY <2>1, <2>2 DEF Outcome
    <3>2. QED
      BY <1>5, <2>1, <2>2, <3>1 DEF Told
  <2>3. CASE at.kind # "none"
    <3>1. o.line = Line("ERR")
      BY <2>1, <2>3 DEF Outcome
    <3>2. w.word = "ERR"
      BY <1>2, <3>1
    <3>3. QED
      BY <1>5, <3>2 DEF Told
  <2>4. QED
    BY <2>2, <2>3
<1>6. CASE j.op = "DiskRm"
  <2>1. cmd.verb = "RM"
    BY <1>6 DEF Matches
  <2>2. o.at.kind = "none"
    BY <2>1 DEF Outcome, Absent
  <2>3. QED
    BY <1>6, <2>2 DEF Told
<1>7. CASE j.op = "DiskRead"
  <2>1. cmd.verb = "READ"
    BY <1>7 DEF Matches
  <2>2. o.at = at
    BY <2>1 DEF Outcome
  <2>3. QED
    BY <1>7, <2>2 DEF Told, at
<1>8. CASE j.op \in {"DiskWrite", "DiskAppend"}
  <2> DEFINE total == j.total + Len(Chunk(j.total))
  <2>1. cmd.verb \in {"TRUNC", "WRITE", "APPEND"}
    BY <1>8 DEF Matches
  <2>2. CASE at.kind = "dir"
    <3>1. o.line = Line("ERR") /\ o.at = at
      BY <2>1, <2>2 DEF Outcome
    <3>2. w.word = "ERR"
      BY <1>2, <3>1
    <3>3. QED
      BY <1>8, <3>1, <3>2 DEF Told, at
  <2>3. CASE at.kind # "dir" /\ cmd.verb = "TRUNC"
    <3>1. o.line = Line("OK") /\ o.at = [kind |-> "file", data |-> <<>>]
      BY <2>3 DEF Outcome
    <3>2. w.word = "OK"
      BY <1>2, <3>1
    <3>3. j.op = "DiskWrite" /\ j.data = <<>>
      BY <1>8, <2>3 DEF Matches
    <3>4. After(j) = [kind |-> "file", data |-> <<>>]
      BY <3>3 DEF After
    <3>5. QED
      BY <1>8, <3>1, <3>2, <3>4 DEF Told
  <2>4. CASE at.kind # "dir" /\ cmd.verb # "TRUNC"
    <3>1. cmd.verb \in {"WRITE", "APPEND"} /\ cmd.data = Chunk(j.total)
      BY <2>1, <2>4 DEF Matches
    <3>2. o.line = Line("OK") /\ o.at = [kind |-> "file", data |-> at.data \o Chunk(j.total)]
      BY <2>4, <3>1 DEF Outcome
    <3>3. w.word = "OK"
      BY <1>2, <3>2
    <3>4. /\ SubSeq(Text, 1, j.total) \o Chunk(j.total) = SubSeq(Text, 1, total)
          /\ SubSeq(Text, 1, j.total) \in Seq(STRING) /\ Chunk(j.total) \in Seq(STRING)
          /\ j.total \in Nat
      <4>1. j.total \in Nat
        BY DEF JobType
      <4>2. QED
        BY <1>8, <4>1, ChunkIs
    <3>5. j.total = 0 => SubSeq(Text, 1, total) = Chunk(j.total)
      <4> SUFFICES ASSUME j.total = 0 PROVE SubSeq(Text, 1, total) = Chunk(j.total)
        OBVIOUS
      <4>1. SubSeq(Text, 1, 0) = <<>>
        BY DiskAssumption, EmptySeq, SubSeqProperties
      <4>2. <<>> \o Chunk(j.total) = Chunk(j.total)
        BY <3>4, ConcatEmptySeq
      <4>3. QED
        BY <3>4, <4>1, <4>2
    <3>6. CASE j.op = "DiskWrite"
      <4>1. j.data # <<>>
        BY <2>4, <3>6 DEF Matches
      <4>2. at.data = SubSeq(Text, 1, j.total)
        BY <3>6, <4>1 DEF Before, at
      <4>3. After(j) = [kind |-> "file", data |-> SubSeq(Text, 1, total)]
        BY <3>6, <4>1 DEF After
      <4>4. QED
        BY <1>8, <3>2, <3>3, <3>4, <4>2, <4>3 DEF Told
    <3>7. CASE j.op = "DiskAppend"
      <4>1. After(j) = [kind |-> "file", data |-> j.old.data \o SubSeq(Text, 1, total)]
        BY <3>7 DEF After
      <4>2. CASE j.total = 0
        <5>1. at = j.old
          BY <3>7, <4>2 DEF Before, at
        <5>2. QED
          BY <1>8, <3>2, <3>3, <3>5, <4>1, <4>2, <5>1 DEF Told
      <4>3. CASE j.total # 0
        <5>1. at.data = j.old.data \o SubSeq(Text, 1, j.total)
          BY <3>7, <4>3 DEF Before, at
        <5>2. j.old.data \in Seq(STRING)
          BY DEF JobType, AtPath
        <5>3. at.data \o Chunk(j.total) = j.old.data \o SubSeq(Text, 1, total)
          <6>1. \A a, b, x \in Seq(STRING) : (a \o b) \o x = a \o (b \o x)
            BY ConcatAssociative
          <6>2. (j.old.data \o SubSeq(Text, 1, j.total)) \o Chunk(j.total)
                  = j.old.data \o (SubSeq(Text, 1, j.total) \o Chunk(j.total))
            BY <3>4, <5>2, <6>1
          <6>3. QED
            BY <3>4, <5>1, <6>2
        <5>4. QED
          BY <1>8, <3>2, <3>3, <4>1, <5>3 DEF Told
      <4>4. QED
        BY <4>2, <4>3
    <3>8. QED
      BY <1>8, <3>6, <3>7
  <2>5. QED
    BY <2>2, <2>3, <2>4
<1>9. QED
  BY <1>4, <1>5, <1>6, <1>7, <1>8 DEF DiskOps

\* A client whose call the step leaves alone, as the server does with it.
LEMMA TruthLeft ==
  ASSUME NEW c \in Clients, Truth(c), link.client # c, link'.client # c,
         job'[c] = job[c], disk'[c] = disk[c], asking'[c] = asking[c]
  PROVE  Truth(c)'
BY DEF Truth, OneWord

\* A client whose command is under way, when the line only moves.
LEMMA TruthMoves ==
  ASSUME NEW c \in Clients, Truth(c), link.client = c, link'.client = c, asking[c].at = "sends",
         job'[c] = job[c], disk'[c] = disk[c], asking'[c] = asking[c],
         commands' = commands,
         link.line = <<>> => link'.line = <<>>,
         commands = <<>> => \A w \in WordType : w.word # "\n" /\ Comes(w) => Comes(w)'
  PROVE  Truth(c)'
<1> SUFFICES ASSUME job'[c].op # "none" PROVE Truth(c)'
  BY DEF Truth
<1>1. CASE commands # <<>>
  <2>1. disk[c] = Before(job[c]) /\ Matches(job[c], commands[1].cmd) /\ link.line = <<>>
    BY <1>1 DEF Truth
  <2>2. commands'[1] = commands[1]
    OBVIOUS
  <2>3. QED
    BY <1>1, <2>1, <2>2 DEF Truth
<1>2. CASE commands = <<>>
  <2>1. ASSUME OneWord(c)
        PROVE  /\ link'.line = <<>>
               /\ \E w \in WordType : w.word # "\n" /\ Told(job[c], w, disk[c]) /\ Comes(w)'
    <3>1. /\ link.line = <<>>
          /\ \E w \in WordType : w.word # "\n" /\ Told(job[c], w, disk[c]) /\ Comes(w)
      BY <1>2, <2>1 DEF Truth
    <3>2. QED
      BY <1>2, <3>1
  <2>2. OneWord(c)' <=> OneWord(c)
    BY DEF OneWord
  <2>3. asking'[c].at = "sends"
    OBVIOUS
  <2>4. QED
    BY <1>2, <2>1, <2>2, <2>3 DEF Truth
<1>3. QED
  BY <1>1, <1>2

Truths == late = {} => \A c \in Clients : Truth(c)

\* What all steps keep, in short.
Held == DTypes /\ OwnLine /\ Asking /\ Truths

\* The client of a busy server waits in a call.
LEMMA ClientWaits ==
  ASSUME DTypes, Asking, link.client # NoTask
  PROVE  LET c == link.client
         IN  c \in Clients /\ asking[c].at = "sends" /\ job[c].op \in DiskOps /\ job[c].path = c
<1> DEFINE c == link.client
<1>1. c \in Clients /\ asking[c].at = "sends"
  BY DEF Asking, DTypes, LinkTypes
<1> HIDE DEF c
<1>2. job[c].op # "none"
  BY <1>1 DEF Asking, JobOf
<1>3. job[c] \in JobType /\ job[c].path = c
  BY <1>1, <1>2 DEF DTypes, DiskTypes
<1>4. job[c].op \in DiskOps
  BY <1>2, <1>3 DEF JobType
<1>5. QED
  BY <1>1, <1>3, <1>4 DEF c

LEMMA ReceivesTruth ==
  ASSUME Held, ServerReceives, UNCHANGED <<disk, job, result, made>>
  PROVE  Truths'
<1> SUFFICES ASSUME late' = {} PROVE \A d \in Clients : Truth(d)'
  BY DEF Truths
<1> DEFINE words == Head(linbox).words
           answered == link.client # NoTask /\ LineEnds(words) # {}
           gaveUp == link.client # NoTask /\ ~answered /\ link.deadline = 0
<1>1. /\ linbox # <<>> /\ Head(linbox).type = "RX" /\ linbox' = Tail(linbox)
      /\ UNCHANGED <<rxFifo, commands, answering>>
  BY DEF ServerReceives, container
<1>2. ~gaveUp /\ late = {}
  <2>1. late' = IF gaveUp THEN late \cup {link.sent} ELSE late
    BY DEF ServerReceives
  <2>2. QED
    BY <2>1
<1>3. /\ link'.client = IF answered THEN NoTask ELSE link.client
      /\ link'.line = LineAfter(words)
      /\ asking' = IF answered THEN LinkReply(link.client, FirstLine(words)) ELSE asking
  <2>1. link' = [link EXCEPT !.client = IF answered THEN NoTask ELSE @, !.line = LineAfter(words)]
    BY <1>2 DEF ServerReceives
  <2>2. asking' = IF answered THEN LinkReply(link.client, FirstLine(words)) ELSE asking
    BY <1>2 DEF ServerReceives
  <2>3. QED
    BY <2>1, <2>2 DEF DTypes, LinkTypes
<1>4. Waiting = words /\ Waiting' = <<>> /\ words \in Seq(WordType)
  <2>1. linbox \in Seq(MessageType) /\ OneRx(linbox)
    BY DEF Held, DTypes, LinkTypes
  <2>2. RxOf(linbox) = words /\ RxOf(Tail(linbox)) = <<>> /\ RxOf(linbox) \in Seq(WordType)
    BY <1>1, <2>1, RxLeaves, RxIs
  <2>3. QED
    BY <1>1, <2>2 DEF Waiting
<1>5. link.line \in Seq(WordType) /\ NoTask \notin Clients
  BY LinkAssumption DEF Held, DTypes, LinkTypes, NoTask
<1> HIDE DEF words
<1>6. \A d \in Clients : Truth(d)
  BY <1>2 DEF Held, Truths
<1>7. CASE link.client = NoTask
  <2>1. link'.client = NoTask /\ asking' = asking
    BY <1>3, <1>7
  <2>2. QED
    BY <1>5, <1>6, <1>7, <2>1, TruthLeft
<1>8. CASE link.client # NoTask
  <2>1. PICK c \in Clients : link.client = c /\ asking[c].at = "sends" /\ job[c].op \in DiskOps
    BY <1>8, ClientWaits DEF Held
  <2>2. OnWay
    BY <1>2 DEF Held, OwnLine
  <2>3. commands # <<>> => Waiting = <<>>
    BY <1>8, <2>2, Zenon DEF OnWay
  <2>4. LineEnds(<<>>) = {}
    BY DEF LineEnds
  <2>5. CASE answered
    <3>1. commands = <<>>
      BY <1>4, <2>3, <2>4, <2>5
    <3>2. link'.client = NoTask /\ asking' = LinkReply(c, FirstLine(words))
      BY <1>3, <2>1, <2>5
    <3>3. /\ asking'[c] = [at |-> "answered", reply |-> FirstLine(words)]
          /\ \A d \in Clients \ {c} : asking'[d] = asking[d]
      BY <2>1, <3>2 DEF LinkReply, Held, DTypes, LinkTypes
    <3>4. \A d \in Clients \ {c} : Truth(d)'
      BY <1>5, <1>6, <2>1, <3>2, <3>3, TruthLeft
    <3>5. ASSUME OneWord(c)
          PROVE  \E w \in WordType : asking'[c].reply = <<w>> /\ Told(job[c], w, disk[c])
      <4>1. link.line = <<>>
        BY <1>6, <2>1, <3>1, <3>5 DEF Truth, DiskOps
      <4>2. PICK w \in WordType : w.word # "\n" /\ Told(job[c], w, disk[c]) /\ Comes(w)
        BY <1>6, <2>1, <3>1, <3>5 DEF Truth, DiskOps
      <4>3. words = <<w, NewLine>>
        BY <1>4, <2>4, <2>5, <4>2 DEF Comes
      <4>4. Ends(words)
        BY <4>2, <4>3 DEF Ends, NewLine, Word
      <4>5. FirstLine(words) = <<w>>
        BY <1>4, <1>5, <4>1, <4>2, <4>3, <4>4, LineEnded
      <4>6. QED
        BY <3>3, <4>2, <4>5
    <3>6. Truth(c)'
      <4>1. asking'[c].at = "answered" /\ link'.client # c
        BY <1>5, <2>1, <3>2, <3>3
      <4>2. QED
        BY <3>5, <4>1 DEF Truth, OneWord
    <3>7. QED
      BY <3>4, <3>6
  <2>6. CASE ~answered
    <3>1. link'.client = c /\ asking' = asking /\ LineEnds(words) = {}
      BY <1>3, <1>8, <2>1, <2>6
    <3>2. \A d \in Clients \ {c} : Truth(d)'
      BY <1>6, <2>1, <3>1, TruthLeft
    <3>3. ASSUME link.line = <<>>, job[c].op # "DiskLs" \/ commands # <<>>
          PROVE  words = <<>>
      <4>1. CASE commands # <<>>
        BY <1>4, <2>3, <4>1
      <4>2. CASE commands = <<>>
        <5>1. PICK w \in WordType : w.word # "\n" /\ Comes(w)
          BY <1>6, <2>1, <3>3, <4>2 DEF Truth, OneWord, DiskOps
        <5>2. words = <<w, NewLine>> \/ words = <<>>
          BY <1>4, <5>1 DEF Comes
        <5>3. words # <<w, NewLine>>
          <6>1. ASSUME words = <<w, NewLine>> PROVE 2 \in LineEnds(words)
            BY <6>1 DEF LineEnds, NewLine, Word
          <6>2. QED
            BY <3>1, <6>1
        <5>4. QED
          BY <5>2, <5>3
      <4>3. QED
        BY <4>1, <4>2
    <3>4. words = <<>> /\ link.line = <<>> => LineAfter(words) = <<>>
      BY <1>4, <1>5, <3>1, LineReceived
    <3>5. CASE job[c].op # "DiskLs" \/ commands # <<>>
      <4>1. link.line = <<>> => words = <<>> /\ link'.line = <<>>
        BY <1>3, <3>3, <3>4, <3>5
      <4>2. link.line = <<>>
        BY <1>6, <2>1, <3>5 DEF Truth, OneWord, DiskOps
      <4>3. \A w \in WordType : Comes(w) => Comes(w)'
        BY <1>1, <1>4, <4>1, <4>2 DEF Comes
      <4>4. Truth(c)'
        BY <1>1, <1>6, <2>1, <3>1, <4>1, <4>3, TruthMoves
      <4>5. QED
        BY <3>2, <4>4
    <3>6. CASE job[c].op = "DiskLs" /\ commands = <<>>
      <4>1. Truth(c)'
        BY <1>1, <2>1, <3>1, <3>6 DEF Truth, OneWord
      <4>2. QED
        BY <3>2, <4>1
    <3>7. QED
      BY <3>5, <3>6
  <2>7. QED
    BY <2>5, <2>6
<1>9. QED
  BY <1>7, <1>8

LEMMA ServerSendsTruth ==
  ASSUME Held, ServerSends, UNCHANGED <<disk, job, result, made>>
  PROVE  Truths'
<1> SUFFICES ASSUME late' = {} PROVE \A d \in Clients : Truth(d)'
  BY DEF Truths
<1> DEFINE m == Head(linbox)
<1>1. /\ linbox # <<>> /\ m.type = "SEND" /\ linbox' = Tail(linbox)
      /\ UNCHANGED <<rxFifo, answering>> /\ late = {}
  BY DEF ServerSends
<1>2. PICK c \in Clients : /\ m.from = c /\ asking[c].at = "sends" /\ link.client # c
                           /\ Matches(job[c], m.cmd)
  BY <1>1, AskingIs, PostLeaves DEF Held
<1>3. Waiting' = Waiting
  <2>1. linbox \in Seq(MessageType) /\ OneRx(linbox) /\ m.type # "RX"
    BY <1>1 DEF Held, DTypes, LinkTypes
  <2>2. RxOf(Tail(linbox)) = RxOf(linbox)
    BY <1>1, <2>1, RxLeaves
  <2>3. QED
    BY <1>1, <2>2 DEF Waiting
<1>4. \A d \in Clients : Truth(d)
  BY <1>1 DEF Held, Truths
<1>5. job[c].op # "none"
  BY <1>2 DEF Held, Asking, JobOf
<1>6. disk[c] = Before(job[c])
  BY <1>2, <1>4, <1>5 DEF Truth
<1>7. CASE link.client # NoTask
  <2> DEFINE w == Word("(busy)", <<>>, 0)
  <2>1. UNCHANGED <<link, commands>> /\ asking' = LinkReply(c, <<w>>)
    BY <1>2, <1>7 DEF ServerSends, Says
  <2>2. w \in WordType /\ w.word = "(busy)"
    <3>1. "(busy)" \in Words /\ <<>> \in Seq(STRING) /\ 0 \in Nat
      BY DEF Words
    <3>2. QED
      BY <3>1, WordTyped
  <2> HIDE DEF w
  <2>3. /\ asking'[c] = [at |-> "answered", reply |-> <<w>>]
        /\ \A d \in Clients \ {c} : asking'[d] = asking[d]
    BY <2>1 DEF LinkReply, Held, DTypes, LinkTypes
  <2>4. Told(job[c], w, disk[c])
    BY <1>6, <2>2, ToldNothing
  <2>5. asking'[c].at = "answered" /\ asking'[c].reply = <<w>> /\ link'.client # c
    BY <1>2, <2>1, <2>3
  <2>6. Truth(c)'
    BY <2>2, <2>4, <2>5 DEF Truth
  <2>7. ASSUME NEW d \in Clients \ {c} PROVE Truth(d)'
    <3>1. CASE link.client # d
      BY <1>4, <2>1, <2>3, <3>1, TruthLeft
    <3>2. CASE link.client = d
      <4>1. asking[d].at = "sends"
        BY <1>7, <3>2 DEF Held, Asking
      <4>2. \A v \in WordType : Comes(v) => Comes(v)'
        BY <1>1, <1>3 DEF Comes
      <4>3. QED
        BY <1>4, <2>1, <2>3, <3>2, <4>1, <4>2, TruthMoves
    <3>3. QED
      BY <3>1, <3>2
  <2>8. QED
    BY <2>6, <2>7
<1>8. CASE link.client = NoTask
  <2>1. /\ link'.client = c /\ link'.line = <<>> /\ asking' = asking
        /\ commands' = Append(commands, [cmd |-> m.cmd, of |-> link.sent + 1])
    BY <1>2, <1>8 DEF ServerSends
  <2>2. commands = <<>>
    BY <1>1, <1>8 DEF Held, OwnLine, OnWay
  <2>3. commands' # <<>> /\ commands'[1].cmd = m.cmd
    BY <2>1, <2>2
  <2>4. Truth(c)'
    BY <1>2, <1>6, <2>1, <2>3 DEF Truth
  <2>5. ASSUME NEW d \in Clients \ {c} PROVE Truth(d)'
    <3>1. link.client # d /\ link'.client # d
      BY <1>8, <2>1, LinkAssumption DEF NoTask
    <3>2. QED
      BY <1>4, <2>1, <3>1, TruthLeft
  <2>6. QED
    BY <2>4, <2>5
<1>9. QED
  BY <1>7, <1>8

\* A line that goes on its way: the notifier takes it, or more of it arrives.
LEMMA LineTruth ==
  ASSUME Held, late' = late, UNCHANGED <<link, commands, asking, disk, job>>,
         commands = <<>> => \A w \in WordType : w.word # "\n" /\ Comes(w) => Comes(w)'
  PROVE  Truths'
<1> SUFFICES ASSUME late' = {}, NEW d \in Clients PROVE Truth(d)'
  BY DEF Truths
<1>1. Truth(d)
  BY DEF Held, Truths
<1>2. CASE link.client # d
  BY <1>1, <1>2, TruthLeft
<1>3. CASE link.client = d
  <2>1. asking[d].at = "sends"
    BY <1>3, LinkAssumption DEF Held, Asking, NoTask
  <2>2. QED
    BY <1>1, <1>3, <2>1, TruthMoves
<1>4. QED
  BY <1>2, <1>3

LEMMA DrainsTruth ==
  ASSUME Held, NotifierDrains, UNCHANGED <<disk, job, result, made>>
  PROVE  Truths'
<1>1. Waiting = <<>> /\ Waiting' = rxFifo
  <2> DEFINE m == LinkMsg("RX", "notifier", rxFifo, NoCommand)
  <2>1. m \in MessageType /\ m.type = "RX" /\ m.words = rxFifo
    <3>1. rxFifo \in Seq(WordType)
      BY DEF Held, DTypes, LinkTypes
    <3>2. QED
      BY <3>1, MessageTyped DEF LinkMsg
  <2> HIDE DEF m
  <2>2. linbox' = Append(linbox, m) /\ lnotif = "drains"
    BY DEF NotifierDrains, m
  <2>3. linbox \in Seq(MessageType) /\ OneRx(linbox) /\ NoRx(linbox)
    BY <2>2 DEF Held, DTypes, LinkTypes, NotifierWaits, NoRx
  <2>4. RxOf(linbox) = <<>> /\ RxOf(Append(linbox, m)) = m.words
    BY <2>1, <2>3, RxIs, RxJoins
  <2>5. QED
    BY <2>1, <2>2, <2>4 DEF Waiting
<1>2. rxFifo' = <<>> /\ UNCHANGED <<link, commands, answering, asking, late>>
  BY DEF NotifierDrains
<1>3. \A w \in WordType : Comes(w) => Comes(w)'
  BY <1>1, <1>2 DEF Comes
<1>4. QED
  BY <1>2, <1>3, LineTruth

LEMMA ArrivesTruth ==
  ASSUME Held, LineArrives, UNCHANGED <<disk, job, result, made>>
  PROVE  Truths'
<1> DEFINE n == IF Len(answering) = 2 THEN 2 ELSE 1
<1>1. /\ answering # <<>>
      /\ rxFifo' = rxFifo \o SubSeq(answering, 1, n)
      /\ answering' = SubSeq(answering, n + 1, Len(answering))
      /\ UNCHANGED <<linbox, link, commands, asking, late>>
  BY DEF LineArrives
<1>2. rxFifo \in Seq(WordType) /\ answering \in Seq(WordType) /\ Waiting' = Waiting
  BY <1>1 DEF Held, DTypes, LinkTypes, Waiting
<1>3. Len(answering) = 2 => answering' = <<>> /\ (rxFifo = <<>> => rxFifo' = answering)
  BY <1>1, <1>2, LineMoves
<1>4. ASSUME NEW w \in WordType, Comes(w) PROVE Comes(w)'
  <2>1. Waiting = <<>> /\ rxFifo = <<>> /\ answering = <<w, NewLine>>
    BY <1>1, <1>4 DEF Comes
  <2>2. Len(answering) = 2
    BY <2>1
  <2>3. QED
    BY <1>2, <1>3, <2>1, <2>2 DEF Comes
<1>5. QED
  BY <1>1, <1>4, LineTruth

\* The container's line starts on its way.
LEMMA AnswersTruth ==
  ASSUME Held, NEW words \in Seq(WordType), Clean(words), ContainerAnswers(words), job' = job,
         NEW at, disk' = [disk EXCEPT ![commands[1].cmd.path] = at],
         \A c \in Clients :
           link.client = c /\ job[c].op \in DiskOps \ {"DiskLs"} /\ Matches(job[c], commands[1].cmd)
             /\ disk[c] = Before(job[c]) =>
               \E w \in WordType : words = <<w>> /\ w.word # "\n" /\ Told(job[c], w, at)
  PROVE  Truths'
<1> SUFFICES ASSUME late' = {} PROVE \A d \in Clients : Truth(d)'
  BY DEF Truths
<1>1. /\ UNCHANGED <<link, linbox, rxFifo, asking, late>>
      /\ commands # <<>> /\ commands' = Tail(commands) /\ Head(commands).of \in Nat
      /\ answering' = Marked(words, Head(commands).of)
  BY AnswersTypes DEF Held, ContainerAnswers
<1>2. OnWay
  BY <1>1 DEF Held, OwnLine
<1>3. link.client # NoTask
  BY <1>1, <1>2, Zenon DEF OnWay
<1>4. commands' = <<>> /\ Waiting = <<>> /\ rxFifo = <<>>
  <2>1. (\E m \in SentType : commands = <<m>>) /\ Waiting = <<>> /\ rxFifo = <<>>
    BY <1>1, <1>2, <1>3, Zenon DEF OnWay
  <2>2. QED
    BY <1>1, <2>1
<1>5. PICK c \in Clients : /\ link.client = c /\ asking[c].at = "sends" /\ job[c].op \in DiskOps
                           /\ job[c].path = c
  BY <1>3, ClientWaits DEF Held
<1>6. \A d \in Clients : Truth(d)
  BY <1>1 DEF Held, Truths
<1>7. disk[c] = Before(job[c]) /\ Matches(job[c], commands[1].cmd)
  BY <1>1, <1>5, <1>6 DEF Truth, DiskOps
<1>8. commands[1].cmd.path = c
  BY <1>5, <1>7 DEF Matches
<1>9. disk'[c] = at /\ \A d \in Clients \ {c} : disk'[d] = disk[d]
  BY <1>8 DEF Held, DTypes, DiskTypes
<1>10. \A d \in Clients \ {c} : Truth(d)'
  BY <1>1, <1>5, <1>6, <1>9, TruthLeft
<1>11. ASSUME OneWord(c)
       PROVE  /\ link.line = <<>>
              /\ \E w \in WordType : w.word # "\n" /\ Told(job[c], w, at) /\ Comes(w)'
  <2>1. PICK w \in WordType : words = <<w>> /\ w.word # "\n" /\ Told(job[c], w, at)
    BY <1>5, <1>7, <1>11 DEF OneWord
  <2>2. PICK v \in WordType : answering' = <<v, NewLine>> /\ v.word = w.word /\ v.data = w.data
    <3> DEFINE v == [w EXCEPT !.of = Head(commands).of]
    <3>1. answering' = <<v, NewLine>>
      BY <1>1, <2>1, LineStarts
    <3>2. v \in WordType /\ v.word = w.word /\ v.data = w.data
      BY <1>1 DEF WordType
    <3> HIDE DEF v
    <3>3. QED
      BY <3>1, <3>2
  <2>3. v \in WordType /\ v.word = w.word /\ v.data = w.data
    BY <2>2
  <2>4. Told(job[c], v, at)
    BY <2>1, <2>3 DEF Told
  <2>5. Comes(v)'
    <3>1. Waiting' = <<>> /\ rxFifo' = <<>> /\ answering' = <<v, NewLine>>
      BY <1>1, <1>4, <2>2 DEF Waiting
    <3>2. QED
      BY <3>1 DEF Comes
  <2>6. link.line = <<>>
    BY <1>1, <1>5, <1>6 DEF Truth, DiskOps
  <2>7. QED
    BY <2>1, <2>3, <2>4, <2>5, <2>6
<1>12. Truth(c)'
  <2>1. asking'[c].at = "sends" /\ link'.client = c /\ link'.line = link.line
    BY <1>1, <1>5
  <2>2. OneWord(c)' <=> OneWord(c)
    BY DEF OneWord
  <2>3. QED
    BY <1>4, <1>9, <1>11, <2>1, <2>2 DEF Truth
<1>13. QED
  BY <1>10, <1>12

LEMMA ContainerTruth ==
  ASSUME WholeChunks, Held, Container
  PROVE  Truths'
<1>1. CASE ContainerServes
  <2> DEFINE cmd == commands[1].cmd
             at == disk[cmd.path]
             o == Outcome(cmd, at)
  <2>1. /\ commands # <<>> /\ Head(commands) = commands[1]
        /\ ContainerAnswers(o.line) /\ job' = job
        /\ disk' = [disk EXCEPT ![cmd.path] = o.at]
    <3>1. Head(commands) = commands[1]
      BY <1>1 DEF ContainerServes, Held, DTypes, LinkTypes
    <3>2. QED
      BY <1>1, <3>1 DEF ContainerServes
  <2>2. cmd \in CommandType
    <3>1. commands \in Seq(SentType) /\ 1 \in DOMAIN commands
      BY <2>1, LenProperties, EmptySeq DEF Held, DTypes, LinkTypes
    <3>2. commands[1] \in SentType
      BY <3>1, ElementOfSeq, LenProperties
    <3>3. QED
      BY <3>2 DEF SentType
  <2>3. cmd.path \in Clients
    BY <2>2 DEF CommandType
  <2>4. at \in AtPath /\ NamesAreWords(at)
    BY <2>3 DEF Held, DTypes, DiskTypes
  <2> HIDE DEF cmd, at
  <2>5. /\ o.line \in Seq(WordType) /\ Clean(o.line)
        /\ cmd.verb # "LS" => \E w \in WordType : o.line = <<w>> /\ w.word # "\n"
    BY <2>2, <2>4, OutcomeIs
  <2> HIDE DEF o
  <2>6. ASSUME NEW c \in Clients, job[c].op \in DiskOps \ {"DiskLs"}, Matches(job[c], cmd),
               disk[c] = Before(job[c])
        PROVE  \E w \in WordType : o.line = <<w>> /\ w.word # "\n" /\ Told(job[c], w, o.at)
    <3> DEFINE j == job[c]
    <3>1. j \in JobType /\ j.path = c
      BY <2>6 DEF Held, DTypes, DiskTypes, DiskOps
    <3>2. j.op \in {"DiskWrite", "DiskAppend"} => j.total <= Len(Text) /\ (j.data = <<>> => j.total = 0)
      BY DEF Held, Asking, JobOf
    <3>3. cmd.path = c /\ cmd.verb # "LS"
      BY <2>6, <3>1 DEF Matches, DiskOps
    <3>4. at = Before(j)
      BY <2>6, <3>3 DEF at
    <3>5. PICK w \in WordType : o.line = <<w>> /\ w.word # "\n"
      BY <2>5, <3>3
    <3> HIDE DEF j
    <3>6. \A v \in WordType : Outcome(cmd, Before(j)).line = <<v>> =>
             Told(j, v, Outcome(cmd, Before(j)).at)
      BY <2>2, <2>4, <2>6, <3>1, <3>2, <3>4, OutcomeTold DEF j
    <3>7. Told(j, w, o.at)
      BY <3>4, <3>5, <3>6 DEF o
    <3>8. QED
      BY <3>5, <3>7 DEF j
  <2>7. QED
    BY <2>1, <2>5, <2>6, AnswersTruth DEF cmd
<1>2. CASE ContainerRefuses
  <2> DEFINE w == Word("ERR", <<>>, 0)
             at == disk[commands[1].cmd.path]
  <2>1. ContainerAnswers(<<w>>) /\ job' = job /\ disk' = disk
    BY <1>2 DEF ContainerRefuses, Line
  <2>2. w \in WordType /\ w.word = "ERR" /\ w.word # "\n"
    <3>1. "ERR" \in Words /\ <<>> \in Seq(STRING) /\ 0 \in Nat
      BY DEF Words
    <3>2. w \in WordType /\ w.word = "ERR"
      BY <3>1, WordTyped
    <3>3. QED
      BY <3>2
  <2> HIDE DEF w, at
  <2>3. <<w>> \in Seq(WordType) /\ Clean(<<w>>)
    BY <2>2, OneWordLine
  <2>4. disk' = [disk EXCEPT ![commands[1].cmd.path] = at]
    BY <2>1 DEF at, Held, DTypes, DiskTypes
  <2>5. ASSUME NEW c \in Clients, job[c].op \in DiskOps \ {"DiskLs"},
               Matches(job[c], commands[1].cmd), disk[c] = Before(job[c])
        PROVE  \E v \in WordType : <<w>> = <<v>> /\ v.word # "\n" /\ Told(job[c], v, at)
    <3>1. job[c].path = c
      BY <2>5 DEF Held, DTypes, DiskTypes, DiskOps
    <3>2. at = Before(job[c])
      BY <2>5, <3>1 DEF at, Matches
    <3>3. Told(job[c], w, at)
      BY <2>2, <3>2, ToldNothing
    <3>4. QED
      BY <2>2, <3>3
  <2>6. QED
    BY <2>1, <2>3, <2>4, <2>5, AnswersTruth
<1>3. QED
  BY <1>1, <1>2 DEF Container

LEMMA BeginsTruth ==
  ASSUME WholeChunks, Held, NEW c \in Clients, Call(c)
  PROVE  Truths'
<1> SUFFICES ASSUME late' = {} PROVE \A d \in Clients : Truth(d)'
  BY DEF Truths
<1>1. PICK op \in Calls[c] : Begins(c, op, c)
  BY DEF Call
<1>2. op \in DiskOps
  BY DiskAssumption
<1>3. /\ job[c].op = "none" /\ job' = [job EXCEPT ![c] = FirstJob(op, c, disk[c])]
      /\ UNCHANGED linkVars /\ disk' = disk
  BY <1>1 DEF Begins, FirstJob
<1>4. Before(FirstJob(op, c, disk[c])) = disk[c]
  BY <1>2, FirstMatches
<1>5. /\ Before(job'[c]) = disk[c]
      /\ \A d \in Clients \ {c} : job'[d] = job[d]
  BY <1>3, <1>4 DEF Held, DTypes, DiskTypes
<1>6. asking[c].at = "runs" /\ link.client # c
  BY <1>3, LinkAssumption DEF Held, Asking, JobOf, NoTask
<1>7. UNCHANGED <<link, asking, late, commands, linbox, rxFifo, answering>>
  BY <1>3 DEF linkVars
<1>8. \A d \in Clients : Truth(d)
  BY <1>7 DEF Held, Truths
<1>9. Truth(c)'
  BY <1>3, <1>5, <1>6, <1>7 DEF Truth
<1>10. ASSUME NEW d \in Clients \ {c} PROVE Truth(d)'
  <2>1. CASE link.client # d
    BY <1>3, <1>5, <1>7, <1>8, <2>1, TruthLeft
  <2>2. CASE link.client = d
    <3>1. asking[d].at = "sends"
      BY <2>2, LinkAssumption DEF Held, Asking, NoTask
    <3>2. \A w \in WordType : Comes(w) => Comes(w)'
      BY <1>7 DEF Comes, Waiting
    <3>3. QED
      BY <1>3, <1>5, <1>7, <1>8, <2>2, <3>1, <3>2, TruthMoves
  <2>3. QED
    BY <2>1, <2>2
<1>11. QED
  BY <1>9, <1>10

LEMMA ClientSendsTruth ==
  ASSUME Held, NEW c \in Clients, Sends(c)
  PROVE  Truths'
<1> SUFFICES ASSUME late' = {} PROVE \A d \in Clients : Truth(d)'
  BY DEF Truths
<1>1. /\ job[c].sends # NoCommand /\ job' = [job EXCEPT ![c].sends = NoCommand]
      /\ asking[c].at = "runs" /\ disk' = disk
      /\ UNCHANGED <<link, late, commands, rxFifo, answering>>
  BY DEF Sends, LinkSend, container
<1>2. link.client # c
  BY <1>1, LinkAssumption DEF Held, Asking, NoTask
<1>3. \A d \in Clients : Truth(d)
  BY <1>1 DEF Held, Truths
<1>4. job[c].op # "none"
  BY <1>1 DEF Held, Asking, JobOf
<1>5. disk[c] = Before(job[c])
  BY <1>1, <1>3, <1>4 DEF Truth
<1>6. /\ Before(job'[c]) = Before(job[c])
      /\ \A d \in Clients \ {c} : job'[d] = job[d]
  <2> DEFINE j == [job[c] EXCEPT !.sends = NoCommand]
  <2>1. job'[c] = j /\ \A d \in Clients \ {c} : job'[d] = job[d]
    BY <1>1 DEF Held, DTypes, DiskTypes
  <2>2. j.op = job[c].op /\ j.total = job[c].total /\ j.data = job[c].data /\ j.old = job[c].old
    BY DEF Held, DTypes, DiskTypes, JobType
  <2> HIDE DEF j
  <2>3. Before(j) = Before(job[c])
    BY <2>2 DEF Before
  <2>4. QED
    BY <2>1, <2>3
<1>7. Waiting' = Waiting
  <2>1. CASE ~linkUp
    BY <2>1 DEF Sends, LinkSend, Waiting
  <2>2. CASE linkUp
    <3> DEFINE m == LinkMsg("SEND", c, <<>>, job[c].sends)
    <3>1. m \in MessageType /\ m.type # "RX"
      <4>1. job[c].sends \in CommandType
        BY <1>1 DEF Held, DTypes, DiskTypes, JobType
      <4>2. m \in MessageType
        BY <4>1, MessageTyped
      <4>3. QED
        BY <4>2 DEF LinkMsg
    <3>2. linbox' = Append(linbox, m)
      BY <2>2 DEF Sends, LinkSend
    <3> HIDE DEF m
    <3>3. RxOf(Append(linbox, m)) = RxOf(linbox)
      BY <3>1, RxJoins DEF Held, DTypes, LinkTypes
    <3>4. QED
      BY <3>2, <3>3 DEF Waiting
  <2>3. QED
    BY <2>1, <2>2
<1>8. \A d \in Clients \ {c} : asking'[d] = asking[d]
  BY DEF Sends, LinkSend, LinkReply, Held, DTypes, LinkTypes
<1>9. ASSUME NEW d \in Clients \ {c} PROVE Truth(d)'
  <2>1. CASE link.client # d
    BY <1>1, <1>3, <1>6, <1>8, <2>1, TruthLeft
  <2>2. CASE link.client = d
    <3>1. asking[d].at = "sends"
      BY <2>2, LinkAssumption DEF Held, Asking, NoTask
    <3>2. \A w \in WordType : Comes(w) => Comes(w)'
      BY <1>1, <1>7 DEF Comes
    <3>3. QED
      BY <1>1, <1>3, <1>6, <1>8, <2>2, <3>1, <3>2, TruthMoves
  <2>3. QED
    BY <2>1, <2>2
<1>10. Truth(c)'
  <2>1. CASE linkUp
    <3>1. asking'[c] = [at |-> "sends", reply |-> <<>>]
      BY <2>1 DEF Sends, LinkSend, Held, DTypes, LinkTypes
    <3>2. asking'[c].at = "sends"
      BY <3>1
    <3>3. QED
      BY <1>1, <1>2, <1>5, <1>6, <3>2 DEF Truth
  <2>2. CASE ~linkUp
    <3> DEFINE w == Word("(no link)", <<>>, 0)
    <3>1. asking'[c] = [at |-> "answered", reply |-> <<w>>]
      BY <2>2 DEF Sends, LinkSend, LinkReply, Says, Held, DTypes, LinkTypes
    <3>2. w \in WordType /\ w.word = "(no link)"
      <4>1. "(no link)" \in Words /\ <<>> \in Seq(STRING) /\ 0 \in Nat
        BY DEF Words
      <4>2. QED
        BY <4>1, WordTyped
    <3> HIDE DEF w
    <3>3. Told(job'[c], w, disk'[c])
      <4>1. \A j : Told(j, w, Before(j))
        BY <3>2, ToldNothing
      <4>2. QED
        BY <1>1, <1>5, <1>6, <4>1
    <3>4. asking'[c].at = "answered" /\ asking'[c].reply = <<w>>
      BY <3>1
    <3>5. QED
      BY <1>1, <1>2, <3>2, <3>3, <3>4 DEF Truth
  <2>3. QED
    BY <2>1, <2>2
<1>11. QED
  BY <1>9, <1>10

\* A call that answers leaves the other clients alone.
LEMMA OthersLeft ==
  ASSUME Held, late = {}, NEW c \in Clients, asking[c].at = "answered",
         UNCHANGED <<linkRest, commands, answering, disk>>, asking' = Resumes(c),
         \A d \in Clients \ {c} : job'[d] = job[d]
  PROVE  \A d \in Clients \ {c} : Truth(d)'
<1> SUFFICES ASSUME NEW d \in Clients \ {c} PROVE Truth(d)'
  OBVIOUS
<1>1. Truth(d)
  BY DEF Held, Truths
<1>2. asking'[d] = asking[d] /\ job'[d] = job[d]
  BY DEF Resumes, Held, DTypes, LinkTypes
<1>3. UNCHANGED <<link, linbox, rxFifo, commands, answering, disk>>
  BY DEF linkRest
<1>4. CASE link.client # d
  BY <1>1, <1>2, <1>3, <1>4, TruthLeft
<1>5. CASE link.client = d
  <2>1. asking[d].at = "sends"
    BY <1>5, LinkAssumption DEF Held, Asking, NoTask
  <2>2. \A w \in WordType : Comes(w) => Comes(w)'
    BY <1>3 DEF Comes, Waiting
  <2>3. QED
    BY <1>1, <1>2, <1>3, <1>5, <2>1, <2>2, TruthMoves
<1>6. QED
  BY <1>4, <1>5

LEMMA AnswerTruth ==
  ASSUME WholeChunks, Held, NEW c \in Clients, AnswerTo(c)
  PROVE  Truths'
<1>1. asking[c].at = "answered" /\ JobOf(c) /\ job[c].op \in DiskOps
  BY AnswerStep DEF Held, Asking
<1>2. link.client # c
  BY <1>1, LinkAssumption DEF Held, Asking, NoTask
<1>3. CASE \E ret, data : Returns(c, ret, data)
  <2> SUFFICES ASSUME late' = {} PROVE \A d \in Clients : Truth(d)'
    BY DEF Truths
  <2>1. /\ job' = [job EXCEPT ![c] = NoJob] /\ asking' = Resumes(c)
        /\ UNCHANGED <<linkRest, commands, answering, disk>> /\ late = {}
    BY <1>3 DEF Returns, linkRest
  <2>2. job'[c] = NoJob /\ \A d \in Clients \ {c} : job'[d] = job[d]
    BY <2>1 DEF Held, DTypes, DiskTypes
  <2>3. Truth(c)'
    BY <2>2 DEF Truth, NoJob
  <2>4. QED
    BY <1>1, <2>1, <2>2, <2>3, OthersLeft
<1>4. ASSUME OneWord(c), NEW cmd \in CommandType, NEW total \in Nat, NEW data \in Seq(STRING),
             Continues(c, cmd, total, data), GoesOnFrom(c, cmd, total, data)
      PROVE  Truths'
  <2> SUFFICES ASSUME late' = {} PROVE \A d \in Clients : Truth(d)'
    BY DEF Truths
  <2> DEFINE j == NextJob(c, cmd, total, data)
  <2>1. /\ job' = [job EXCEPT ![c] = j] /\ asking' = Resumes(c)
        /\ UNCHANGED <<linkRest, commands, answering, disk>> /\ late = {}
    BY <1>4 DEF Continues, linkRest, NextJob
  <2>2. job'[c] = j /\ \A d \in Clients \ {c} : job'[d] = job[d]
    BY <2>1 DEF Held, DTypes, DiskTypes
  <2>3. PICK w \in WordType : asking[c].reply = <<w>> /\ Told(job[c], w, disk[c])
    BY <1>1, <1>4, <2>1 DEF Held, Truths, Truth, DiskOps
  <2>4. disk[c] = Before(j)
    BY <1>4, <2>3 DEF GoesOnFrom
  <2> HIDE DEF j
  <2>5. asking'[c] = [at |-> "runs", reply |-> <<>>]
    BY <2>1 DEF Resumes, Held, DTypes, LinkTypes
  <2>6. asking'[c].at = "runs" /\ link' = link /\ disk' = disk
    BY <2>1, <2>5 DEF linkRest
  <2>7. Truth(c)'
    BY <1>2, <2>2, <2>4, <2>6 DEF Truth
  <2>8. QED
    BY <1>1, <2>1, <2>2, <2>7, OthersLeft
<1>5. QED
  BY <1>1, <1>3, <1>4, AnswerTold, Zenon DEF Held

LEMMA TruthStep ==
  ASSUME WholeChunks, Held, [DNext]_diskVars
  PROVE  Truths'
<1>1. CASE UNCHANGED diskVars
  <2>1. UNCHANGED <<link, commands, asking, disk, job, late, linbox, rxFifo, answering>>
    BY <1>1 DEF diskVars, linkVars
  <2>2. \A w \in WordType : Comes(w) => Comes(w)'
    BY <2>1 DEF Comes, Waiting
  <2>3. QED
    BY <2>1, <2>2, LineTruth
<1>2. ASSUME Link PROVE Truths'
  <2>1. UNCHANGED <<disk, job, result, made>>
    BY <1>2 DEF Link
  <2>2. CASE ServerStarts
    <3>1. UNCHANGED <<link, commands, asking, late, linbox, rxFifo, answering>>
      BY <2>2 DEF ServerStarts, container
    <3>2. \A w \in WordType : Comes(w) => Comes(w)'
      BY <3>1 DEF Comes, Waiting
    <3>3. QED
      BY <2>1, <3>1, <3>2, LineTruth
  <2>3. CASE LinkTick
    <3> SUFFICES ASSUME late' = {}, NEW d \in Clients PROVE Truth(d)'
      BY DEF Truths
    <3>1. /\ UNCHANGED <<commands, asking, late, linbox, rxFifo, answering>>
          /\ link'.client = link.client /\ link'.line = link.line
      BY <2>3 DEF LinkTick, container, Held, DTypes, LinkTypes
    <3>2. Truth(d)
      BY <3>1 DEF Held, Truths
    <3>3. CASE link.client # d
      BY <2>1, <3>1, <3>2, <3>3, TruthLeft
    <3>4. CASE link.client = d
      <4>1. asking[d].at = "sends"
        BY <3>4, LinkAssumption DEF Held, Asking, NoTask
      <4>2. \A w \in WordType : Comes(w) => Comes(w)'
        BY <3>1 DEF Comes, Waiting
      <4>3. QED
        BY <2>1, <3>1, <3>2, <3>4, <4>1, <4>2, TruthMoves
    <3>5. QED
      BY <3>3, <3>4
  <2>4. QED
    BY <1>2, <2>1, <2>2, <2>3, ReceivesTruth, ServerSendsTruth, DrainsTruth, ArrivesTruth
       DEF Link, LinkStep, LinkServerStep
<1>3. CASE Container
  BY <1>3, ContainerTruth
<1>4. ASSUME NEW c \in Clients, Call(c) \/ GoesOn(c) PROVE Truths'
  BY <1>4, BeginsTruth, ClientSendsTruth, AnswerTruth DEF GoesOn, AnswerTo
<1>5. QED
  BY <1>1, <1>2, <1>3, <1>4 DEF DNext

-----------------------------------------------------------------------------
(* What the last call returned. *)

\* It stays true: its client is in no call, and its path is its client's own.
Results ==
  result # NoResult =>
    /\ result.path \in Clients /\ job[result.path].op = "none"
    /\ late = {} => Telling(result, disk[result.path])

LEMMA ResultsKept ==
  ASSUME Results, result' = result, late' = {} => late = {},
         \A c \in Clients : job[c].op = "none" =>
           job'[c].op = "none" /\ (late' = {} => disk'[c] = disk[c])
  PROVE  Results'
<1> SUFFICES ASSUME result # NoResult
             PROVE  /\ result.path \in Clients /\ job'[result.path].op = "none"
                    /\ late' = {} => Telling(result, disk'[result.path])
  BY DEF Results
<1>1. result.path \in Clients /\ job[result.path].op = "none"
  BY DEF Results
<1>2. ASSUME late' = {} PROVE Telling(result, disk'[result.path])
  <2>1. disk'[result.path] = disk[result.path]
    BY <1>1, <1>2
  <2>2. Telling(result, disk[result.path])
    BY <1>2 DEF Results
  <2>3. QED
    BY <2>1, <2>2
<1>3. QED
  BY <1>1, <1>2

\* The container serves a path whose client is in a call.
LEMMA ContainerResults ==
  ASSUME Held, Results, Container
  PROVE  Results'
<1>1. UNCHANGED <<job, result, late>> /\ commands # <<>>
  BY DEF Container, ContainerServes, ContainerRefuses, ContainerAnswers
<1>2. ASSUME NEW c \in Clients, job[c].op = "none", late = {} PROVE disk'[c] = disk[c]
  <2>1. OnWay
    BY <1>2 DEF Held, OwnLine
  <2>2. link.client # NoTask
    BY <1>1, <2>1, Zenon DEF OnWay
  <2>3. PICK d \in Clients : link.client = d /\ job[d].op # "none" /\ job[d].path = d
    BY <2>2, ClientWaits DEF Held, DiskOps
  <2>4. commands[1].cmd.path = d
    BY <1>1, <1>2, <2>3 DEF Held, Truths, Truth, Matches
  <2>5. Head(commands) = commands[1]
    BY <1>1 DEF Held, DTypes, LinkTypes
  <2>6. CASE ContainerServes
    <3>1. PICK at : disk' = [disk EXCEPT ![d] = at]
      BY <2>4, <2>5, <2>6 DEF ContainerServes
    <3>2. QED
      BY <1>2, <2>3, <3>1 DEF Held, DTypes, DiskTypes
  <2>7. CASE ContainerRefuses
    BY <2>7 DEF ContainerRefuses
  <2>8. QED
    BY <2>6, <2>7 DEF Container
<1>3. QED
  BY <1>1, <1>2, ResultsKept

LEMMA AnswerResults ==
  ASSUME WholeChunks, Held, Results, NEW c \in Clients, AnswerTo(c)
  PROVE  Results'
<1>1. asking[c].at = "answered" /\ JobOf(c) /\ job[c].op \in DiskOps /\ job[c].path = c
  BY AnswerStep DEF Held, Asking
<1>2. ASSUME NEW ret, NEW data, Returns(c, ret, data), TrueReturn(c, ret, data)
      PROVE  Results'
  <2>1. /\ result' = Result(c, ret, data) /\ disk' = disk /\ late' = late
        /\ job' = [job EXCEPT ![c] = NoJob]
    BY <1>2 DEF Returns, Result, linkRest
  <2>2. result'.path = c /\ result'.op = job[c].op
    BY <1>1, <2>1 DEF Result
  <2>3. job'[c].op = "none"
    BY <2>1 DEF Held, DTypes, DiskTypes, NoJob
  <2>4. ASSUME late = {} PROVE Telling(Result(c, ret, data), disk[c])
    <3>1. CASE OneWord(c)
      <4>1. PICK w \in WordType : asking[c].reply = <<w>> /\ Told(job[c], w, disk[c])
        BY <1>1, <2>4, <3>1 DEF Held, Truths, Truth, DiskOps
      <4>2. QED
        BY <1>2, <4>1 DEF TrueReturn, ReturnsTruth
    <3>2. CASE ~OneWord(c)
      BY <3>2 DEF OneWord, Telling, Result
    <3>3. QED
      BY <3>1, <3>2
  <2>5. QED
    BY <2>1, <2>2, <2>3, <2>4 DEF Results
<1>3. ASSUME NEW cmd, NEW total, NEW data, Continues(c, cmd, total, data)
      PROVE  Results'
  <2>1. /\ result' = result /\ disk' = disk /\ late' = late
        /\ \A d \in Clients \ {c} : job'[d] = job[d]
    BY <1>3 DEF Continues, linkRest, Held, DTypes, DiskTypes
  <2>2. job[c].op # "none"
    BY <1>1 DEF DiskOps
  <2>3. \A d \in Clients : job[d].op = "none" => job'[d].op = "none"
    BY <2>1, <2>2
  <2>4. QED
    BY <2>1, <2>3, ResultsKept
<1>4. QED
  BY <1>1, <1>2, <1>3, AnswerTold, Zenon DEF Held

LEMMA ResultsStep ==
  ASSUME WholeChunks, Held, Results, [DNext]_diskVars
  PROVE  Results'
<1>1. CASE UNCHANGED diskVars
  BY <1>1 DEF diskVars, linkVars, Results
<1>2. CASE Link
  <2>1. UNCHANGED <<disk, job, result>>
    BY <1>2 DEF Link
  <2>2. late' = {} => late = {}
    BY <1>2 DEF Link, LinkStep, LinkServerStep, ServerStarts, ServerReceives, ServerSends,
                NotifierDrains, LinkTick, LineArrives
  <2>3. QED
    BY <2>1, <2>2, ResultsKept
<1>3. CASE Container
  BY <1>3, ContainerResults
<1>4. ASSUME NEW c \in Clients, Call(c) PROVE Results'
  BY <1>4 DEF Call, Begins, Results
<1>5. ASSUME NEW c \in Clients, Sends(c) PROVE Results'
  <2>1. result' = result /\ disk' = disk /\ late' = late /\ job' = [job EXCEPT ![c].sends = NoCommand]
    BY <1>5 DEF Sends, LinkSend
  <2>2. \A d \in Clients : job'[d].op = job[d].op
    BY <2>1 DEF Held, DTypes, DiskTypes, JobType
  <2>3. QED
    BY <2>1, <2>2, ResultsKept
<1>6. ASSUME NEW c \in Clients, AnswerTo(c) PROVE Results'
  BY <1>6, AnswerResults
<1>7. QED
  BY <1>1, <1>2, <1>3, <1>4, <1>5, <1>6 DEF DNext, GoesOn, AnswerTo

LEMMA HeldInit == DInit => Held /\ Results
<1> SUFFICES ASSUME DInit PROVE Held /\ Results
  OBVIOUS
<1>1. DTypes /\ OwnLine
  BY TypesInit, OwnInit
<1>2. Asking
  BY DEF DInit, LInit, Asking, JobOf, NoJob
<1>3. Truths
  BY DEF DInit, LInit, Truths, Truth, NoJob
<1>4. Results
  BY DEF DInit, Results
<1>5. QED
  BY <1>1, <1>2, <1>3, <1>4 DEF Held

\* A call tells what it did to its client's file, while no command was given
\* up (diskfs.c, for every file, text, chunk size and schedule): a write that
\* counts all its bytes has stored them in order, one that fails has stored
\* the chunks before the failure, and DiskStat(), DiskMkdir() and DiskRm() tell
\* what is at the path.  The path is short enough for a whole chunk: on
\* a longer one a command is cut, and bytes of it are lost.
THEOREM CallsTruthful == ASSUME WholeChunks PROVE DSpec => []CallsTellTheTruth
<1>1. DInit => Held /\ Results
  BY HeldInit
<1>2. (Held /\ Results) /\ [DNext]_diskVars => (Held /\ Results)'
  BY TypesStep, WayStep, AskingStep, TruthStep, ResultsStep DEF Held
<1>3. Results => CallsTellTheTruth
  BY DEF Results, CallsTellTheTruth, Telling
<1>4. QED
  BY <1>1, <1>2, <1>3, PTL DEF DSpec
==============================================================================
