------------------------------- MODULE DiskFs --------------------------------
(***************************************************************************)
(* Files of the container, by commands over the link (diskfs.c).  Each call *)
(* is a sequence of LinkSend()s; a client does one call after another.     *)
(*                                                                         *)
(* Data are sequences of bytes, and each is two characters of a command;   *)
(* a command is cut at LINK_CMD_MAX.                                       *)
(***************************************************************************)
EXTENDS LinkServer

CONSTANTS
  LINK_CMD_MAX,
  DISKFS_CHUNK,
  PathLen,      \* characters of a path
  Calls,        \* the calls that each client makes
  Text,         \* what a client writes into its file
  BufMax,       \* size of the buffer of DiskRead()
  FirstDisk,    \* what may be at a path in the beginning
  MaxCalls,     \* bound: calls the clients make
  DiskMayFail   \* whether the disk refuses commands

DiskOps == {"DiskStat", "DiskLs", "DiskMkdir", "DiskRm", "DiskRead", "DiskWrite", "DiskAppend"}

\* The data of a file are its bytes, of a directory its names; a name is a word.
ASSUME DiskAssumption ==
  /\ LINK_CMD_MAX \in Nat /\ DISKFS_CHUNK \in Nat \ {0} /\ PathLen \in Nat
  /\ BufMax \in Nat /\ MaxCalls \in Nat
  /\ Text \in Seq(STRING) /\ Calls \in [Clients -> SUBSET DiskOps]
  /\ FirstDisk \subseteq [kind : {"none", "file", "dir"}, data : Seq(STRING)]
  /\ \A at \in FirstDisk : at.kind = "dir" => \A i \in DOMAIN at.data : at.data[i] # "\n"

VARIABLES
  disk,   \* external: what is at each path; that of client c is its own
  job,    \* the call each client is in, how far it got, and what was there before
  result, \* history: what the last call returned
  made    \* history: calls made

diskVars == <<linkVars, disk, job, result, made>>
linkRest == <<linkUp, link, linbox, lnotif, rxFifo, late>>

DISKFS_OK == 0
DISKFS_ERR == -1
DISKFS_NOENT == -2

Absent == [kind |-> "none", data |-> <<>>]
NoJob == [op |-> "none", path |-> "none", sends |-> NoCommand, total |-> 0, data |-> <<>>,
          old |-> Absent]
NoResult == [op |-> "none", path |-> "none", ret |-> 0, data |-> <<>>, old |-> Absent]

DInit ==
  /\ LInit
  /\ disk \in [Clients -> FirstDisk]
  /\ job = [c \in Clients |-> NoJob]
  /\ result = NoResult
  /\ made = 0

-----------------------------------------------------------------------------
(* External: the container's commands. *)

Line(w) == <<Word(w, <<>>, 0)>>
Hex(data) == <<Word("HEX", data, 0)>>

\* The line that answers a command, and what is at the path afterwards.
Outcome(cmd, at) ==
  CASE cmd.verb = "STAT" ->
         [line |-> CASE at.kind = "file" -> <<Word("FILE", at.data, 0)>>
                     [] at.kind = "dir" -> Line("DIR")
                     [] OTHER -> Line("NOENT"),
          at |-> at]
    [] cmd.verb = "LS" ->
         [line |-> CASE at.kind = "dir" -> [i \in DOMAIN at.data |-> Word(at.data[i], <<>>, 0)]
                     [] at.kind = "none" -> Line("NOENT")
                     [] OTHER -> Line("ERR"),
          at |-> at]
    [] cmd.verb = "MKDIR" /\ at.kind = "none" ->
         [line |-> Line("OK"), at |-> [kind |-> "dir", data |-> <<>>]]
    [] cmd.verb = "RM" ->
         [line |-> IF at.kind = "none" THEN Line("NOENT") ELSE Line("OK"), at |-> Absent]
    [] cmd.verb = "READ" /\ at.kind # "dir" ->
         [line |-> CASE at.kind = "none" -> Line("NOENT")
                     [] cmd.off >= Len(at.data) -> Line("EOF")
                     [] OTHER -> Hex(SubSeq(at.data, cmd.off + 1,
                                       Min({cmd.off + DISKFS_CHUNK, Len(at.data)}))),
          at |-> at]
    [] cmd.verb = "TRUNC" /\ at.kind # "dir" ->
         [line |-> Line("OK"), at |-> [kind |-> "file", data |-> <<>>]]
    [] cmd.verb \in {"WRITE", "APPEND"} /\ at.kind # "dir" ->
         [line |-> Line("OK"), at |-> [kind |-> "file", data |-> at.data \o cmd.data]]
    [] OTHER -> [line |-> Line("ERR"), at |-> at]

ContainerServes ==
  /\ commands # <<>>
  /\ LET cmd == Head(commands).cmd
         done == Outcome(cmd, disk[cmd.path])
     IN  ContainerAnswers(done.line) /\ disk' = [disk EXCEPT ![cmd.path] = done.at]
  /\ UNCHANGED <<job, result, made>>

ContainerRefuses ==
  /\ DiskMayFail
  /\ ContainerAnswers(Line("ERR"))
  /\ UNCHANGED <<disk, job, result, made>>

-----------------------------------------------------------------------------
(* The calls.  A call sends its first command; then every answer makes it   *)
(* send the next one, or return.                                           *)

\* build_cmd(), and the writing of commands with data: "FS ", the verb, the
\* path and a blank after each; the command is cut at LINK_CMD_MAX - 1.
CommandRoom(verb) ==
  (LINK_CMD_MAX - 1 - (5 + PathLen + (IF verb = "WRITE" THEN 5 ELSE 6))) \div 2

build_cmd(verb, path, off, data) ==
  [verb |-> verb, path |-> path, off |-> off,
   data |-> SubSeq(data, 1, Min({Len(data), CommandRoom(verb)}))]

\* The chunk of Text(c) that follows the first `total' bytes.
Chunk(total) == SubSeq(Text, total + 1, Min({total + DISKFS_CHUNK, Len(Text)}))

FirstCommand(op, path) ==
  CASE op = "DiskStat" -> build_cmd("STAT", path, 0, <<>>)
    [] op = "DiskLs" -> build_cmd("LS", path, 0, <<>>)
    [] op = "DiskMkdir" -> build_cmd("MKDIR", path, 0, <<>>)
    [] op = "DiskRm" -> build_cmd("RM", path, 0, <<>>)
    [] op = "DiskRead" -> build_cmd("READ", path, 0, <<>>)
    [] op = "DiskWrite" -> build_cmd("TRUNC", path, 0, <<>>)
    [] op = "DiskAppend" -> build_cmd("APPEND", path, 0, Chunk(0))

Begins(c, op, path) ==
  /\ job[c].op = "none" /\ made < MaxCalls
  /\ job' = [job EXCEPT ![c] = [NoJob EXCEPT !.op = op, !.path = path,
                                             !.sends = FirstCommand(op, path),
                                             !.old = disk[path]]]
  /\ made' = made + 1
  /\ result' = NoResult
  /\ UNCHANGED <<linkVars, disk>>

Sends(c) ==
  /\ job[c].sends # NoCommand
  /\ LinkSend(c, job[c].sends)
  /\ job' = [job EXCEPT ![c].sends = NoCommand]
  /\ UNCHANGED <<disk, result, made>>

\* d_starts() of the line that came, and hex_dec(): of what is not
\* hexadecimal it decodes nothing.
Starts(c, w) == asking[c].reply # <<>> /\ Head(asking[c].reply).word = w
hex_dec(c) == IF Starts(c, "HEX") THEN Head(asking[c].reply).data ELSE <<>>

Returns(c, ret, data) ==
  /\ job' = [job EXCEPT ![c] = NoJob]
  /\ result' = [op |-> job[c].op, path |-> job[c].path, ret |-> ret, data |-> data,
                old |-> job[c].old]
  /\ asking' = Resumes(c)
  /\ UNCHANGED <<linkRest, commands, answering, disk, made>>

Continues(c, cmd, total, data) ==
  /\ job' = [job EXCEPT ![c] = [@ EXCEPT !.sends = cmd, !.total = total, !.data = data]]
  /\ asking' = Resumes(c)
  /\ UNCHANGED <<linkRest, commands, answering, disk, result, made>>

\* An answer has come, and c is in the call op.
Answered(c, op) == job[c].op = op /\ asking[c].at = "answered"

DiskStat(c) ==
  /\ Answered(c, "DiskStat")
  /\ CASE Starts(c, "FILE") -> Returns(c, 1, Head(asking[c].reply).data)
       [] Starts(c, "DIR") -> Returns(c, 2, <<>>)
       [] Starts(c, "NOENT") -> Returns(c, 0, <<>>)
       [] OTHER -> Returns(c, DISKFS_ERR, <<>>)

\* Every other line is a list of names, "(busy)" too; "(no response)" and
\* "(no link)" are two names.
DiskLs(c) ==
  /\ Answered(c, "DiskLs")
  /\ CASE Starts(c, "ERR") -> Returns(c, DISKFS_ERR, <<>>)
       [] Starts(c, "NOENT") -> Returns(c, DISKFS_NOENT, <<>>)
       [] Starts(c, "(no response)") \/ Starts(c, "(no link)") -> Returns(c, 2, <<>>)
       [] OTHER -> Returns(c, Len(asking[c].reply), <<>>)

DiskMkdir(c) ==
  /\ Answered(c, "DiskMkdir")
  /\ Returns(c, IF Starts(c, "OK") THEN DISKFS_OK ELSE DISKFS_ERR, <<>>)

DiskRm(c) ==
  /\ Answered(c, "DiskRm")
  /\ Returns(c, CASE Starts(c, "NOENT") -> DISKFS_NOENT
                  [] Starts(c, "OK") -> DISKFS_OK
                  [] OTHER -> DISKFS_ERR, <<>>)

\* The loop of DiskRead(): a line that decodes to nothing ends it like EOF.
DiskRead(c) ==
  /\ Answered(c, "DiskRead")
  /\ LET room == BufMax - 1 - Len(job[c].data)
         got == SubSeq(hex_dec(c), 1, Min({Len(hex_dec(c)), room}))
         all == job[c].data \o got
     IN  CASE Starts(c, "ERR") -> Returns(c, DISKFS_ERR, <<>>)
           [] Starts(c, "NOENT") -> Returns(c, DISKFS_NOENT, <<>>)
           [] Starts(c, "EOF") \/ got = <<>> \/ Len(all) = BufMax - 1 -> Returns(c, Len(all), all)
           [] OTHER -> Continues(c, build_cmd("READ", job[c].path, Len(all), <<>>), Len(all), all)

\* Seeded fault: a chunk that was refused is passed over.
WriteGoesOn(c) ==
  /\ Answered(c, "DiskWrite") \/ Answered(c, "DiskAppend")
  /\ LET first == job[c].op = "DiskWrite" /\ job[c].data = <<>>
         total == IF first THEN 0 ELSE job[c].total + Len(Chunk(job[c].total))
     IN  CASE first /\ ~Starts(c, "OK") -> Returns(c, DISKFS_ERR, <<>>)
           [] total = Len(Text) -> Returns(c, total, <<>>)
           [] OTHER -> Continues(c, build_cmd(IF first THEN "WRITE" ELSE "APPEND", job[c].path, 0,
                                              Chunk(total)), total, Text)

\* disk_write_chunk(): after TRUNC (if overwriting) one command per chunk, WRITE
\* for the first and APPEND for the others; a command that fails ends it.
\* job.data is set once the file is truncated.
disk_write_chunk(c) ==
  /\ Answered(c, "DiskWrite") \/ Answered(c, "DiskAppend")
  /\ LET first == job[c].op = "DiskWrite" /\ job[c].data = <<>>
         total == IF first THEN 0 ELSE job[c].total + Len(Chunk(job[c].total))
     IN  CASE ~Starts(c, "OK") -> Returns(c, DISKFS_ERR, <<>>)
           [] Starts(c, "OK") /\ total = Len(Text) -> Returns(c, total, <<>>)
           [] OTHER -> Continues(c, build_cmd(IF first THEN "WRITE" ELSE "APPEND", job[c].path, 0,
                                              Chunk(total)), total, Text)

-----------------------------------------------------------------------------

\* Every client has a file of its own.
Call(c) == \E op \in Calls[c] : Begins(c, op, c)
GoesOn(c) ==
  \/ Sends(c) \/ DiskStat(c) \/ DiskLs(c) \/ DiskMkdir(c) \/ DiskRm(c)
  \/ DiskRead(c) \/ disk_write_chunk(c)

Link == LinkStep /\ UNCHANGED <<disk, job, result, made>>
Container == ContainerServes \/ ContainerRefuses

DNext == Link \/ Container \/ (\E c \in Clients : Call(c) \/ GoesOn(c))

\* The server, the notifier and the clock go on; the container may be silent.
DFairness ==
  /\ WF_diskVars(LinkServerStep /\ UNCHANGED <<disk, job, result, made>>)
  /\ WF_diskVars((NotifierDrains \/ LinkTick) /\ UNCHANGED <<disk, job, result, made>>)

DSpec == DInit /\ [][DNext]_diskVars /\ DFairness

-----------------------------------------------------------------------------
(* Properties. *)

\* A call tells what it did to its client's file, while no command was given
\* up: a write or append that counts all its bytes has stored them in order,
\* one that fails has stored the chunks before the failure and none after it,
\* and DiskStat(), DiskMkdir() and DiskRm() tell what is at the path.
CallsTellTheTruth ==
  late = {} /\ result # NoResult =>
    LET r == result
        at == disk[r.path]
        old == r.old
    IN  CASE r.op = "DiskWrite" ->
               IF r.ret = DISKFS_ERR THEN at = old \/ IsPrefix(at.data, Text)
               ELSE at = [kind |-> "file", data |-> Text] /\ r.ret = Len(Text)
          [] r.op = "DiskAppend" ->
               IF r.ret = DISKFS_ERR THEN at = old \/ \E n \in 0..Len(Text) :
                                                      at.data = old.data \o SubSeq(Text, 1, n)
               ELSE at = [kind |-> "file", data |-> old.data \o Text] /\ r.ret = Len(Text)
          [] r.op = "DiskStat" -> /\ r.ret = 1 => at.kind = "file" /\ Len(at.data) = Len(r.data)
                                  /\ r.ret = 2 => at.kind = "dir"
                                  /\ r.ret = 0 => at.kind = "none"
          [] r.op = "DiskMkdir" -> r.ret = DISKFS_OK => at.kind = "dir" /\ old.kind = "none"
          [] r.op = "DiskRm" -> r.ret # DISKFS_ERR => at.kind = "none"
          [] OTHER -> TRUE
=============================================================================
