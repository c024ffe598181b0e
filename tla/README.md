# SmpOS: specifications, model checks and proofs

SmpOS is a microkernel for the Raspberry Pi 4 in the style of a real-time
operating-systems course: tasks, priorities, Send/Receive/Reply, AwaitEvent,
servers with notifiers, a model train on a serial line. Core 0 runs the kernel
and every task; cores 1 to 3 are accelerators that run one job at a time. This
directory holds TLA+ models of it, the TLC runs that check them and the proofs
TLAPS checks. Paths below are those of the repository; `PROJECT.json` maps
each definition to the lines it models.

## 1. The system

| Component | Files | State | Operations | Talks to |
|---|---|---|---|---|
| Scheduler, task table | `common/kernel/sched_stubs.c`, `layer1-processes/syscall.c` | `PROCS`, `READY_HEAP`, `BLOCKED_LIST`, `PID` | Create, Exit, Yield, `Schedule` | every handler ends in it |
| Send/Receive/Reply | `common/kernel/ipc_*.c` | a ring of senders per task, `waiting_reply`, `waiting_send` | the three calls | blocks and unblocks tasks |
| Interrupts | `syscall.c` (`ExceptionASYNC`), `gic.c`, `timer/` | per event: tasks that wait, queued events | AwaitEvent, three kinds of interrupt | UART, timer, cores 1-3 |
| Console | `layer3-services/uart/` | list of characters, list of calls, logs, observers | getc, peek, putc, observe | `io_notifier`, name server, shell, observers |
| Clock server | `clockserver.c` | ticks, delta queue | Time, Delay, DelayUntil | its notifier, all clients |
| Accelerator | `accel.c`, `apu_core_server.c`, `apu_client.c` | one job slot per core | dispatch, batch, completion interrupt | cores 1-3 |
| Name server | `nameserver.c` | table of names | RegisterAs, WhoIs | all services |
| UART2 Marklin server | `uart/UART2_MARKLIN_server` | call lists, `putc_state`, CTS waiters | putc, getc, CTS | `io_notifier` |
| Marklin server, train control | `marklin.c`, `tc1.c`, `route.c` | position, route, velocity | speed, switch, sensor poll, goto | serial line, clock, shell |
| Track | `track_data.c` | two tables of nodes and edges | read only | train control |
| RPS server | `rps.c` | players, the held sign-up | signup, play, quit | players |
| Link server, disk files | `linkserver.c`, `diskfs.c` | one client, a deadline, a line | request, answer, timeout | serial line, clock (`ENABLE_LINK` 0) |
| Event bus | `eventbus.c`, `observer.c` | topics, pools | subscribe, publish, detach | callbacks, Send |
| Memory | `pmm.c`, `vmm.c` | page bitmap, break | map, unmap, sbrk | - |
| RAM files | `ramfs.c` | a table of entries | make, write, append, read, remove, list | old shell |
| Display server | `displayserver.c`, `disp_tetris.c`, `screenbuf*.c` | two buffers, text cursor, history, input line | write, render, scroll, readline, Tetris | terminal; excluded from the image (`EXCLUDE_SRCS` of the Makefile) |
| UI, games, old shell | `layer4-ui/`, `shell.c`, ... | - | drawing, parsing | excluded from the image too |

Only the kernel runs with interrupts masked. Every system call and every
interrupt is one trap: save the caller, run the handler to its end, let
`Schedule()` pick a task. Traps are therefore the atomic steps of the kernel,
and concurrency is the interleaving of tasks at their traps, of interrupts
that arrive in any task, and of cores 1 to 3, which share only the job slots.

What is hard, and what must hold:

* **Kernel.** Wake-ups: the blocked list, the ready heap and the wait lists are
  separate structures, a task has to be in the right one after any sequence of
  calls by anybody. No queued event may be slept through, no runnable task
  dropped or enqueued twice, and the scheduler must not run out of tasks.
* **Messages.** The ring knows "empty" only as head = tail; Reply checks only
  that the target waits for *a* reply. No message may be lost, answered by
  another, or overtaken.
* **Heap.** An array heap with in-place swaps, ordered by priority and then by
  a 64-bit time read in two halves.
* **Console.** Characters cross four queues and three tasks, an interrupt may
  bring several, a server may not have registered yet.
* **Clock.** The delta queue is rebuilt at each insertion; sleepers must wake
  neither early nor late, and all of them.
* **Train box.** UART2 may write a byte only when CTS has fallen and risen since
  the last one; the events that tell so come late, in one queue with received
  bytes, and a transmission is reported only with another interrupt.
* **Train.** Polls, commands and the train go on while the controller handles a
  message; commands of different length share a line without framing.
* **Link.** One command at a time, a deadline, a container that may be silent,
  and disk calls of several commands each.
* **Boot.** Tasks look each other up while they register.
* **Display.** A copy of what the terminal shows, kept by repeating on the copy
  what was sent.
* **Accelerator.** The slot is cleared before the interrupt is raised, so
  completion is seen through two channels, and one of them can be stale.

`PROJECT.json` lists these and the others under "hazards", each at its line,
with the properties that cover it or the reason why none does.

## 2. The modules

**Kernel** - the kernel proper. One action per outcome of a system call or an
interrupt; each includes the `Schedule()` that ends it. The tasks are
unconstrained: whoever runs may make any call with any task as its argument
(`Traps` excludes only the idle task, which executes nothing but `wfi`).

| Model | Code |
|---|---|
| `PID`, `live`, `priority`, `waiting_reply`, `waiting_send` | fields of `PROCS`, `PID` |
| `mailbox[t]` | `message_recieved[]` between head and tail, as senders |
| `heap[t]` | how many entries `READY_HEAP` holds for `t` (more than one is a fault the model can show) |
| `BLOCKED_LIST` | the pid and the priority `block()` stores; `unblock_ind()` tests both |
| `pid_ls`, `eventq_len` | `AWAIT_INTERRUPT[e]` |
| `SendDelivers`, `SendQueues`, `SendRefused` | `ipc_handle_send` + `send_helper` |
| `ReceiveParks`, `ReceivePops` | `ipc_handle_receive` + `recieve_helper`, with `block` before and `unblock_ind` after |
| `ClockIRQ`, `UartIRQ`, `ApuIRQ` | the cases of `ExceptionASYNC` |

**Lifecycle** - what the scheduler promises without any of these structures: a
slot is free, ready, running or blocked; one task runs; a trap moves the
running task and those it wakes or creates; the best ready task runs next.
**KernelRefinement** reads a slot's state off the kernel's and states that
Kernel implements Lifecycle.

**Rendezvous** - Kernel under the discipline the services follow (`for (;;) {
Receive; ...; Reply }`, reply once to whom was received, exit with nothing
owed). It adds two history variables, the destination of each Send and what a
task owes, and fairness.

**ReadyHeap** - the array heap itself: `insertKey`, `extractMin`, bubbling up
and down as recursive functions on the array, stale entries beyond its size
included, and the two reads of the timer with any time in between.

**ConsoleInput** - the receive FIFO, the interrupt handler with its burst, the
kernel's event ring, `io_notifier`, the console server's two lists and a
reader in ConsoleGetc or ConsolePoll.

**ClockServer** - timer interrupt, notifier, server, delta queue, clients.
Time is what the notifier reports, and is kept as differences from now, so
that the state space is finite without a bound on time.

**ApuServer** - cores 1 to 3 running beside core 0 (take, run, clear the slot,
raise the interrupt: four separate steps), the pending interrupt, the kernel's
event queue, the per-core servers and clients in `APUBatch`.

**Route**, **TrainControl** - the search for a route on the track graph; the
controller, its sensor notifier, the shell's commands, the Marklin server down
to the bytes of each command, and, external, the box that obeys them and the
train that moves on. A handler is one action up to each `Send` to the Marklin
server, so polls and the train come in between. The tasks run by priority:
while the server (6) handles a request or spins for a byte, its clients do not.

**TrackData**, **TrackTour** - both layouts as tables, and a train that is sent
from sensor to sensor over them with Route's search: the distance
`process_sensor` measures, the sensor and the distance it predicts, against
where the train really goes as the turnouts are. That every edge has a reverse
of its length (`TracksReverse`) is an assumption TLC evaluates.

**NameServer**, **MarklinUart** - the table of names, and on top of it the
whole path of UART2: raw interrupt status, the handler's order of causes, the
kernel's event queue, `io_notifier`, the server with `putc_state` and its
lists, clients in Putc, Getc and awaitCTS; external, the UART and the box.

**Boot** - every task from its creation by `kmain` to its main loop, on the
ready heap, with Send, Receive and Reply as the scheduler performs them and
interrupts before any step.

**LinkServer**, **DiskFs** - the line to the container with its deadline, and
above it the disk calls as sequences of commands; external, the container.
**Rps** - the server and players that sign up, play and quit at any time.
**EventBus** - topics, pools, attach and detach, and a publish that blocks, or is
preempted, while others subscribe and detach. A publish carries three histories
of its subject for the properties: who has left since it began, who has come,
and whether one came after one had left. **Memory** - the bitmap, mappings, and the break.
**RamFs** - the table of files. **ConsoleObservers** - the observers and logs of
the console server, with the `Send` in which it tells an observer.
**DisplayServer** - the two buffers of the display server and everything that
writes them.

The service modules do not re-model the kernel. They rest on Rendezvous, which
shows what they use: a message is delivered once, in order, and its sender
waits for one answer of its receiver; and on Kernel for AwaitEvent.

The proofs are in eight modules. **KernelProofs** is about the kernel, its
refinement and the rendezvous on top of it. **ServerProofs** takes the clock and
the accelerator, **MarklinProofs**, **ConsoleProofs**, **LinkProofs** and
**TrainProofs** one path each, **PartsProofs** the parts that stand alone (RAM
files, event bus, RPS, console observers, page frames,
the array heap). **QueueLemmas** holds what they share:
queues in which nobody stands twice, joining, leaving and inserting, the least
member of a set of naturals.

The `MC*` modules give the constants their values. Definitions whose comment
says "Seeded fault" are plausible bugs: each property is shown to notice one.

## 3. What the runs show

| Run | Bounds | Shows |
|---|---|---|
| MCKernel | 3 slots, ring of 2, one clock and one UART event, burst 1, 2 pending | the invariants of section 4 and the refinement, over arbitrary calls |
| MCRendezvous | 4 slots (server, 2 clients, idle; tasks come and go), ring of 5 | messages are conserved, answered, not overtaken; rings do not fill |
| MCServers | see below | the clock server's three properties, the accelerator's and the console's |
| MCConsoleOrder | one reader, 4 characters, rings of 3, bursts of 3 | violated: see disagreement 1 |
| MCClockDrift | 4 clients, queue of 3, delays up to 2 ticks | violated: 2 |
| MCTrainControl | 3 sensors in 2 modules, 2 branches, a dead end; 2 commands | the controller knows the speed, notices sensors, finds shortest routes, sets turnouts, stops trains |
| MCLargeParts | see below | a publish serves its observers, who starts finds the better servers registered, what is measured and predicted on a route is what the train does |
| MCBootRace | all 12 tasks, 4 interrupts | violated: 3 |
| MCBusSkips | one topic of 2 slots, an entry in each pool, 3 subscriptions | violated: 4 |
| MCMarklinUart | 2 clients, 4 calls, 2 bytes received | no byte before the box is ready, received bytes in order, nobody waits for the CTS there is, a byte written is answered |
| MCLink | 2 clients, 2 calls, deadline of 1 tick, lines of 2 words, writes of 2 chunks | LinkSend returns, answers are one's own until a command is given up, disk calls tell the truth |
| MCParts | see below | seven properties of six parts |

MCServers, MCParts and MCLargeParts hold what stands alone. The initial state
chooses one of the parts (`part`), and from then on only that part's variables
change: such a run is the union of small runs, and its violations and state
counts are those of the parts. MCServers writes the fairness of each part with
`part` in its guards, for the same reason.

* MCServers: the clock server (4 clients, a queue of 3, delays up to 2 ticks):
  deltas add up, nobody wakes early, everybody wakes. The accelerator (2 cores, 2
  clients, 3 batches): each job runs once before its answer, no slot is
  overwritten, no server sleeps on a finished job. The console (4 characters,
  rings of 3, bursts of 3): each character in one place, read in order up to a
  burst, and read in the end.
* MCParts: the heap has 4 tasks, 2 priorities and 3 time steps; RPS 4 players
  for 3 slots and 6 calls; memory 6 frames and lengths of one page, a page and a
  half and none that fills it; the RAM file system 3 entries and a path that is
  cut; the console 4 tasks for 2 observers, 3 characters and 3 calls; the
  display a screen of 3 by 3, one row to each of the three cores that compare,
  and 5 calls.
* MCLargeParts: the event bus 2 topics of 3 slots, 2 entries in each pool and 3
  subscriptions, enough to fill a gap again while a publish is blocked; the boot
  all 12 tasks and 4 interrupts; the track both layouts whole and every pair of
  sensors.

Three slots in MCKernel make every relation between two tasks and the idle
task possible: a task that sends to, replies to or exits under another, a
slot that is used again, a full table. A ring of two fills, and its
head = tail ambiguity is reached. The proofs of section 4 remove the bounds.
Rendezvous needs a ring larger than the table, as in the code (255 and 64).
Heaps of four entries have a node with two children and one with one. The
console's rings wrap in the run, and the characters unread are bounded by
their size (`MaxUnread`): beyond it the code overwrites unread characters, a
hazard on the list. With four clients and a queue of three the clock server
refuses a client; `MaxRequests` bounds the requests in its mailbox and
`MaxPast` the requests for a time that has passed (see below). Three batches
are enough for a stale completion event to meet the next job on its core.
The track has a route with two switches, a sensor nothing leads away from, a
loop with one sensor (debouncing) and a sensor near enough to the next to stop
one sensor early; two commands are a goto that replaces another, or one that
meets a change of speed. All turnouts and starting places are tried.

Each layout has 80 sensors and about 5000 routes between two of them, and
MCLargeParts drives a train over all of them; the turnouts start straight, and
what no route sets keeps its place. In MCMarklinUart four calls put two bytes in
the list and meet a getc and a CTS wait; in MCLink two calls are enough for a
command that finds the server busy, for a late answer and for the next one to
get it. RPS with fewer slots than players refuses one. Five calls of the
display fill the screen, scroll it, look back, and repaint it.

Deadlock is checked except where `CHECK_DEADLOCK FALSE` says that the bounded
inputs (characters, batches) run out.

### Fairness

* *Rendezvous*: `Schedule()` serves equal priorities in the order they were
  enqueued (ReadyHeap) and an interrupt re-enqueues the task it interrupts, so a
  server that is again and again among the best runs again and again, and gets
  to its next call (strong fairness of both).
* *Console*: interrupts are unmasked in all tasks; the tasks of the path are of
  priority 0 and FIFO (weak fairness); a shell keeps asking (strong, since the
  server must have answered in between).
* *Clock*: the timer is re-armed by each interrupt; notifier (2) and server (5)
  precede their clients. Clients owe nothing. `DelayReturns` is stated for
  finitely many requests for a time that has passed (`MaxPast`), as each of
  these takes one tick from those behind it.
* *Accelerator*: the cores run by themselves, jobs end, interrupts are taken,
  the servers (4) precede their clients.
* *UART2*: the box finishes what it began, interrupts are taken, `io_notifier`
  and the server (both 0, FIFO) run. Clients owe nothing, the box need not send.
  The box takes milliseconds where an interrupt takes microseconds: it does not
  change CTS while the interrupt of the last change is pending.
* *Link*: the server, its notifier and the clock go on; the container may be
  silent for ever.
* *Train*: tasks that can run do; a train in motion reaches the next node. It
  reaches one sensor between two polls (`MaxPerPoll`): a poll takes 100 ms, and
  900 mm/s are 90 mm. The user may never type; `RoutedTrainStops` is about a
  train on its route after the last command, as a new one may redirect it.

### Disagreements found

Four have a run that TLC finds violated:

1. The receive interrupt queues the characters it drains before the first one
   when nobody awaits the event (`syscall.c:148-181`): typing "abc" in one burst
   can be read as "bca" (MCConsoleOrder).
2. `delay_on_tick` (`clockserver.c:94`) decrements only the head, so an entry
   for a past time (delta 0) swallows the tick and the sleepers behind it wake
   one tick late (MCClockDrift).

3. Boot: `io_notifier.c:11-13` says that registering first lets
   `WhoIs("io_notifier")` resolve before its first Send. It does not follow: the
   name server, `io_notifier` and both UART servers have one priority, and an
   interrupt puts the task it interrupts behind its equals. In MCBootRace four
   interrupts keep `io_notifier` from starting until the console server has
   registered and asked for it. The answer is -1, for good; then `io_notifier`
   registers, sends its event, is taken for a client and never answered. Three
   interrupts do the same for the server of UART2. What holds is
   `BetterAreRegistered`: across priorities nobody starts too early.
4. Event bus: `eventbus.h:8` says that a publish "synchronously invokes every
   registered observer". `subject_notify` keeps the count only, and nothing keeps
   other tasks from detaching while it is blocked in a Send or preempted
   (`observer.c:35` asks that of an `update()`). A detach moves the last observer
   into the gap; if that is before the loop and somebody subscribes then, the
   slot the last one left is written over, and it is not invoked, though it was
   registered all the time; the new one, which may be the old one again, is
   (MCBusSkips). With a detach alone everybody is still invoked, because the slot
   left keeps its old value, some twice, and one that has detached as well. What
   holds is `ObserversAreServed`.

The others were met while modelling and have no run of their own. Those in code
that the image runs:

5. `recieve_helper` (`ipc_stubs.c:54`) sleeps on a *full* ring. It takes replies
   before receives to fill a ring; under the services' discipline it cannot
   happen (`MessagesConserved` has the bound).
6. `insertKey_state_heap` (`sched_stubs.c:81`) reads the timer's halves high
   first; a wrap in between (every 71 minutes) stamps an entry 2^32 us in the
   past, and it overtakes its equals.
7. `ConsolePoll` peeks (`UART1_CONSOLE_server.c:217`) where its caller
   (`ui_read_key`, `layer4_ui.c:531`) takes what it returns for the next key, so
   that each poll returns the same key again.
8. The console server tells an observer with a `Send`; an observer that calls
   the server at that time, be it to unregister, deadlocks with it (line 89).
9. UART2: the next queued putc is looked for before the one under way is
   answered (lines 124-140), so it is started only when another message comes.
10. `APUBatch` (`apu_client.c:76`) is sequential where `canvas_accel.c:50` says
   parallel; it costs time only.
11. `tc1.c:491` says "process first active sensor per poll", but the `break`
   leaves the inner loop only: it is one sensor per *module*. `tc1 stop` sends
   speed 0; nothing sends TC1_MSG_STOP.
12. The search minimises nodes, not millimetres: about 2000 of the routes of each
    layout are not the shortest. 850 of the 4588 routes of layout A (945 of 4985
    on B) pass one turnout twice, in both directions. `init_trackb` has no caller.
13. RPS: the display follows one match (`rps.c:104`); a second pairing overwrites
    it, and the counters of the first are then kept by the second's rules.
14. `idle.c:128-133` counts as idle everything between two reads of a counter
    around `wfi`: the interrupt that ends it makes other tasks run first, so
    their time is counted as idle.

In code that is compiled out, unused or excluded:

15. Link: a line that comes after its command was given up answers the next
    client (`linkserver.c:83`). An overlong line keeps its tail (line 92), though
    the comment says "drop and resync".
16. Disk calls take "(busy)", "(no response)" and "(no link)" for what the
    container said: `DiskRead` for the end of the file, `DiskLs` for names. An
    APPEND that was given up may still be carried out.
    `disk_write_chunk` counts a chunk whose command was cut because the path is
    long (`diskfs.c:202`): a line has room for a whole chunk only behind paths of
    up to 12 characters, though `DISKFS_PATH_MAX` allows 60.
17. Event bus: a subscription the subject has no room for keeps its entry of the
    pool for ever (`eventbus.c:82`); a name of 32 characters or more makes a new
    topic each time.
18. RAM files: a path that was cut is never found again (`ramfs.c:90`).
19. Display: in the region of the shell a line feed scrolls whole rows of the
    terminal, but in `cell[]` only the columns between the borders
    (`displayserver.c:949-954`); `screenbuf.h:11` says `cell[]` is "what the
    terminal is showing now". `g_readline_start_row` does not move when the input
    scrolls, so what was typed before the scroll cannot be erased. After SET_SIZE
    the cells that come into view are stale.

## 4. What is proved

`KernelProofs` proves, for any number of slots, any ring size above one, any
priorities containing 0, any boot sequence, any idle task among the boot tasks
and any set of events (`KernelAssumption`), that Spec implies always

* `TypeOK`, `SlotPartition`, `BlockedForOneReason`, `NoSleepOnQueuedEvent`, which
  MCKernel checks too, and
* `HeapHasRoom`, `KernelNeverParks`, which are only proved.

None but the conjunction is inductive. `SlotPartition` alone is not preserved
by a wake-up: a task on two wait lists would be enqueued twice, so it needs
`BlockedForOneReason`, which in turn needs to know that the trapping task is
not blocked, which is part of the partition. `KernelNeverParks` needs
`IdleRunnable` (idle is live and not blocked). That and `TopPriorityRuns`, which
only says what `Schedule` has just chosen, are the conjuncts of `IInv` that are
no properties of their own. `HeapHasRoom` follows from the partition by counting:
the running task is not in the heap. The argument has two halves. Each handler
leaves a heap that holds every runnable task exactly once (`HandlerDone`), and
`Schedule` run on such a heap restores the partition and picks a best task
(`ScheduleStep`). The lemmas on handlers are grouped by what they do to the
caller (`RequeueDone`, `BlockDone`, `BlockWakeDone`, `RequeueWakeDone`), and one
lemma per action (`SendDeliversInv`, ...) applies them.

A corollary worth reading twice: `rescue_orphaned_tasks()` never finds an
orphan, and the early return of `unblock_ind()` is never taken by a wake-up.

`KernelImplementsLifecycle` says that Kernel implements Lifecycle. `IInv` makes the
abstract state of a slot a function of `live`, `PID` and `BLOCKED_LIST`
(`AbstractSets`), and `TopPriorityRuns` after the step says that the task that
runs next is one the abstract `Dispatch` may pick (`DispatchStep`). So it is
enough to know which tasks a handler blocks and wakes: `ContinueStep` maps a
trap that leaves its caller ready, `SuspendStep` one that blocks it, and there
is one short argument per handler.

The services are proved in the same way: an inductive invariant, that of the
start, one lemma per action, and the properties as corollaries. Constants that
only bound TLC's runs (`MaxCalls`, ...) occur in no invariant.

| Theorems | Assumed of the constants | Argument |
|---|---|---|
| `NoMessageIsLost` (`MessagesConserved`), `NobodyOvertakes` (`NoOvertaking`) of Rendezvous | `KernelAssumption`; the servers are boot tasks, idle is none; rings larger than the table (255 and 64) | `RInv`: the kernel's `IInv` and `MailInv` |
| `JobsRunOnce` (`RanOnceWhenAnswered`), `SlotsAreFreeWhenFilled` (`SlotIsFreeWhenFilled`) of ApuServer | cores are 1 to some n; no client is 0 | `AInv` |
| `DeltasAlwaysAddUp` (`DeltasAddUp`), `NobodyWakesEarly` (`NoEarlyWake`) of ClockServer | finitely many clients, none the notifier; delays up to any length | `CInv` |
| `CtsWaitersWoken` (`CtsWaiterIsWoken`), `NoByteOverruns` (`NoOverrun`), `BytesKeepOrder` (`BytesInOrder`) of MarklinUart | no client has the tid of a server | `MInv`, and `ByteInv` for the last |
| `FilesReadAsLeft` (`ReadsAsItWasLeft`) of RamFs | no path is cut to another that is in use; a file has at least one byte of room | `RamInv` |
| `ObserversServed` (`ObserversAreServed`) of EventBus | sizes of the pools are naturals | `BusInv` |
| `PlayersAreRemembered` (`NobodyIsForgotten`), `RoundsFair` (`RoundsAreFair`) of Rps | the number of slots is a natural | `RpsInv` |
| `ObserversHear` (`ObserversHearAll`) of ConsoleObservers | none | `ObserversInv` |
| `FramesAccounted` (`FramesAreAccountedFor`) of Memory | the pool and the region are naturals, a page has at least one byte | `MemInv` |
| `HeapInvariant`, `BestIsFirst` (`BestThenOldestFirst`) of ReadyHeap | priorities are integers, tasks finitely many; the second: `NoWrapWhileRead`, the low half of the timer does not wrap between the two reads of an insert (section 3, 6) | `HeapInv`, with `StampsTell` for the second |
| `NoKeyIsLost` (`EachCharInOnePlace`), `OnlyBurstsReorder` (`InOrderUpToBurst`) of ConsoleInput | `RingsHold`: the rings hold what is typed ahead of the reader; the FIFO is no deeper than the event queue (16 and 64) | `ConsoleInv` |
| `AnswersAreOwn` (`AnswerIsOwn`) of LinkServer, `CallsTruthful` (`CallsTellTheTruth`) of DiskFs | the second: `WholeChunks`, a command line has room for the path and a whole chunk (section 3, 16) | `Held` |
| `SpeedKnown` (`SpeedIsKnown`), `SwitchesLead` (`SwitchesLeadToDest`), `GotoTakesShortest` (`GotoIsShortest`) of TrainControl | `TrackFits`: any finite track on which branches have two edges and the numbers of turnouts differ; TLC evaluates it on the loop and on both layouts | `IInv` of TrainProofs; `Bfs`, `Path` |

*Rendezvous.* `MailInv` says where the message of each waiting task is: in the
mailbox of the task it was sent to, or held by it, and not both; who does not
wait has no message anywhere. `MessagesConserved` then counts the places, and
bounds a ring by the tasks that can be in it. The kernel's invariant is needed
for the trapping task, which has no message under way because it runs, and for
a slot that is created anew, which nobody still waits for.

*Accelerator.* The hazard is a stale completion event. The events do not occur
in `AInv` at all, which is the explanation why a stale one does no harm: what
keeps jobs apart is that a slot is full only while its server holds the job's
client, and that a client is with one server, that of its last request.
`RanInv` then says for each core whether the client's job has run yet.

*Clock.* `DeltasAddUp` is about sums, and no step changes a sum in one place.
`DeltaInv` is its local form, the delta of an entry is the difference of two
wake times, and `WakeTimes` gets the sum back from it. That is an induction,
made without an induction theorem: the set of the places where it fails has no
least member (`LeastNatural`). The wake times include the ticks absorbed by
entries for past times (section 3, 2), or the invariant would be false.

*Marklin line.* A byte takes the box through three changes: taken, CTS falls,
CTS rises. `Done` counts those that have happened and `Heard` those the server
knows (`putc_state`). `ReportInv` says that the changes in between are each
reported once, in one of four places (interrupt status, event queue, notifier,
inbox), those nearer to the server being the earlier ones. `WaiterInv`: somebody
waits for the value CTS has only if the report of a change is still to come.
The handler clears causes in an order that would break this if two changes of
CTS could coincide; that they do not is what section 3 says of the box's speed.
Names, other messages and calls drop out.
`ByteInv` does for the bytes from the box what `ReportInv` does for the
changes: each byte after the last the server has had is in one of the four
places, the earlier nearer to the server. The difference is the start: before
the server has registered its name, `io_notifier` drops what it looks up, and
always the first of those under way, so what is left has no hole.

*RAM files.* The table is a function from uncut paths to files: no two entries
in use have the same path, and each holds what its path was left with.

*Event bus.* A publish reads the subject again after each update, and meanwhile
others change it. `Relies` says what it still has: while nobody has left, those
attached when it began are in front and in order, because who joins writes
behind them (`JoinIsNoted`); once somebody has left, an entry that stayed has
been updated or is in a slot still to come, because only the slot of the one
who leaves is written over, and the last one's old slot keeps it
(`LeaveIsNoted`) until another joins; and every slot in reach was attached once.
`PublishGoesOn` carries that through any subscription and any detach.

*RPS.* `SlotInv` says that pairs are mutual, `HolderInv` what a slot implies for
its player, `PlayerInv` the converse: a player that waits is in the inbox, is the
unpaired one, or has a held move. The unpaired player is always the one
`waiting` names: so a quit that clears it forgets nobody.

*Console observers.* `HeardInv`: those the server has not reached yet in its
list are owed the character it is telling, and nobody else is owed anything.
`MaskInv` ties the masks in the list to what each task asked for, through the
removal that puts the last entry in the place of the one that goes.

*Page frames.* `MemInv` says which run of frames each mapping holds (`Held`), that
no two runs meet, and that the bitmap is all of them; that the frames a length
reaches into are those of its run is arithmetic on `pages_for`
(`PagesReached`). The search for a run is a recursive function. What it yields
has a closed form, the first free run (`FirstRun`): that satisfies the equation
of the search (`FirstRunIsSearched`), and two functions that do cannot differ,
because at the greatest start where they did both would go on to the same
later one (`ScanFindsFirstRun`).

*Array heap.* `UpFrom` and `DownFrom` are the heap order with a hole at the entry
that is being sifted; one step moves the hole to the parent or to the child that
goes first, and the sifting ends when there is none. That sifting is defined at
all is proved first (`UpIsDefined`, `DownIsDefined`): a function on some slots
extends to one slot more, and the least number of slots without one leads to a
contradiction, which is how induction is done here. What sifting yields (`Sifted`: the
same entries, in heap order) is shown for the first slot at which it would fail.
The order by stamp holds whatever the timer does; that the stamp is the
time of the insert needs `NoWrapWhileRead`.

*Console.* What the reader has got, the server's list, the notifier's character,
the kernel's ring and the FIFO are read as one sequence, `Path`. Most steps leave
it as it is: the character only moves from one part to the next. A key extends
it at its end, a drop removes its first element (only then is nothing in front
of the notifier), and the interrupt is the one step that permutes it, and only
the part it drains. `PathInv` says that nothing is on the path twice, `OrderInv`
that an inversion is that of one burst. The rings come in through three lemmas:
`Contents`, what a ring holds, grows by what is put and loses what is taken as
long as the ring has room. That a burst is a repeated Put, in the closed form
`PutAll`, is evaluated by TLC (`PutAllIsPuts`).

*Link.* `OwnLine` (`OnWay`): an idle server has nothing on its line; a busy one has either
its command or the rest of one line, in three places in their order, so what is
read up to the end of line belongs to the command. `Asking` ties what a client
waits for to the one command of it that is in the mailbox or under way, and
`Truths` says what is at its path at that moment: what the call found, with the
chunks that were answered, or what the answer that is on its way says. All
of it holds while no command was given up, which the properties state.

*Train.* The commands on the line have one to three bytes, so the invariant names
a set of positions at which commands begin (`Framed`). For the speed and for
each turnout, what the controller wants is what the request says that still
waits for the Marklin server, else what the last command about it on the line
says, else what it is now (`Comes`). A silent line and no request leave the
last. The box reads from the front, where a command is the last about its
thing or does not matter.

*Route.* `Bfs` is what holds before turn h of the search: the queue is a tree
with every node once (`Linked`), no entry is nearer to the start than the one
before it, each at its distance (`Depths`), and the arms of the entries before
h have been followed. A node that is new is therefore one edge further than
the entry it is reached from, since all nodes as near as that entry have been
visited (`NearIsVisited`); if the turns end without `to`, what was visited is
closed under edges (`SearchFinds`). `Path` is what reading back gives at an
entry: a way of the length of its distance, with the arms of the branches on it,
each branch once, so that no turnout is asked to be set both ways. Three facts
about recursions over numbers carry this: there is a solution (`Recursion`), it
stays in the set its steps stay in (`RecursionStays`), and what fails at some
number fails at a least one (`LeastNatural`). So the search and the way back are
proved for every track, not only for those TLC runs on. A queue of distinct
nodes has at most as many entries as the track, so the check of `BFS_SIZE`
(route.c:75) never ends a search early.

### What stays with TLC

* Liveness, fairness and `ENABLED`: `SendIsAnswered`, `EveryKeyIsRead`,
  `DelayReturns`, `PutcFinishes`, `RoutedTrainStops` and the like.
* `TourIsPredicted`: its distances are sums along a way, and the sensor ahead is
  found by recursions over the real layouts that a proof would have to unfold
  for each; TLC runs them on every pair of sensors.
* `TerminalShowsCells`: the display server repeats cell by cell what was sent,
  a fold.
* Boot is one fixed set of tasks, whose runs TLC exhausts but for the number of
  interrupts: `BetterAreRegistered` is checked for up to four of them.

## 5. What is not modelled, and the plan

Not modelled at all: register save and restore, the GIC and UART registers,
translation tables, painting of trees and games, parsing, printing. Memory
ordering between cores is taken as sequentially consistent: `accel.c` brackets
its accesses with barriers. `malloc.c` has an arena of size 0 and no caller.
Velocities and predicted times of the train only feed the console, where with
speed 0 and a velocity smoothed to 0 a division by zero is possible
(`tc1.c:287`). Console output goes straight to the UART. Resizing, synchronized
output and the terminal's cursor are left out of the display server. The branch
of `syscall.c:129-135` for a change of the console's own CTS is left out: that
interrupt is never enabled (`rpi.c:98-120`), and UART1 is taken to have no
hardware flow control.
`PROJECT.json` gives a reason for each component.

What could follow: a proof about the display server writer by writer, which
needs what each fold over cells yields.
