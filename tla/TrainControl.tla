---------------------------- MODULE TrainControl ----------------------------
(***************************************************************************)
(* The train controller with its sensor notifier, the shell's `tc1'        *)
(* command, the Marklin server, the serial line and the train it drives    *)
(* (tc1.c, marklin.c).                                                     *)
(*                                                                         *)
(* The line, the control box and the train are no code of the repository:  *)
(* the box reads the bytes in order, drives the one train and the          *)
(* turnouts, and answers a poll with the sensors the train has passed      *)
(* since the last poll and the one it stands on.                           *)
(*                                                                         *)
(* Velocity, predicted times, the clock calls they need, what is printed   *)
(* and the display notifier are left out: no command to the train depends  *)
(* on them.  So is TC1_MSG_STOP, which nothing sends (`tc1 stop' sends a   *)
(* speed of 0), and the shell's `tr' and `sw', which bypass the            *)
(* controller.                                                             *)
(***************************************************************************)
EXTENDS Route

CONSTANTS
  MODULES,     \* sensor modules
  SENS_PER_M,  \* sensors of a module
  Speeds,      \* speeds the user asks for
  DEFAULT_SPEED,
  MaxCommands, \* bound: commands typed
  MaxPerPoll,  \* bound: sensors a train reaches between two polls
  MaxCoast     \* bound: nodes a train passes after it is told to stop

ASSUME TrainAssumption ==
  /\ MODULES \in Nat \ {0} /\ SENS_PER_M \in Nat \ {0}
  /\ Sensors \subseteq 0..MODULES * SENS_PER_M - 1
  /\ Speeds \subseteq 0..14 /\ DEFAULT_SPEED \in 1..14
  /\ {MaxCommands, MaxPerPoll, MaxCoast} \subseteq Nat

VARIABLES
  s,         \* TC1State: speed, state, last_node, route, dest
  tc1,       \* where tc1_entry is and the message it handles
  inbox,     \* messages tc1_entry has not received
  notif,     \* where tc1_sensor_notif is
  shell,     \* whether the shell blocks in TC1Goto() or TC1Speed()
  commands,  \* history: commands typed
  requests,  \* messages marklin_server_entry has not received
  reads,     \* marklin_server_entry blocks in mk_getc()
  wire,      \* bytes on the line to the box
  answer,    \* the sensor bytes on the line from the box
  box,       \* external: the speed and the turnouts the box has set
  train      \* external: where the train is, sensors passed since the poll

controller == <<s, tc1>>
clients == <<notif, shell, commands>>
server == <<requests, reads>>
world == <<box, train>>
line == <<wire, answer>>
trainVars == <<s, tc1, inbox, notif, shell, commands, requests, reads, wire, answer, box, train>>

(* Messages. *)
Snapshot(S) == [type |-> "sensor", arg |-> S]
Goto(d) == [type |-> "goto", arg |-> d]
SetSpeed(v) == [type |-> "speed", arg |-> v]

\* Requests to the Marklin server.  Only the sensor notifier polls.
AskSpeed(v) == [type |-> "speed", arg |-> v]
AskSwitch(sw) == [type |-> "switch", arg |-> <<sw[1], IF sw[2] = 2 THEN 2 ELSE 1>>]
AskPoll == [type |-> "poll", arg |-> 0]

TRAIN_ADDR == 1
SW_BASE == 32       \* or'ed with 1, straight, or 2, curved
SENSOR_BASE == 128

STOP_TABLE == <<0, 80, 150, 220, 300, 370, 430, 490, 550, 600, 650, 700, 750, 800, 900>>

stop_mm(speed) == STOP_TABLE[speed + 1]

Waiting == [at |-> "receives", msg |-> Snapshot({}), next |-> 0]

CInit ==
  /\ s = [speed |-> DEFAULT_SPEED, state |-> "discover", last_node |-> NoNode,
          route |-> NoRoute, dest |-> NoNode]
  /\ tc1 = [Waiting EXCEPT !.at = "starts"]
  /\ requests = <<AskSpeed(DEFAULT_SPEED)>>
  /\ inbox = <<>>
  /\ notif = "delays" /\ shell = "reads"
  /\ commands = 0
  /\ reads = FALSE /\ wire = <<>> /\ answer = <<>>
  /\ \E turnout \in [Turnouts -> {1, 2}], p \in Sensors :
       /\ box = [speed |-> 0, turnout |-> turnout]
       /\ train = [at |-> p, passed |-> {}, since |-> 0, coast |-> 0]

-----------------------------------------------------------------------------
(* Tasks run by priority: the Marklin server (6), the notifier (9), the    *)
(* controller (10), the shell (20).  While the server handles a request or *)
(* spins for a byte no other of them runs, and the shell runs only when    *)
(* the controller waits for a message.  Each blocks in Send() until it is  *)
(* answered.                                                               *)

ServerWaits == requests = <<>> /\ ~reads

Asks(r) == requests' = Append(requests, r)

\* tc1_sensor_notif: Delay() is over, poll the sensors.
NotifierPolls ==
  /\ notif = "delays" /\ ServerWaits
  /\ notif' = "polls"
  /\ Asks(AskPoll)
  /\ UNCHANGED <<controller, inbox, shell, commands, reads, line, world>>

\* `tc1 goto', with a sensor or a name that is none, `tc1 speed' and `tc1 stop'.
ShellSends ==
  /\ shell = "reads" /\ commands < MaxCommands
  /\ ServerWaits /\ tc1.at = "receives" /\ inbox = <<>>
  /\ \E m \in {Goto(d) : d \in Sensors \cup {NoNode}} \cup {SetSpeed(v) : v \in Speeds} :
       inbox' = Append(inbox, m)
  /\ shell' = "sends" /\ commands' = commands + 1
  /\ UNCHANGED <<controller, notif, server, line, world>>

-----------------------------------------------------------------------------
(* The controller. *)

\* The train is set in motion before the first Receive().
Starts ==
  /\ tc1.at = "starts" /\ ServerWaits
  /\ tc1' = Waiting
  /\ UNCHANGED <<s, inbox, clients, server, line, world>>

\* The sender is answered before its message is handled.
Replies(m) ==
  /\ notif' = IF m.type = "sensor" THEN "delays" ELSE notif
  /\ shell' = IF m.type \in {"goto", "speed"} THEN "reads" ELSE shell

\* handle_goto: the messages that end it before the route is replaced.
RouteTo(d) ==
  IF s.state = "discover" \/ s.last_node = NoNode \/ d \notin Sensors THEN NoRoute
  ELSE route_find(s.last_node, d)

HandleGoto(d) ==
  LET r == RouteTo(d)
  IN  /\ IF r = NoRoute THEN tc1' = Waiting /\ s' = s
         ELSE /\ tc1' = [at |-> "applies", msg |-> Goto(d), next |-> 1]
              /\ s' = [s EXCEPT !.route = r]
      /\ UNCHANGED requests

Receives ==
  /\ tc1.at = "receives" /\ inbox # <<>> /\ ServerWaits
  /\ LET m == Head(inbox)
     IN  /\ Replies(m)
         /\ CASE m.type = "sensor" -> /\ tc1' = [at |-> "scans", msg |-> m, next |-> 0]
                                      /\ UNCHANGED <<s, requests>>
              [] m.type = "goto"   -> HandleGoto(m.arg)
              [] m.type = "speed"  -> /\ tc1' = [tc1 EXCEPT !.at = "speeds"]
                                      /\ s' = [s EXCEPT !.speed = m.arg]
                                      /\ Asks(AskSpeed(m.arg))
  /\ inbox' = Tail(inbox)
  /\ UNCHANGED <<commands, reads, line, world>>

\* Seeded fault: only the first switch of a route is set.
AppliesFirstSwitch ==
  /\ tc1.at = "applies" /\ ServerWaits /\ tc1.next <= Len(s.route.sw)
  /\ Asks(AskSwitch(s.route.sw[tc1.next]))
  /\ tc1' = [tc1 EXCEPT !.next = Len(s.route.sw) + 1]
  /\ UNCHANGED <<s, inbox, clients, reads, line, world>>

\* route_apply_switches: one request after the other, then the train is routed.
AppliesSwitch ==
  /\ tc1.at = "applies" /\ ServerWaits /\ tc1.next <= Len(s.route.sw)
  /\ Asks(AskSwitch(s.route.sw[tc1.next]))
  /\ tc1' = [tc1 EXCEPT !.next = tc1.next + 1]
  /\ UNCHANGED <<s, inbox, clients, reads, line, world>>

SwitchesApplied ==
  /\ tc1.at = "applies" /\ ServerWaits /\ tc1.next > Len(s.route.sw)
  /\ s' = [s EXCEPT !.dest = tc1.msg.arg, !.state = "routing"]
  /\ tc1' = Waiting
  /\ UNCHANGED <<inbox, clients, server, line, world>>

SpeedApplied ==
  /\ tc1.at = "speeds" /\ ServerWaits
  /\ tc1' = Waiting
  /\ UNCHANGED <<s, inbox, clients, server, line, world>>

\* The first active sensor of a module that is not the last one hit.
Hits(snap, module) ==
  {i \in snap : i \div SENS_PER_M = module /\ i # s.last_node}

\* Seeded fault: at the destination itself the train is not stopped.
BeforeDest(hit) ==
  LET rem == route_dist_remaining(s.route.nodes, hit)
  IN  rem > 0 /\ rem <= stop_mm(s.speed) + 50

\* The stopping distance reaches the destination.
InReach(hit) ==
  LET rem == route_dist_remaining(s.route.nodes, hit)
  IN  rem >= 0 /\ rem <= stop_mm(s.speed) + 50

MustStop(hit) == s.state = "routing" /\ InReach(hit)

\* Seeded fault: the scan ends one module early.
EndsEarly(m) ==
  IF m + 2 >= MODULES THEN Waiting ELSE [tc1 EXCEPT !.at = "scans", !.next = m + 1]

NextModule(m) ==
  IF m + 1 = MODULES THEN Waiting ELSE [tc1 EXCEPT !.at = "scans", !.next = m + 1]

\* process_sensor, up to the stop command.
process_sensor(hit) ==
  /\ s' = [s EXCEPT !.last_node = hit,
                    !.state = IF @ = "discover" THEN "running" ELSE @]
  /\ IF MustStop(hit)
     THEN Asks(AskSpeed(0)) /\ tc1' = [tc1 EXCEPT !.at = "stops"]
     ELSE UNCHANGED requests /\ tc1' = NextModule(tc1.next)

ScansModule ==
  /\ tc1.at = "scans" /\ ServerWaits
  /\ LET hits == Hits(tc1.msg.arg, tc1.next)
     IN  IF hits = {} THEN tc1' = NextModule(tc1.next) /\ UNCHANGED <<s, requests>>
         ELSE process_sensor(Min(hits))
  /\ UNCHANGED <<inbox, clients, reads, line, world>>

Stopped ==
  /\ tc1.at = "stops" /\ ServerWaits
  /\ s' = [s EXCEPT !.speed = 0, !.state = "stopped"]
  /\ tc1' = NextModule(tc1.next)
  /\ UNCHANGED <<inbox, clients, server, line, world>>

Controller ==
  \/ Starts \/ Receives \/ ScansModule \/ Stopped
  \/ AppliesSwitch \/ SwitchesApplied \/ SpeedApplied

-----------------------------------------------------------------------------
(* The Marklin server. *)

\* Seeded fault: the address of a train is sent before its speed.
SwappedBytes(r) ==
  CASE r.type = "speed"  -> <<TRAIN_ADDR, r.arg % 16>>
    [] r.type = "switch" -> <<SW_BASE + r.arg[2], r.arg[1], 0>>
    [] r.type = "poll"   -> <<SENSOR_BASE + MODULES>>

Bytes(r) ==
  CASE r.type = "speed"  -> <<r.arg % 16, TRAIN_ADDR>>
    [] r.type = "switch" -> <<SW_BASE + r.arg[2], r.arg[1], 0>>
    [] r.type = "poll"   -> <<SENSOR_BASE + MODULES>>

\* Receives a request and puts its bytes on the line; all but a poll are
\* answered at once.
ServerSends ==
  /\ ~reads /\ requests # <<>>
  /\ wire' = wire \o Bytes(Head(requests))
  /\ requests' = Tail(requests)
  /\ reads' = (Head(requests).type = "poll")
  /\ UNCHANGED <<controller, inbox, clients, answer, world>>

\* The last sensor byte has come.  The notifier is answered, and sends what it
\* got to the controller before the controller runs.
ServerReads ==
  /\ reads /\ answer # <<>>
  /\ notif' = "sends"
  /\ inbox' = Append(inbox, Snapshot(Head(answer)))
  /\ answer' = Tail(answer)
  /\ reads' = FALSE
  /\ UNCHANGED <<controller, shell, commands, requests, wire, world>>

-----------------------------------------------------------------------------
(* External: the control box and the train. *)

\* The box obeys the command at the head of the line once all of it is there.
BoxObeys(n) ==
  /\ wire' = SubSeq(wire, n + 1, Len(wire))
  /\ UNCHANGED <<controller, inbox, clients, server>>

BoxSetsSpeed ==
  /\ Len(wire) >= 2 /\ wire[1] < 16
  /\ IF wire[2] = TRAIN_ADDR
     THEN /\ box' = [box EXCEPT !.speed = wire[1]]
          /\ train' = [train EXCEPT !.coast = IF wire[1] = 0 THEN MaxCoast ELSE 0]
     ELSE UNCHANGED world
  /\ BoxObeys(2)
  /\ UNCHANGED answer

BoxSetsSwitch ==
  /\ Len(wire) >= 3 /\ wire[1] \in {SW_BASE + 1, SW_BASE + 2}
  /\ box' = IF wire[2] \in DOMAIN box.turnout
            THEN [box EXCEPT !.turnout[wire[2]] = wire[1] - SW_BASE] ELSE box
  /\ BoxObeys(3)
  /\ UNCHANGED <<answer, train>>

BoxAnswersPoll ==
  /\ wire # <<>> /\ wire[1] > SENSOR_BASE
  /\ answer' = Append(answer, train.passed \cup ({train.at} \cap Sensors))
  /\ train' = [train EXCEPT !.passed = {}, !.since = 0]
  /\ BoxObeys(1)
  /\ UNCHANGED box

\* The node the turnouts lead to; NoNode where the track ends.
Ahead(n) ==
  LET edge == track[n].edge
  IN  IF edge = <<>> THEN NoNode
      ELSE edge[IF n \in Branches THEN box.turnout[track[n].num] ELSE 1].dest

TrainMoves ==
  LET n == Ahead(train.at)
      coast == IF box.speed > 0 THEN 0 ELSE train.coast - 1
  IN  /\ box.speed > 0 \/ train.coast > 0
      /\ n # NoNode
      /\ IF n \in Sensors
         THEN /\ train.since < MaxPerPoll
              /\ train' = [at |-> n, passed |-> train.passed \cup {n},
                           since |-> train.since + 1, coast |-> coast]
         ELSE train' = [train EXCEPT !.at = n, !.coast = coast]
      /\ UNCHANGED <<controller, inbox, clients, server, line, box>>

Box == BoxSetsSpeed \/ BoxSetsSwitch \/ BoxAnswersPoll

-----------------------------------------------------------------------------

CNext ==
  \/ NotifierPolls \/ ShellSends
  \/ Controller
  \/ ServerSends \/ ServerReads
  \/ Box
  \/ TrainMoves

\* Tasks that can run do; a train in motion moves on.  The user may never type.
CFairness ==
  /\ WF_trainVars(NotifierPolls) /\ WF_trainVars(Controller)
  /\ WF_trainVars(ServerSends) /\ WF_trainVars(ServerReads)
  /\ WF_trainVars(Box)
  /\ WF_trainVars(box.speed > 0 /\ TrainMoves)

CSpec == CInit /\ [][CNext]_trainVars
CFairSpec == CSpec /\ CFairness

-----------------------------------------------------------------------------
(* Properties. *)

\* Commands of different lengths share one line with polls: when the line is
\* silent and the controller idle, the train has the speed the controller
\* believes it has.
SpeedIsKnown ==
  tc1.at = "receives" /\ wire = <<>> => box.speed = s.speed

\* Once the switches of a goto are set, the turnouts lead from each node of
\* the route to the next, so a train on the route stays on it.
SwitchesLeadToDest ==
  s.state = "routing" /\ tc1.at # "applies" /\ wire = <<>> =>
    \A i \in 1..Len(s.route.nodes) - 1 : Ahead(s.route.nodes[i]) = s.route.nodes[i + 1]

\* A goto to another sensor is refused only if no track leads there, and else
\* takes a shortest route; when it is refused the controller keeps its state.
GotoIsShortest ==
  [][\A d \in Sensors :
       Receives /\ Head(inbox) = Goto(d) /\ s.last_node \notin {NoNode, d} =>
         IF Reachable(s.last_node, d)
         THEN IsShortestPath(s'.route.nodes, s.last_node, d)
         ELSE s' = s]_trainVars

\* Every sensor the train passes reaches the controller, through the poll, the
\* notifier, the debouncing and the scan.
SensorIsNoticed ==
  \A x \in Sensors : x \in train.passed ~> s.last_node = x

\* The train is on the route, and the turnouts lead it to the destination.
Guided ==
  \E i \in DOMAIN s.route.nodes :
    /\ train.at = s.route.nodes[i]
    /\ \A j \in i..Len(s.route.nodes) - 1 : Ahead(s.route.nodes[j]) = s.route.nodes[j + 1]

\* A routed train that moves on its route is told to stop there, if no further
\* command is typed.
RoutedTrainStops ==
  /\ s.state = "routing" /\ tc1.at = "receives" /\ s.speed > 0 /\ Guided
  /\ wire = <<>> /\ commands = MaxCommands /\ shell = "reads"
  ~> s.state = "stopped" /\ box.speed = 0
=============================================================================
