----------------------------- MODULE MCLargeParts ----------------------------
(* The parts that stand alone and need more room, checked in one run: the    *)
(* initial state chooses a part, and only its variables change.              *)
EXTENDS EventBus, Boot, TrackTour

VARIABLE part

mcTopics == {"sensor", "speed"}
mcObservers == {7, 8}

largeVars == <<part, busVars, bootVars, tourVars>>

LargeInit ==
  /\ part \in {"bus", "boot", "tour"} /\ BusInit /\ BootInit /\ TourInit
  /\ part # "tour" => layout = "A" /\ s.last_node = 0  \* one is enough

LargeNext ==
  /\ UNCHANGED part
  /\ \/ part = "bus" /\ BusNext /\ UNCHANGED <<bootVars, tourVars>>
     \/ part = "boot" /\ BootNext /\ UNCHANGED <<busVars, tourVars>>
     \/ part = "tour" /\ TourNext /\ UNCHANGED <<busVars, bootVars>>

LargeSpec == LargeInit /\ [][LargeNext]_largeVars
=============================================================================
