------------------------------ MODULE MCParts -------------------------------
(* The parts of the system that stand alone, checked in one run: the initial *)
(* state chooses a part, and only its variables change.                      *)
EXTENDS ReadyHeap, Rps, Memory, RamFs, ConsoleObservers, DisplayServer, TLC

CONSTANTS p1, p2, p3, p4

VARIABLE part

mcPids == {p1, p2, p3, p4}
mcPriorities == {0, 1}
mcPlayers == {p1, p2, p3, p4}
mcSymmetry == Permutations(mcPids)
mcLengths == {1, 2, 3}
mcPaths == {"/a", "/a/f", "/long"}
mcStored == [p \in mcPaths |-> IF p = "/long" THEN "/lon" ELSE p]
mcParentDir == [p \in mcPaths \cup {"/lon"} |-> IF p = "/a/f" THEN "/a" ELSE "/"]
mcFileBytes == {"x", "y"}
mcFileTexts == {<<>>, <<"x">>, <<"x", "y">>}

mcGlyphs == {"x"}
mcWrites == {<<"x">>, <<"LF">>, <<"x", "LF">>, <<"CR", "x">>, <<"BS">>, <<"TAB">>,
             <<"CSI J", "CSI H">>, <<"CSI K">>}
mcTrees == {[p \in Cells |-> IF p[2] \in {0, Cols - 1} THEN "|" ELSE " "]}

partVars == <<part, heapVars, rpsVars, memVars, ramVars, observerVars, displayVars>>

PartsInit ==
  /\ part \in {"heap", "rps", "memory", "ramfs", "console", "display"}
  /\ HInit /\ RpsInit /\ MemInit /\ RamInit
  /\ ObserversInit /\ DisplayInit

PartsNext ==
  /\ UNCHANGED part
  /\ \/ part = "heap" /\ HNext
        /\ UNCHANGED <<rpsVars, memVars, ramVars, observerVars, displayVars>>
     \/ part = "rps" /\ RpsNext
        /\ UNCHANGED <<heapVars, memVars, ramVars, observerVars, displayVars>>
     \/ part = "memory" /\ MemNext
        /\ UNCHANGED <<heapVars, rpsVars, ramVars, observerVars, displayVars>>
     \/ part = "ramfs" /\ RamNext
        /\ UNCHANGED <<heapVars, rpsVars, memVars, observerVars, displayVars>>
     \/ part = "console" /\ ObserversNext
        /\ UNCHANGED <<heapVars, rpsVars, memVars, ramVars, displayVars>>
     \/ part = "display" /\ DisplayNext
        /\ UNCHANGED <<heapVars, rpsVars, memVars, ramVars, observerVars>>

PartsSpec == PartsInit /\ [][PartsNext]_partVars
=============================================================================
