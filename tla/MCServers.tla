------------------------------ MODULE MCServers ------------------------------
(* Three servers of interrupts, checked in one run: the initial state chooses *)
(* the clock, the accelerator or the console, and only that one runs.         *)
(* Of the accelerator, two clients whose batches meet on two cores.           *)
EXTENDS MCClockServer, ApuServer, MCConsoleInput

VARIABLE part

mcApuClients == {1, 2}
mcCores == {1, 2}

serversVars == <<part, clockVars, apuVars, conVars>>

ServersInit ==
  /\ part \in {"clock", "apu", "console"} /\ ClockInit /\ AInit /\ CInit

ServersNext ==
  /\ UNCHANGED part
  /\ \/ part = "clock" /\ ClockNext /\ UNCHANGED <<apuVars, conVars>>
     \/ part = "apu" /\ ANext /\ UNCHANGED <<clockVars, conVars>>
     \/ part = "console" /\ CNext /\ UNCHANGED <<clockVars, apuVars>>

\* ClockFairness, AFairness and CFairness, each as long as its part runs.
ServersFairness ==
  /\ WF_clockVars(part = "clock" /\ NotifierAwaitsTick)
  /\ WF_clockVars(part = "clock" /\ TimerIRQ)
  /\ WF_clockVars(part = "clock" /\ NotifierSendsTick)
  /\ WF_clockVars(part = "clock" /\ (ServeTimeOrFull \/ ServeDelay \/ ServeTick))
  /\ \A k \in Cores :
       /\ WF_apuVars(part = "apu" /\ (WorkerTakes(k) \/ WorkerRuns(k) \/ WorkerCompletes(k)))
       /\ WF_apuVars(part = "apu" /\ ApuDoneIRQ(k))
       /\ WF_apuVars(part = "apu" /\ (ServerDispatches(k) \/ ServerChecks(k) \/ ServerAwaits(k)))
  /\ \A c \in ApuClients : WF_apuVars(part = "apu" /\ (BatchSends(c) \/ BatchReturns(c)))
  /\ WF_conVars(part = "console" /\ ReceiveIRQ)
  /\ WF_conVars(part = "console" /\ NotifierAwaits)
  /\ WF_conVars(part = "console" /\ NotifierForwards)
  /\ WF_conVars(part = "console" /\ ServerRegisters)
  /\ WF_conVars(part = "console" /\ (ServeRXIC \/ ServeGetc \/ ServePeek))
  /\ SF_conVars(part = "console" /\ ReaderGets)

ServersSpec ==
  /\ ServersInit
  /\ [][ServersNext]_serversVars
  /\ ServersFairness
=============================================================================
