---------------------------- MODULE LauncherMain ----------------------------
(***************************************************************************)
(* The program: main creates one DecakeLauncher and calls RunIteration,    *)
(* which connects, launches the cleaning, launches the build unit exit and *)
(* stops the process, at the first failure or at the end.                  *)
(***************************************************************************)
EXTENDS DecakeLauncher

\* main enters RunIteration, which begins with connectClient.
StartIteration ==
  /\ pc = "main"
  /\ pc' = "connect"
  /\ method' = "connect"
  /\ site' = "direct"
  /\ UNCHANGED <<retries, ret, object, wait, elapsed, exitCode, clientVars, plcVars>>

\* Slip: RunIteration goes on after Stop(FALSE).
ThenExitAnyway == pc = "returned" /\ method = "decake" /\ AskExit

\* Each step of RunIteration follows one that returned TRUE.
ThenDecake == pc = "returned" /\ method = "connect" /\ ret /\ AskLaunch
ThenExit == pc = "returned" /\ method = "decake" /\ ret /\ AskExit

\* Slip: Stop() without its argument, which defaults to TRUE.
ThenStopByDefault ==
  pc = "returned" /\ (ret => method = "buexit") /\ AskStop(TRUE)

\* Stop(TRUE) after the last step, Stop(FALSE) after one that failed.
ThenStop == pc = "returned" /\ (ret => method = "buexit") /\ AskStop(ret)

RunIteration == StartIteration \/ ThenDecake \/ ThenExit \/ ThenStop

\* The process moves by itself: the launcher and the library in its thread.
Process == RunIteration \/ MethodStep \/ LibraryMoves

MainNext == Process \/ Environment \/ Over
MainSpec == Init /\ [][MainNext]_vars

\* Reads, calls and sleeps all end, so the process is never held up for ever;
\* nothing is assumed of the server, the network or the machine.
FairMainSpec == MainSpec /\ WF_vars(Process)

----------------------------------------------------------------------------

\* One process, one launch: whatever is lost, refused or late, this run starts
\* the machine at most once, even after the launcher is gone, on top of what
\* earlier runs have left at the PLC.
AtMostOneLaunch == launches + pending + late <= 1 + LeftOver

\* Inside RunIteration the reconnect logic is never needed: every method
\* finds the link up, since a loss before it has failed the step in front.
NeverReconnects == pc = "connect" => site = "direct" /\ object = "none"

\* The launcher only touches the client it has freed before it has asked the
\* machine for anything.  (What the library frees and touches is in SecureChannel.)
NoCrashAfterLaunch == pc = "crashed" => asked = 0

\* RunIteration goes on only over a link that is up, and holds a client that it
\* has freed only before it asks for anything.  This is the inductive invariant
\* of LauncherMain_proofs, with LauncherInv.
RunInv ==
  /\ asked <= 1
  /\ method # "sleep"
  /\ method = "connect" => asked = 0
  /\ site = "direct"
  /\ pc = "main" => method = "connect" /\ object = "none"
  /\ pc = "connect" => object = "none"
  /\ pc = "launch" \/ (pc = "returned" /\ ret) => connected
  /\ object = "freed" \/ pc = "crashed" => method = "connect"

\* The connection is lost in a wait, or a method has failed with a live client: the
\* run is going to fail.
Doomed ==
  \/ Waiting /\ clientState = DISCONNECTED
  \/ pc \in {"returned", "stop", "stopping"} /\ object = "live" /\ ~ret
  \/ pc = "exited" /\ exitCode = "failure"

\* Nothing saves it: no late answer and no step of RunIteration leads back to the
\* machine, to a success or to another launch, and the launcher does not reconnect to
\* look for the process that is still going on.
LossIsFinal == [][Doomed => Doomed' /\ asked' = asked]_vars

\* The steps of the methods that may still follow the one in progress.
FollowingSteps ==
  IF pc = "main" THEN 2 * LaunchSteps + AttemptSteps + 7
  ELSE IF pc \in {"stop", "stopping", "exited", "crashed"} THEN 0
  ELSE CASE method = "connect" -> 2 * LaunchSteps + 6
         [] method = "decake" -> LaunchSteps + 5
         [] OTHER -> 4

RunStepsLeft == StepsLeft + FollowingSteps

\* Whatever the machine and the network do, each step of the process brings its end
\* nearer, so that it takes no more of them than it had left in the beginning.
RunShortens == [][Process => RunStepsLeft' \in 0..(RunStepsLeft - 1)]_vars

\* The process ends, whatever the machine and the network do.
RunEnds == <>(pc \in {"exited", "crashed"})

\* "sleep_between_cycles" (main.cpp:1154): a cycle that cleaned the machine is
\* followed by the sleep before the next one.
CyclesRepeat ==
  (pc = "returned" /\ method = "decake" /\ ret) ~> pc = "sleepTop"

\* "ConnectClient: Client = nullptr" (DecakeLauncher.cpp:74): a client that was
\* deleted is not used again, and a failed run ends in exit(EXIT_FAILURE).
EndsByExit == pc # "crashed"
=============================================================================
