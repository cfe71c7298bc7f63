------------------------- MODULE LauncherMain_proofs ------------------------
(***************************************************************************)
(* The program as main runs it: LauncherInv and RunInv are invariants, for *)
(* any values, any limits and any machine, and what the runs of            *)
(* LauncherMain check follows from them.                                   *)
(***************************************************************************)
EXTENDS LauncherMain, DecakeLauncher_proofs, Integers

USE DEF callVars

\* RunIteration's own steps keep the invariant of the methods.
LEMMA RunKeepsInv == LauncherInv /\ RunInv /\ RunIteration => LauncherInv'
<1> SUFFICES ASSUME LauncherInv, RunInv, RunIteration PROVE LauncherInv'
  OBVIOUS
<1>1. CASE StartIteration
  <2> USE <1>1 DEF LauncherInv, TypeOK
  <2>1. /\ UNCHANGED <<clientVars, plcVars, object, wait>>
        /\ pc = "main" /\ pc' = "connect" /\ method' = "connect" /\ site' = "direct"
        /\ object = "none"
    BY DEF StartIteration, RunInv
  <2>2. ClientInv'
    BY <2>1, ClientSame
  <2>3. LauncherTypeOK' /\ PlcTypeOK'
    BY DEF StartIteration, LauncherTypeOK, ProgramPoints, PlcTypeOK, plcVars
  <2>4. CallInv' /\ ObjectInv' /\ RetryInv'
    BY <2>1 DEF clientVars, CallInv, ObjectInv, FlagExact, RetryInv,
                DISCONNECTED, SESSION, Connecting, Waiting, ConnectServices
  <2>5. CountInv' /\ LaunchInv' /\ FinalInv' /\ GivesUpAfterAll' /\ ClockInv'
    BY <2>1 DEF clientVars, plcVars, CountInv, NoRepeatedLaunch, Armed, LaunchInv,
                FinalInv, SuccessMeansEnded, GivesUpAfterAll, ClockInv, Waiting
  <2> QED
    BY <2>2, <2>3, <2>4, <2>5 DEF ClientInv
<1>2. CASE ThenDecake \/ ThenExit
  BY <1>2, AskKeepsInv DEF ThenDecake, ThenExit
<1>3. CASE ThenStop
  <2>1. ret \in BOOLEAN
    BY DEF LauncherInv, TypeOK, LauncherTypeOK
  <2> QED
    BY <1>3, <2>1, AskKeepsInv DEF ThenStop
<1> QED
  BY <1>1, <1>2, <1>3 DEF RunIteration

\* It goes on only over a link that is up.
LEMMA RunKeepsRunInv == LauncherInv /\ RunInv /\ RunIteration => RunInv'
<1> SUFFICES ASSUME LauncherInv, RunInv, RunIteration PROVE RunInv'
  OBVIOUS
<1>1. CASE StartIteration
  BY <1>1 DEF StartIteration, RunInv, plcVars
<1>2. CASE ThenDecake
  <2>1. asked = 0 /\ connected
    BY <1>2 DEF ThenDecake, RunInv
  <2>2. object # "freed"
    BY <2>1 DEF LauncherInv, ObjectInv, ClientInv, DISCONNECTED
  <2> QED
    BY <1>2, <2>1, <2>2 DEF ThenDecake, AskLaunch, RunInv, clientVars
<1>3. CASE ThenExit
  BY <1>3 DEF ThenExit, AskExit, RunInv, clientVars, plcVars
<1>4. CASE ThenStop
  BY <1>4 DEF ThenStop, AskStop, RunInv, plcVars
<1> QED
  BY <1>1, <1>2, <1>3, <1>4 DEF RunIteration

\* The methods, the library and the environment keep it: a method that
\* returned TRUE left the link up, so the next one does not reconnect.
LEMMA SystemKeepsRunInv == LauncherInv /\ RunInv /\ SystemStep => RunInv'
<1> SUFFICES ASSUME LauncherInv, RunInv, SystemStep PROVE RunInv'
  OBVIOUS
<1> USE DEF LauncherInv, RunInv
<1>1. SuccessMeansEnded'
  BY SystemKeepsInv DEF FinalInv
<1>2. CASE LaunchChecksLink
  BY <1>2 DEF LaunchChecksLink, EnsureConnected, AtPoint, plcVars
<1>3. CASE DialSucceeds
  BY <1>3, DialSucceedsEffect DEF TypeOK, plcVars
<1>4. CASE DialFails
  BY <1>4 DEF DialFails, AtPoint, RetryInv, Connecting, plcVars
<1>5. CASE CallSucceeds
  BY <1>5, CallSucceedsEffect DEF plcVars
<1>6. CASE WaitReads
  <2>1. pc' = "returned" /\ ret' => connected'
    BY <1>1, <1>6 DEF WaitReads, AtPoint, RetryInv, Waiting, SuccessMeansEnded
  <2> QED
    BY <1>6, <2>1 DEF WaitReads, AtPoint, RetryInv, Waiting, plcVars
<1>7. CASE KeepAliveReads \/ KeepAliveTouches \/ KeepAliveGoesOn
  BY <1>7 DEF KeepAliveReads, KeepAliveTouches, KeepAliveGoesOn, AtPoint, RetryInv
<1>8. CASE CallBuildUnitExit \/ CallFails
  BY <1>8 DEF CallBuildUnitExit, CallFails, ReturnFrom, AtPoint, plcVars
<1>9. CASE \/ ConnectFirst \/ ConnectDropsOld \/ DeleteOld \/ ConnectTouchesFreed
           \/ Dial \/ CallAutoDecake \/ WaitPolls
  BY <1>9 DEF ConnectFirst, ConnectDropsOld, DeleteOld, ConnectTouchesFreed, Dial,
              CallAutoDecake, WaitPolls, MakeClient, Crash, Goto, AtPoint, plcVars
<1>10. CASE StopWithoutClient \/ StopDisconnects \/ StopDeletes \/ StopTouchesFreed
  BY <1>10 DEF StopWithoutClient, StopDisconnects, StopDeletes, StopTouchesFreed,
               Exit, Crash, Goto, AtPoint, plcVars
<1>11. CASE LibraryMoves
  <2>1. at # "idle"
    BY <1>11, LibraryMovesEffect DEF ConnectPlaces, ConnectServices
  <2>2. pc \notin {"launch", "returned"}
    BY <2>1 DEF CallInv, ClientInv, ClientTypeOK, Places
  <2> QED
    BY <1>11, <2>2 DEF LibraryMoves, launcherVars, plcVars
<1>12. CASE Environment
  BY <1>12
  DEF Environment, ServerReplies, ServerAnswers, LinkDrops, ServerHangsUp, PlcStep,
      PlcStarts, PlcStartsLate, Execute, PlcRejects, PlcWorks, PlcEnds,
      launcherVars, plcVars, clientVars
<1> QED
  BY <1>2, <1>3, <1>4, <1>5, <1>6, <1>7, <1>8, <1>9, <1>10, <1>11, <1>12
  DEF SystemStep, MethodStep

LEMMA StepKeepsBoth ==
  LauncherInv /\ RunInv /\ [MainNext]_vars => LauncherInv' /\ RunInv'
<1> SUFFICES ASSUME LauncherInv, RunInv, [MainNext]_vars
             PROVE  LauncherInv' /\ RunInv'
  OBVIOUS
<1>1. CASE RunIteration
  BY <1>1, RunKeepsInv, RunKeepsRunInv
<1>2. CASE SystemStep
  BY <1>2, SystemKeepsInv, SystemKeepsRunInv
<1>3. CASE UNCHANGED vars
  BY <1>3, StutterKeepsInv DEF vars, clientVars, launcherVars, plcVars, RunInv
<1> QED
  BY <1>1, <1>2, <1>3 DEF MainNext, Process, SystemStep, Over

----------------------------------------------------------------------------

\* In every reachable state of the program the client, the launcher and the
\* machine fit together as LauncherInv and RunInv say.
THEOREM MainInvariance == MainSpec => [](LauncherInv /\ RunInv)
<1>1. Init => LauncherInv /\ RunInv
  BY InitKeepsInv DEF Init, RunInv
<1> QED
  BY <1>1, StepKeepsBoth, PTL DEF MainSpec

\* The steps of RunIteration go on over a link that is up, and never with a
\* client that was freed.
THEOREM RunsOverTheLink == MainSpec => []RunInv
BY MainInvariance, PTL

\* Type correctness of the whole program.
THEOREM MainTypeCorrect == MainSpec => []TypeOK
<1>1. LauncherInv => TypeOK
  BY DEF LauncherInv
<1> QED
  BY <1>1, MainInvariance, PTL

\* One process starts the machine at most once, and what earlier runs have left
\* open at the PLC starts it once for each call at most.
THEOREM LaunchesOnce == MainSpec => []AtMostOneLaunch
<1>1. LauncherInv /\ RunInv => AtMostOneLaunch
  <2> SUFFICES ASSUME LauncherInv, RunInv PROVE AtMostOneLaunch
    OBVIOUS
  <2>1. launches \in Nat /\ pending \in {0, 1} /\ late \in Nat /\ asked \in Nat
    BY DEF LauncherInv, TypeOK, PlcTypeOK
  <2>2. launches + pending + late <= asked + LeftOver /\ asked <= 1
    BY DEF LauncherInv, CountInv, NoRepeatedLaunch, RunInv
  <2> QED
    BY <2>1, <2>2, LauncherAssumption DEF AtMostOneLaunch
<1> QED
  BY <1>1, MainInvariance, PTL

\* connectRetry is dead code under RunIteration.
THEOREM ReconnectIsDead == MainSpec => []NeverReconnects
<1>1. LauncherInv /\ RunInv => NeverReconnects
  BY DEF RunInv, NeverReconnects
<1> QED
  BY <1>1, MainInvariance, PTL

\* The program dies on its freed client only before it has asked for a launch.
THEOREM CrashesEarly == MainSpec => []NoCrashAfterLaunch
<1>1. LauncherInv /\ RunInv => NoCrashAfterLaunch
  BY DEF RunInv, NoCrashAfterLaunch
<1> QED
  BY <1>1, MainInvariance, PTL

\* The launcher uses the client library as UAClient's Caller does: it dials new
\* clients only, sets the flag of an open session only and deletes clients that
\* are down.  So what is proved of ClientSpec holds under the program.
THEOREM MainIsACaller == MainSpec => ClientSpec
<1>1. Init => ClientInit
  BY DEF Init
<1>2. LauncherInv /\ [MainNext]_vars => [ClientNext]_clientVars
  <2> SUFFICES ASSUME LauncherInv, [MainNext]_vars PROVE [ClientNext]_clientVars
    OBVIOUS
  <2>1. CASE RunIteration
    BY <2>1 DEF RunIteration, StartIteration, ThenDecake, ThenExit, ThenStop,
                AskLaunch, AskExit, AskStop
  <2>2. CASE SystemStep
    BY <2>2, Discipline
  <2>3. CASE UNCHANGED vars
    BY <2>3 DEF vars
  <2> QED
    BY <2>1, <2>2, <2>3 DEF MainNext, Process, SystemStep, Over
<1> QED
  BY <1>1, <1>2, MainInvariance, PTL DEF MainSpec, ClientSpec

----------------------------------------------------------------------------
(* The steps of the whole program are bounded.                              *)

\* A method step never adds to what follows it.
LEMMA FollowingFalls ==
  ASSUME LauncherInv, MethodStep \/ LibraryMoves
  PROVE  FollowingSteps \in Nat /\ FollowingSteps' \in 0..FollowingSteps
<1>1. LaunchSteps \in Nat
  BY StepNumbers DEF LaunchSteps, AttemptSteps
<1>2. FollowingSteps \in Nat
  BY <1>1 DEF FollowingSteps, AttemptSteps
<1>3. UNCHANGED method
  BY DialSucceedsEffect, LibraryMovesEffect
  DEF MethodStep, ConnectFirst, ConnectDropsOld, DeleteOld, ConnectTouchesFreed,
      MakeClient, Dial, DialSucceeds, DialFails, LaunchChecksLink, CallAutoDecake,
      CallBuildUnitExit, CallFails, CallSucceeds, WaitPolls, WaitReads,
      KeepAliveReads, KeepAliveGoesOn, StopWithoutClient, StopDisconnects,
      StopDeletes, StopTouchesFreed, KeepAliveTouches, Exit, Crash, Goto,
      ReturnFrom, LauncherInv
<1>4. /\ pc' # "main"
      /\ pc \in {"stop", "stopping", "exited", "crashed"} =>
           pc' \in {"stop", "stopping", "exited", "crashed"}
  <2>1. CASE MethodStep
    <3>1. CASE DialSucceeds
      BY <3>1, DialSucceedsEffect DEF LauncherInv, TypeOK
    <3>2. CASE CallSucceeds
      BY <3>2, CallSucceedsEffect DEF LauncherInv
    <3>3. CASE ~DialSucceeds /\ ~CallSucceeds
      BY <2>1, <3>3
      DEF MethodStep, ConnectFirst, ConnectDropsOld, DeleteOld, ConnectTouchesFreed,
          MakeClient, Dial, DialFails, LaunchChecksLink, EnsureConnected,
          CallAutoDecake, CallBuildUnitExit, CallFails, WaitPolls, WaitReads,
          KeepAliveReads, KeepAliveGoesOn, StopWithoutClient, StopDisconnects,
          StopDeletes, StopTouchesFreed, KeepAliveTouches, Exit, Crash, Goto,
          ReturnFrom, AtPoint
    <3> QED
      BY <3>1, <3>2, <3>3
  <2>2. CASE LibraryMoves
    <3>1. UNCHANGED pc /\ at # "idle"
      BY <2>2, LibraryMovesEffect DEF LauncherInv, ConnectPlaces, ConnectServices
    <3>2. pc # "main"
      BY <3>1 DEF LauncherInv, CallInv, ClientInv, ClientTypeOK, Places
    <3> QED
      BY <3>1, <3>2
  <2> QED
    BY <2>1, <2>2
<1>5. \/ FollowingSteps' = 0
      \/ FollowingSteps' = FollowingSteps
      \/ pc = "main"
  BY <1>3, <1>4 DEF FollowingSteps
<1>6. pc # "main"
  <2>1. CASE MethodStep
    BY <2>1
    DEF MethodStep, ConnectFirst, ConnectDropsOld, DeleteOld, ConnectTouchesFreed,
        Dial, DialSucceeds, DialFails, LaunchChecksLink, CallAutoDecake,
        CallBuildUnitExit, CallFails, CallSucceeds, WaitPolls, WaitReads,
        KeepAliveReads, KeepAliveGoesOn, StopWithoutClient, StopDisconnects,
        StopDeletes, StopTouchesFreed, KeepAliveTouches, AtPoint
  <2>2. CASE LibraryMoves
    BY <1>4, <2>2 DEF LibraryMoves, launcherVars
  <2> QED
    BY <2>1, <2>2
<1>7. \A f \in Nat : 0 \in 0..f /\ f \in 0..f
  OBVIOUS
<1> QED
  BY <1>2, <1>5, <1>6, <1>7, Zenon

\* A step of RunIteration begins the next method with what was set aside for it.
LEMMA RunStepShortens ==
  LauncherInv /\ RunIteration => RunStepsLeft' \in 0..(RunStepsLeft - 1)
<1> SUFFICES ASSUME LauncherInv, RunIteration
             PROVE  RunStepsLeft' \in 0..(RunStepsLeft - 1)
  OBVIOUS
<1>1. LaunchSteps \in Nat
  BY StepNumbers DEF LaunchSteps, AttemptSteps
<1>2. CASE StartIteration
  <2>1. RunStepsLeft = 2 * LaunchSteps + 19
    <3>1. StepsLeft = 0
      BY <1>2 DEF StartIteration, StepsLeft
    <3>2. FollowingSteps = 2 * LaunchSteps + 12 + 7
      BY <1>2 DEF StartIteration, FollowingSteps, AttemptSteps
    <3> QED
      BY <1>1, <3>1, <3>2 DEF RunStepsLeft
  <2>2. RunStepsLeft' = 2 * LaunchSteps + 18
    BY <1>1, <1>2
    DEF StartIteration, RunStepsLeft, StepsLeft, ConnectSteps, FollowingSteps,
        AttemptSteps, LaunchSteps, CallSteps
  <2> QED
    BY <1>1, <2>1, <2>2
<1>3. CASE ThenDecake
  <2>1. RunStepsLeft = 2 * LaunchSteps + 6
    BY <1>1, <1>3 DEF ThenDecake, RunStepsLeft, StepsLeft, FollowingSteps
  <2>2. RunStepsLeft' = LaunchSteps + LaunchSteps + 5
    BY <1>1, <1>3
    DEF ThenDecake, AskLaunch, RunStepsLeft, StepsLeft, FollowingSteps,
        LaunchSteps, CallSteps, AttemptSteps
  <2> QED
    BY <1>1, <2>1, <2>2
<1>4. CASE ThenExit
  <2>1. RunStepsLeft = LaunchSteps + 5
    BY <1>1, <1>4 DEF ThenExit, RunStepsLeft, StepsLeft, FollowingSteps
  <2>2. RunStepsLeft' = LaunchSteps + 4
    BY <1>1, <1>4
    DEF ThenExit, AskExit, RunStepsLeft, StepsLeft, FollowingSteps,
        LaunchSteps, CallSteps, AttemptSteps
  <2> QED
    BY <1>1, <2>1, <2>2
<1>5. CASE ThenStop
  <2>1. RunStepsLeft \in Nat /\ RunStepsLeft >= 4
    BY <1>1, <1>5 DEF ThenStop, RunStepsLeft, StepsLeft, FollowingSteps
  <2>2. RunStepsLeft' = 3
    <3>1. StepsLeft' = 3 /\ FollowingSteps' = 0
      BY <1>5 DEF ThenStop, AskStop, StepsLeft, FollowingSteps
    <3>2. 3 + 0 = 3
      OBVIOUS
    <3> QED
      BY <3>1, <3>2, Zenon DEF RunStepsLeft
  <2> QED
    BY <2>1, <2>2
<1> QED
  BY <1>2, <1>3, <1>4, <1>5 DEF RunIteration

LEMMA ProcessShortens ==
  LauncherInv /\ Process => RunStepsLeft' \in 0..(RunStepsLeft - 1)
<1> SUFFICES ASSUME LauncherInv, MethodStep \/ LibraryMoves
             PROVE  RunStepsLeft' \in 0..(RunStepsLeft - 1)
  BY RunStepShortens DEF Process
<1>1. StepsLeft' \in 0..(StepsLeft - 1)
  BY MethodShortens, LibraryLowersBound
<1>2. FollowingSteps \in Nat /\ FollowingSteps' \in 0..FollowingSteps
  BY FollowingFalls
<1>3. StepsLeft \in Int
  <2>1. /\ LaunchSteps \in Int /\ ConnectSteps \in Int /\ CallSteps \in Int
        /\ PollSteps(TimeoutSec) \in Int /\ PollSteps(SleepSec) \in Int
    BY StepNumbers DEF LaunchSteps, ConnectSteps, PollSteps, AttemptSteps
  <2>2. WaitsLeft \in Int
    BY DEF WaitsLeft
  <2> QED
    BY <2>1, <2>2 DEF StepsLeft
<1>4. ASSUME NEW s \in Int, NEW f \in Nat, NEW t \in 0..(s - 1), NEW g \in 0..f,
             NEW m, NEW n, m = t + g, n = s + f
      PROVE  m \in 0..(n - 1)
  <2>1. t + g \in 0..(s + f - 1)
    OBVIOUS
  <2> QED
    BY <1>4, <2>1
<1> QED
  BY <1>1, <1>2, <1>3, <1>4, Zenon DEF RunStepsLeft

\* The process takes no more steps than RunStepsLeft in the beginning, whatever
\* it is answered: the safety half of RunEnds.
THEOREM RunsAreShort == MainSpec => RunShortens
<1>1. LauncherInv /\ [MainNext]_vars =>
        [Process => RunStepsLeft' \in 0..(RunStepsLeft - 1)]_vars
  BY ProcessShortens
<1> QED
  BY <1>1, MainInvariance, PTL DEF MainSpec, RunShortens

----------------------------------------------------------------------------
(* A connection that is lost in the wait fails the run.                     *)

\* Nothing but the launcher moves a client that is down.
LEMMA LostWaitGoesOn ==
  ASSUME LauncherInv, Waiting, clientState = DISCONNECTED, [MainNext]_vars
  PROVE  Doomed' /\ asked' = asked
<1> USE DEF Waiting
<1>1. at = "idle" /\ ~attached
  <2>1. at \notin {"tcp", "hel", "opn"} \cup ConnectServices
    BY DEF LauncherInv, CallInv
  <2>2. at \notin {"user", "closing"}
    BY
    DEF LauncherInv, ClientInv, Up, HalfOpen, DISCONNECTED, SESSION, SECURECHANNEL
  <2>3. at = "idle"
    BY <2>1, <2>2 DEF LauncherInv, ClientInv, ClientTypeOK, Places
  <2> QED
    BY <2>3 DEF LauncherInv, ClientInv, Up, Down, DISCONNECTED, SESSION
<1>2. object = "live"
  BY DEF LauncherInv, ObjectInv
<1>3. CASE WaitPolls
  <2>1. clientState' = DISCONNECTED
    BY <1>1, <1>3, ServiceEffect DEF WaitPolls, LauncherInv
  <2> QED
    BY <1>3, <2>1 DEF WaitPolls, Doomed, plcVars
<1>4. CASE WaitReads
  <2>1. result # "good"
    BY <1>1, <1>4
    DEF WaitReads, AtPoint, LauncherInv, CallInv, DISCONNECTED, SESSION
  <2>2. wait' = IntIteration(wait, Failed)
    BY <1>4, <2>1 DEF WaitReads
  <2>3. wait \in Waits /\ ~wait.met /\ wait.value \notin FinalValues
    BY DEF LauncherInv, FinalInv, TypeOK, LauncherTypeOK
  <2>4. Failed \in Values \cup {Failed} /\ Failed \notin FinalValues
    BY ValuesAssumption
  <2>5. ~GoesOn(wait', MaxRetry) => ~IntReturns(wait', MaxRetry)
    BY <2>2, <2>3, <2>4, IterationEffect
  <2>6. \/ pc' = "waitTop"
        \/ pc' = "returned" /\ ~ret'
    BY <1>4, <2>5 DEF WaitReads
  <2> QED
    BY <1>2, <1>4, <2>6 DEF WaitReads, clientVars, plcVars, Doomed
<1>5. CASE MethodStep /\ ~WaitPolls /\ ~WaitReads
  BY <1>5
  DEF MethodStep, ConnectFirst, ConnectDropsOld, DeleteOld, ConnectTouchesFreed,
      Dial, DialSucceeds, DialFails, LaunchChecksLink, CallAutoDecake,
      CallBuildUnitExit, CallFails, CallSucceeds, KeepAliveReads, KeepAliveGoesOn,
      StopWithoutClient, StopDisconnects, StopDeletes, StopTouchesFreed,
      KeepAliveTouches, AtPoint
<1>6. CASE LibraryMoves
  BY <1>1, <1>6, LibraryMovesEffect DEF LauncherInv, ConnectPlaces, ConnectServices
<1>7. CASE RunIteration
  BY <1>7 DEF RunIteration, StartIteration, ThenDecake, ThenExit, ThenStop
<1>8. CASE Environment \/ UNCHANGED vars
  BY <1>8
  DEF Environment, ServerReplies, ServerAnswers, LinkDrops, ServerHangsUp, PlcStep,
      PlcStarts, PlcStartsLate, Execute, PlcRejects, PlcWorks, PlcEnds, Doomed,
      vars, launcherVars, clientVars, plcVars
<1> QED
  BY <1>3, <1>4, <1>5, <1>6, <1>7, <1>8 DEF MainNext, Process, Over

\* Stop(FALSE) is all that is left after a failure, and exit(EXIT_FAILURE).
LEMMA FailureGoesOn ==
  ASSUME LauncherInv, [MainNext]_vars,
         \/ pc \in {"returned", "stop", "stopping"} /\ object = "live" /\ ~ret
         \/ pc = "exited" /\ exitCode = "failure"
  PROVE  Doomed' /\ asked' = asked
<1>1. CASE StopDisconnects \/ StopDeletes
  BY <1>1 DEF StopDisconnects, StopDeletes, Goto, Exit, AtPoint, Doomed, plcVars
<1>2. CASE MethodStep /\ ~StopDisconnects /\ ~StopDeletes
  BY <1>2
  DEF MethodStep, ConnectFirst, ConnectDropsOld, DeleteOld, ConnectTouchesFreed,
      Dial, DialSucceeds, DialFails, LaunchChecksLink, CallAutoDecake,
      CallBuildUnitExit, CallFails, CallSucceeds, WaitPolls, WaitReads,
      KeepAliveReads, KeepAliveGoesOn, StopWithoutClient, StopTouchesFreed,
      KeepAliveTouches, AtPoint
<1>3. CASE RunIteration
  BY <1>3
  DEF RunIteration, StartIteration, ThenDecake, ThenExit, ThenStop, AskStop, Doomed,
      plcVars
<1>4. CASE LibraryMoves \/ Environment \/ UNCHANGED vars
  BY <1>4
  DEF LibraryMoves, Environment, ServerReplies, LinkDrops, PlcStep, PlcStarts,
      PlcStartsLate, Execute, PlcRejects, PlcWorks, PlcEnds, Doomed, vars,
      launcherVars, plcVars
<1> QED
  BY <1>1, <1>2, <1>3, <1>4 DEF MainNext, Process, Over

\* A loss of the connection in the wait, or a method that failed, is final: no
\* later answer, reconnect or other step turns the run into a success or asks
\* the machine for anything more.
THEOREM LossIsForGood == MainSpec => LossIsFinal
<1>1. LauncherInv /\ [MainNext]_vars => [Doomed => Doomed' /\ asked' = asked]_vars
  BY LostWaitGoesOn, FailureGoesOn DEF Doomed
<1> QED
  BY <1>1, MainInvariance, PTL DEF MainSpec, LossIsFinal

----------------------------------------------------------------------------

\* RunIteration is one caller of LaunchAutoDecake among others: its launch keeps
\* the contract, too.
THEOREM RunKeepsPromise == MainSpec => KeepsPromise
<1>1. LauncherInv /\ [MainNext]_vars => [Promise!LaunchNext]_(Promise!launchVars)
  <2> SUFFICES ASSUME LauncherInv, [MainNext]_vars
               PROVE  [Promise!LaunchNext]_(Promise!launchVars)
    OBVIOUS
  <2>1. CASE SystemStep
    BY <2>1, PromiseStep
  <2>2. CASE RunIteration
    BY <2>2, AskPromise
    DEF RunIteration, StartIteration, ThenDecake, ThenExit, ThenStop, AskLaunch,
        AskExit, AskStop, plcVars
  <2>3. CASE UNCHANGED vars
    BY <2>3, SamePromise DEF vars, launcherVars, plcVars, CallStatus, Armed
  <2> QED
    BY <2>1, <2>2, <2>3 DEF MainNext, Process, SystemStep, Over
<1> QED
  BY <1>1, InitPromise, MainInvariance, PTL
  DEF MainSpec, KeepsPromise, Promise!LaunchSpec

\* What is proved of the client under any disciplined caller holds under main.
THEOREM MainKeepsContract == MainSpec => KeepsContract /\ CallsShorten /\ []LossReportedOnce
BY MainIsACaller, ContractKept, CallsAreShort, LossIsReportedOnce
=============================================================================
