------------------------- MODULE LauncherAPI_proofs -------------------------
(***************************************************************************)
(* The methods under any caller: LauncherInv is an invariant of LauncherAPI *)
(* for any number of calls, values and attempts, and the safety properties  *)
(* of the methods follow from it.                                           *)
(***************************************************************************)
EXTENDS LauncherAPI, DecakeLauncher_proofs

USE DEF callVars

\* Any choice of the next method keeps the invariant.
LEMMA UserKeepsInv == LauncherInv /\ User => LauncherInv'
<1> SUFFICES ASSUME LauncherInv, User PROVE LauncherInv'
  OBVIOUS
<1>1. CASE LaunchAutoDecake \/ LaunchBuildUnitExit \/ Stop
  BY <1>1, AskKeepsInv DEF LaunchAutoDecake, LaunchBuildUnitExit, Stop, Ready
<1>2. CASE SleepWithKeepAlive
  <2> USE <1>2 DEF LauncherInv, TypeOK
  <2>1. /\ UNCHANGED <<clientVars, plcVars, object, wait, retries, site, ret>>
        /\ pc \in {"main", "returned"} /\ pc' = "sleepTop" /\ method' = "sleep"
    BY DEF SleepWithKeepAlive, Ready
  <2>2. ClientInv'
    BY <2>1, ClientSame
  <2>3. LauncherTypeOK' /\ PlcTypeOK'
    BY DEF SleepWithKeepAlive, LauncherTypeOK, ProgramPoints, PlcTypeOK, plcVars
  <2>4. CallInv' /\ ObjectInv' /\ RetryInv'
    BY <2>1 DEF clientVars, CallInv, ObjectInv, FlagExact, RetryInv,
                DISCONNECTED, SESSION, Connecting, Waiting, ConnectServices
  <2>5. CountInv' /\ LaunchInv' /\ FinalInv' /\ GivesUpAfterAll' /\ ClockInv'
    BY <2>1, LauncherAssumption
    DEF SleepWithKeepAlive, clientVars, plcVars, CountInv, NoRepeatedLaunch, Armed,
        LaunchInv, FinalInv, SuccessMeansEnded, GivesUpAfterAll, ClockInv, Waiting
  <2> QED
    BY <2>2, <2>3, <2>4, <2>5 DEF ClientInv
<1> QED
  BY <1>1, <1>2 DEF User

LEMMA StepKeepsInv == LauncherInv /\ [APINext]_vars => LauncherInv'
  BY SystemKeepsInv, UserKeepsInv, StutterKeepsInv
  DEF APINext, Process, SystemStep, Over

----------------------------------------------------------------------------

\* LauncherInv holds in every reachable state, whoever calls the methods.
THEOREM APIInvariance == APISpec => []LauncherInv
BY InitKeepsInv, StepKeepsInv, PTL DEF APISpec

\* isConnected() is exact outside the library.
THEOREM FlagIsExact == APISpec => []FlagExact
<1>1. LauncherInv => FlagExact
  BY DEF LauncherInv, ObjectInv
<1> QED
  BY <1>1, APIInvariance, PTL

\* Failures, reconnects and calls executed late start no process that nobody asked
\* for, in this run or in one before it.
THEOREM LaunchesAsAsked == APISpec => []NoRepeatedLaunch
<1>1. LauncherInv => NoRepeatedLaunch
  BY DEF LauncherInv, CountInv
<1> QED
  BY <1>1, APIInvariance, PTL

\* A wait follows a call that the machine executed itself, whatever earlier calls
\* it executes as well.
THEOREM WaitsForLaunched == APISpec => []WaitsOnlyForLaunched
<1>1. LauncherInv => WaitsOnlyForLaunched
  BY DEF LauncherInv, LaunchInv, Waiting, WaitsOnlyForLaunched
<1> QED
  BY <1>1, APIInvariance, PTL

\* TRUE means that the machine has executed the call and ended a process after it,
\* if it leaves its old final state before it answers; and that it stands still,
\* unless it has executed an earlier call since, over whatever connection.
THEOREM SuccessIsReal == APISpec => []SuccessMeansEnded
<1>1. LauncherInv => SuccessMeansEnded
  BY DEF LauncherInv, FinalInv
<1> QED
  BY <1>1, APIInvariance, PTL

\* connectRetry gives up after MaxConnectRetry attempts and not before.
THEOREM AllAttemptsUsed == APISpec => []GivesUpAfterAll
<1>1. LauncherInv => GivesUpAfterAll
  BY DEF LauncherInv
<1> QED
  BY <1>1, APIInvariance, PTL

\* No method call is made over a link that is known to be down.
THEOREM CallsOverTheLink == APISpec => []CallsOnlyWhenConnected
<1>1. LauncherInv => CallsOnlyWhenConnected
  BY DEF LauncherInv, ObjectInv, CallsOnlyWhenConnected
<1> QED
  BY <1>1, APIInvariance, PTL

\* connectRetry never runs for the wait: a method call that succeeded has left
\* the link up, so the second isConnected() of LaunchAutoDecake is always TRUE.
THEOREM NoReconnectBeforeWait == APISpec => [](site # "after")
<1>1. LauncherInv => site # "after"
  BY DEF LauncherInv, RetryInv
<1> QED
  BY <1>1, APIInvariance, PTL

\* The steps inside a method are bounded by StepsLeft, so that the retries, the
\* polls and the keep-alive reads end for every answer of the server; fairness
\* is needed only for the process to move at all.
THEOREM MethodsAreShort == APISpec => MethodsShorten
<1>1. LauncherInv /\ [APINext]_vars =>
        [Process => StepsLeft' \in 0..(StepsLeft - 1)]_vars
  BY MethodShortens, LibraryLowersBound DEF Process
<1> QED
  BY <1>1, APIInvariance, PTL DEF APISpec, MethodsShorten

\* LaunchAutoDecake keeps what LaunchContract promises: one request for a call
\* at most, and a success only after the machine has executed it and ended a process
\* since, whatever becomes of older requests.
THEOREM PromiseKept == APISpec => KeepsPromise
<1>1. LauncherInv /\ [APINext]_vars => [Promise!LaunchNext]_(Promise!launchVars)
  <2> SUFFICES ASSUME LauncherInv, [APINext]_vars
               PROVE  [Promise!LaunchNext]_(Promise!launchVars)
    OBVIOUS
  <2>1. CASE SystemStep
    BY <2>1, PromiseStep
  <2>2. CASE User
    BY <2>2, AskPromise
    DEF User, LaunchAutoDecake, LaunchBuildUnitExit, SleepWithKeepAlive, Stop,
        Ready, AskLaunch, AskExit, AskStop, plcVars
  <2>3. CASE UNCHANGED vars
    BY <2>3, SamePromise DEF vars, launcherVars, plcVars, CallStatus, Armed
  <2> QED
    BY <2>1, <2>2, <2>3 DEF APINext, Process, SystemStep, Over
<1> QED
  BY <1>1, InitPromise, APIInvariance, PTL
  DEF APISpec, KeepsPromise, Promise!LaunchSpec

\* Whoever calls the methods, the launcher uses the client library as UAClient's
\* Caller does, so that what is proved of ClientSpec holds under it.
THEOREM APIIsACaller == APISpec => ClientSpec
<1>1. Init => ClientInit
  BY DEF Init
<1>2. LauncherInv /\ [APINext]_vars => [ClientNext]_clientVars
  <2> SUFFICES ASSUME LauncherInv, [APINext]_vars PROVE [ClientNext]_clientVars
    OBVIOUS
  <2>1. CASE User
    BY <2>1 DEF User, LaunchAutoDecake, LaunchBuildUnitExit, SleepWithKeepAlive,
                Stop, AskLaunch, AskExit, AskStop
  <2>2. CASE SystemStep
    BY <2>2, Discipline
  <2>3. CASE UNCHANGED vars
    BY <2>3 DEF vars
  <2> QED
    BY <2>1, <2>2, <2>3 DEF APINext, Process, SystemStep, Over
<1> QED
  BY <1>1, <1>2, APIInvariance, PTL DEF APISpec, ClientSpec
=============================================================================
