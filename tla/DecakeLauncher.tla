--------------------------- MODULE DecakeLauncher ---------------------------
(***************************************************************************)
(* The launcher (DecakeLauncher.cpp) on top of the client library: the     *)
(* methods of class DecakeLauncher, RunIteration, which main runs, and the *)
(* machine's controller (PLC) behind the server.                           *)
(*                                                                         *)
(* The launcher is sequential: `pc` names the point it has reached, and it *)
(* moves only while the thread is outside the library (at = "idle").       *)
(***************************************************************************)
EXTENDS UAClient, WaitLoop

CONSTANTS
  MaxConnectRetry,  \* the argument of connectRetry (10)
  MaxRetry,         \* the argument of waitIntCondition (10)
  TimeoutSec,       \* the time limit of a wait (1800)
  SleepSec,         \* the -s option: the argument of SleepWithKeepAlive
  MaxReadTime,      \* the longest read, in seconds
  PromptStart,      \* the PLC leaves its old final state before it answers
  LeftOver          \* method calls of earlier runs, still open at the PLC

ASSUME LauncherAssumption ==
  /\ MaxConnectRetry \in Nat \ {0}
  /\ MaxRetry \in Nat \ {0}
  /\ TimeoutSec \in Nat
  /\ SleepSec \in Nat
  /\ MaxReadTime \in Nat
  /\ PromptStart \in BOOLEAN
  /\ LeftOver \in Nat
  /\ Values \ FinalValues # {}

VARIABLES
  pc,        \* the launcher's program point
  method,    \* the method in progress, or the one that has just returned
  site,      \* who called connectClient: RunIteration or a connectRetry
  retries,   \* connectRetry's retry
  ret,       \* what the method returned; the argument of Stop
  object,    \* what client_ points to
  wait,      \* the locals of waitIntCondition
  elapsed,   \* seconds since the loop began, exact up to the limit
  exitCode   \* how the process ended

launcherVars ==
  <<pc, method, site, retries, ret, object, wait, elapsed, exitCode>>

VARIABLES
  node,      \* the value of COND_END_AUTOCLEAN at the server
  reply,     \* the value of that node in the last response
  process,   \* the powder process itself
  asked,     \* LaunchAutoDecake calls so far
  pending,   \* 1 if the last one has reached the PLC and is open there
  late,      \* earlier ones that are open, whatever became of their connections
  accepted,  \* the PLC has executed the last one
  finished,  \* and has ended a process since (read by properties only)
  restarted, \* and has executed an earlier one since (read by properties only)
  launches   \* how often the process was started

callVars == <<pending, late, accepted, finished, restarted, launches>>
plcVars == <<node, reply, process, asked, callVars>>

vars == <<clientVars, launcherVars, plcVars>>

ProgramPoints ==
  {"main", "connect", "delete", "dial", "dialled", "launch", "call",
   "called", "waitTop", "waitRead", "sleepTop", "sleepRead", "returned",
   "stop", "stopping", "exited", "crashed"}

LauncherTypeOK ==
  /\ pc \in ProgramPoints
  /\ method \in {"connect", "decake", "buexit", "sleep"}
  /\ site \in {"direct", "before", "after"}
  /\ retries \in Nat
  /\ ret \in BOOLEAN
  /\ object \in {"none", "live", "freed"}
  /\ wait \in Waits
  /\ elapsed \in Nat
  /\ exitCode \in {"none", "success", "failure"}

PlcTypeOK ==
  /\ node \in Values
  /\ reply \in Values
  /\ process \in {"idle", "running", "ended"}
  /\ asked \in Nat
  /\ pending \in {0, 1}
  /\ late \in Nat
  /\ accepted \in BOOLEAN
  /\ finished \in BOOLEAN
  /\ restarted \in BOOLEAN
  /\ launches \in Nat

TypeOK == ClientTypeOK /\ LauncherTypeOK /\ PlcTypeOK

\* main: a DecakeLauncher without a client.  The node holds whatever an
\* earlier run left there; the process that it launched may still be running,
\* and calls on which it gave up may still be open.
Init ==
  /\ ClientInit
  /\ pc = "main"
  /\ method = "connect"
  /\ site = "direct"
  /\ retries = 0
  /\ ret = FALSE
  /\ object = "none"
  /\ wait = NewWait
  /\ elapsed = 0
  /\ exitCode = "none"
  /\ process \in {"idle", "running"}
  /\ node \in IF process = "running" THEN Values \ FinalValues ELSE Values
  /\ reply = node
  /\ asked = 0
  /\ pending = 0
  /\ late = LeftOver
  /\ accepted = FALSE
  /\ finished = FALSE
  /\ restarted = FALSE
  /\ launches = 0

----------------------------------------------------------------------------
(* Control of the launcher.                                                 *)

\* The launcher is at program point p, outside the library.
AtPoint(p) == pc = p /\ at = "idle"

Goto(p) ==
  /\ pc' = p
  /\ UNCHANGED <<method, site, retries, ret, object, wait, elapsed, exitCode>>

\* The method in progress returns b to its caller.
ReturnFrom(b) ==
  /\ pc' = "returned"
  /\ ret' = b
  /\ UNCHANGED <<method, site, retries, object, wait, elapsed, exitCode>>

Crash == Goto("crashed") /\ UNCHANGED clientVars

----------------------------------------------------------------------------
(* isConnected, connectClient and connectRetry.                             *)

\* if (!isConnected()) { if (!connectRetry(10)) return false; }  then on to p.
EnsureConnected(where, p) ==
  IF connected
    THEN pc' = p /\ UNCHANGED <<site, retries>>
    ELSE pc' = "connect" /\ site' = where /\ retries' = 0

\* UA_Client_new and the configuration; client_ points to the new client.
MakeClient ==
  /\ NewClient
  /\ object' = "live"
  /\ pc' = "dial"
  /\ UNCHANGED <<method, site, retries, ret, wait, elapsed, exitCode, plcVars>>

\* connectClient with client_ = nullptr.
ConnectFirst == AtPoint("connect") /\ object = "none" /\ MakeClient

\* connectClient with a client: it is disconnected, and deleted afterwards.
ConnectDropsOld ==
  /\ AtPoint("connect") /\ object = "live"
  /\ DisconnectCall
  /\ Goto("delete")
  /\ UNCHANGED plcVars

DeleteOld == AtPoint("delete") /\ clientState = DISCONNECTED /\ MakeClient

\* connectClient after one that failed: client_ still points to the client
\* that was deleted.  Disconnecting and deleting it again is undefined: the
\* process dies, or nothing is noticed.
ConnectTouchesFreed ==
  /\ AtPoint("connect") /\ object = "freed"
  /\ \/ Crash /\ UNCHANGED plcVars
     \/ MakeClient

Dial ==
  /\ AtPoint("dial")
  /\ ConnectCall
  /\ Goto("dialled")
  /\ UNCHANGED plcVars

\* Slip: connectClient does not set the flag.
DialSucceedsUnmarked ==
  /\ AtPoint("dialled") /\ result = "good"
  /\ pc' = IF site = "before" THEN "call" ELSE "returned"
  /\ ret' = TRUE
  /\ UNCHANGED <<method, site, retries, object, wait, elapsed, exitCode,
                 clientVars, plcVars>>

\* Where connectClient's success leads: back to RunIteration, or out of
\* connectRetry to the method call or to the wait.
DialSucceeds ==
  /\ AtPoint("dialled") /\ result = "good"
  /\ MarkConnected
  /\ pc' = CASE site = "direct" -> "returned"
             [] site = "before" -> "call"
             [] site = "after"  -> "waitTop"
  /\ ret' = IF site = "direct" THEN TRUE ELSE ret
  /\ wait' = IF site = "after" THEN NewWait ELSE wait
  /\ elapsed' = IF site = "after" THEN 0 ELSE elapsed
  /\ UNCHANGED <<method, site, retries, object, exitCode, plcVars>>

\* Slip: the failures of connectRetry are not counted.
DialFailsUncounted ==
  /\ AtPoint("dialled") /\ result # "good"
  /\ object' = "freed"
  /\ pc' = "connect"
  /\ UNCHANGED <<method, site, retries, ret, wait, elapsed, exitCode,
                 clientVars, plcVars>>

\* Slip: connectRetry compares with <=.
DialFailsOnceMore ==
  /\ AtPoint("dialled") /\ result # "good"
  /\ object' = "freed"
  /\ retries' = retries + 1
  /\ IF retries' <= MaxConnectRetry
       THEN pc' = "connect" /\ UNCHANGED ret
       ELSE pc' = "returned" /\ ret' = FALSE
  /\ UNCHANGED <<method, site, wait, elapsed, exitCode, clientVars, plcVars>>

\* connectClient deletes the client, keeps the pointer and returns false;
\* connectRetry counts the failure and tries again below its limit.
DialFails ==
  /\ AtPoint("dialled") /\ result # "good"
  /\ object' = "freed"
  /\ retries' = IF site = "direct" THEN retries ELSE retries + 1
  /\ IF site # "direct" /\ retries' < MaxConnectRetry
       THEN pc' = "connect" /\ UNCHANGED ret
       ELSE pc' = "returned" /\ ret' = FALSE
  /\ UNCHANGED <<method, site, wait, elapsed, exitCode, clientVars, plcVars>>

----------------------------------------------------------------------------
(* LaunchAutoDecake and LaunchBuildUnitExit.                                *)

LaunchChecksLink ==
  /\ AtPoint("launch")
  /\ EnsureConnected("before", "call")
  /\ UNCHANGED <<method, ret, object, wait, elapsed, exitCode, clientVars, plcVars>>

\* launchAutoDecake: UA_Client_call.  A request that cannot be sent never
\* reaches the server.  The call before it may still be open at the PLC.
CallAutoDecake ==
  /\ AtPoint("call") /\ method = "decake"
  /\ ServiceCall
  /\ Goto("called")
  /\ pending' = IF attached THEN 1 ELSE 0
  /\ late' = late + pending
  /\ accepted' = FALSE
  /\ finished' = FALSE
  /\ restarted' = FALSE
  /\ UNCHANGED <<node, reply, process, asked, launches>>

\* launchBuildUnitExit calls nothing: its body is commented out.
CallBuildUnitExit ==
  /\ AtPoint("call") /\ method = "buexit"
  /\ ReturnFrom(FALSE)
  /\ UNCHANGED <<clientVars, plcVars>>

\* Slip: a failed call is tried again.
CallFailsRepeats ==
  /\ AtPoint("called") /\ result # "good"
  /\ Goto("launch")
  /\ UNCHANGED <<clientVars, plcVars>>

\* A failed call ends the method; it is never repeated.
CallFails ==
  /\ AtPoint("called") /\ result # "good"
  /\ ReturnFrom(FALSE)
  /\ UNCHANGED <<clientVars, plcVars>>

\* Slip: the locals of the wait keep what the last wait left in them.
CallSucceedsUnreset ==
  /\ AtPoint("called") /\ result = "good"
  /\ EnsureConnected("after", "waitTop")
  /\ UNCHANGED <<method, ret, object, wait, elapsed, exitCode, clientVars, plcVars>>

\* Slip: the status of the call is not looked at.
CallSucceedsAlways ==
  /\ AtPoint("called")
  /\ EnsureConnected("after", "waitTop")
  /\ wait' = NewWait
  /\ elapsed' = 0
  /\ UNCHANGED <<method, ret, object, exitCode, clientVars, plcVars>>

CallSucceeds ==
  /\ AtPoint("called") /\ result = "good"
  /\ EnsureConnected("after", "waitTop")
  /\ wait' = NewWait
  /\ elapsed' = 0
  /\ UNCHANGED <<method, ret, object, exitCode, clientVars, plcVars>>

\* waitIntCondition: the top of an iteration, up to the read.
WaitPolls ==
  /\ AtPoint("waitTop")
  /\ wait' = CheckDeadline(wait, elapsed, TimeoutSec)
  /\ ServiceCall
  /\ pc' = "waitRead"
  /\ UNCHANGED <<method, site, retries, ret, object, elapsed, exitCode, plcVars>>

\* Time passes in a read and in Sleep(1000); past the limit it no longer counts.
Later(d, limit) == IF elapsed + 1 + d > limit THEN limit + 1 ELSE elapsed + 1 + d

\* The rest of the iteration.  A good response may still hold no number.
WaitReads ==
  /\ AtPoint("waitRead")
  /\ \E read \in (IF result = "good" THEN {reply, Failed} ELSE {Failed}) :
       wait' = IntIteration(wait, read)
  /\ \E d \in 0..MaxReadTime : elapsed' = Later(d, TimeoutSec)
  /\ IF GoesOn(wait', MaxRetry)
       THEN pc' = "waitTop" /\ UNCHANGED ret
       ELSE pc' = "returned" /\ ret' = IntReturns(wait', MaxRetry)
  /\ UNCHANGED <<method, site, retries, object, exitCode, clientVars, plcVars>>

----------------------------------------------------------------------------
(* SleepWithKeepAlive: one read a second, whose outcome nobody looks at.    *)

\* A read over a client that was freed may go unnoticed: it finds no channel.
KeepAliveReads ==
  /\ AtPoint("sleepTop") /\ object # "none"
  /\ ServiceCall
  /\ Goto("sleepRead")
  /\ UNCHANGED plcVars

\* The read passes client_ on as it is: no client at all, or one that was freed.
KeepAliveTouches ==
  /\ AtPoint("sleepTop") /\ object # "live"
  /\ Crash
  /\ UNCHANGED plcVars

KeepAliveGoesOn ==
  /\ AtPoint("sleepRead")
  /\ \E d \in 0..MaxReadTime : elapsed' = Later(d, SleepSec)
  /\ pc' = IF elapsed' < SleepSec THEN "sleepTop" ELSE "returned"
  /\ UNCHANGED <<method, site, retries, ret, object, wait, exitCode,
                 clientVars, plcVars>>

----------------------------------------------------------------------------
(* Stop: stopLauncher, with `ret` its argument.                             *)

Exit ==
  /\ pc' = "exited"
  /\ exitCode' = IF ret THEN "success" ELSE "failure"
  /\ UNCHANGED <<method, site, retries, ret, object, wait, elapsed, plcVars>>

StopWithoutClient ==
  AtPoint("stop") /\ object = "none" /\ Exit /\ UNCHANGED clientVars

StopDisconnects ==
  /\ AtPoint("stop") /\ object = "live"
  /\ DisconnectCall
  /\ Goto("stopping")
  /\ UNCHANGED plcVars

\* UA_Client_delete finds nothing left to disconnect; the process exits.
StopDeletes ==
  /\ AtPoint("stopping") /\ clientState = DISCONNECTED
  /\ Exit
  /\ UNCHANGED clientVars

\* As in ConnectTouchesFreed.
StopTouchesFreed ==
  /\ AtPoint("stop") /\ object = "freed"
  /\ \/ Crash /\ UNCHANGED plcVars
     \/ Exit /\ UNCHANGED clientVars

\* The steps inside the methods.
MethodStep ==
  \/ ConnectFirst \/ ConnectDropsOld \/ DeleteOld \/ ConnectTouchesFreed
  \/ Dial \/ DialSucceeds \/ DialFails
  \/ LaunchChecksLink \/ CallAutoDecake \/ CallBuildUnitExit
  \/ CallFails \/ CallSucceeds \/ WaitPolls \/ WaitReads
  \/ KeepAliveReads \/ KeepAliveTouches \/ KeepAliveGoesOn
  \/ StopWithoutClient \/ StopDisconnects \/ StopDeletes \/ StopTouchesFreed

----------------------------------------------------------------------------
(* The library under the launcher, and the machine behind the server.       *)

\* The library goes on; a method call is answered with success only if the
\* PLC executed it.
LibraryMoves ==
  /\ LibraryStep
  /\ (pc = "called" /\ at = "user" /\ result' = "good") => accepted
  /\ UNCHANGED <<launcherVars, plcVars>>

\* The server answers what it was sent on the connection that stands, in whatever
\* order with the method calls of this connection or of an earlier one.
ServerReplies ==
  /\ ServerAnswers
  /\ reply' = node
  /\ UNCHANGED <<launcherVars, node, process, asked, callVars>>

LinkDrops == ServerHangsUp /\ UNCHANGED <<launcherVars, plcVars>>

\* The PLC executes a call.  The launcher assumes that the sequencer leaves
\* its old final state before the call returns (PromptStart).
Execute ==
  /\ launches' = launches + 1
  /\ process' = "running"
  /\ node' \in (Values \ FinalValues) \cup (IF PromptStart THEN {} ELSE {node})
  /\ UNCHANGED <<clientVars, launcherVars, reply, asked>>

PlcStarts ==
  /\ pending = 1 /\ pending' = 0
  /\ accepted' = TRUE
  /\ Execute
  /\ UNCHANGED <<late, finished, restarted>>

\* A call that the launcher has long given up, over a connection that may be gone.
PlcStartsLate ==
  /\ late > 0 /\ late' = late - 1
  /\ restarted' = accepted
  /\ Execute
  /\ UNCHANGED <<pending, accepted, finished>>

\* The PLC refuses a call, for a door left open or a process in progress.
PlcRejects ==
  /\ \/ pending = 1 /\ pending' = 0 /\ UNCHANGED late
     \/ late > 0 /\ late' = late - 1 /\ UNCHANGED pending
  /\ UNCHANGED <<clientVars, launcherVars, node, reply, process, asked, accepted,
                 finished, restarted, launches>>

PlcWorks ==
  /\ process = "running"
  /\ node' \in Values \ FinalValues
  /\ UNCHANGED <<clientVars, launcherVars, reply, process, asked, callVars>>

PlcEnds ==
  /\ process = "running"
  /\ process' = "ended"
  /\ node' \in FinalValues
  /\ finished' = accepted
  /\ UNCHANGED <<clientVars, launcherVars, reply, asked, pending, late, accepted,
                 restarted, launches>>

PlcStep == PlcStarts \/ PlcStartsLate \/ PlcRejects \/ PlcWorks \/ PlcEnds
Environment == ServerReplies \/ LinkDrops \/ PlcStep

\* exit() or an abort: nothing moves any more, so no deadlock is hidden.
Over ==
  /\ pc \in {"exited", "crashed"}
  /\ UNCHANGED vars

\* The caller of the methods asks for a launch.
AskLaunch ==
  /\ pc' = "launch"
  /\ method' = "decake"
  /\ asked' = asked + 1
  /\ UNCHANGED <<site, retries, ret, object, wait, elapsed, exitCode, clientVars,
                 node, reply, process, callVars>>

\* The caller asks for the build unit exit.
AskExit ==
  /\ pc' = "launch"
  /\ method' = "buexit"
  /\ UNCHANGED <<site, retries, ret, object, wait, elapsed, exitCode, clientVars,
                 plcVars>>

\* The caller stops the launcher.
AskStop(success) ==
  /\ pc' = "stop"
  /\ ret' = success
  /\ UNCHANGED <<method, site, retries, object, wait, elapsed, exitCode,
                 clientVars, plcVars>>

----------------------------------------------------------------------------
(* Properties of the methods, whoever calls them.                           *)

\* The flag agrees with the library whenever the launcher runs: outside the
\* library isConnected() is TRUE exactly if the session is open, except
\* between the return of UA_Client_connect and line 94.
FlagExact ==
  at = "idle" /\ pc # "dialled" => (connected <=> clientState = SESSION)

\* A method call is never sent twice for one LaunchAutoDecake: failures and
\* reconnects never start the process more often than it was asked for, by this
\* run or by those before it.
NoRepeatedLaunch == launches + pending + late <= asked + LeftOver

\* The wait begins, and ends, after the machine has executed the very call that
\* it follows: a refused or a lost call never gets that far, and no earlier call
\* that the PLC executes meanwhile takes its place.
WaitsOnlyForLaunched ==
  pc \in {"waitTop", "waitRead"} => accepted /\ process # "idle"

\* LaunchAutoDecake reports success only if the machine has executed its call and
\* ended a process after it, and only over a connection that still stands: no
\* value of before a failure or of an earlier process ends the wait.  The machine
\* stands still, unless it has executed an earlier call in the meantime, which
\* waitIntCondition cannot know: it sees neither an end and a start between two
\* polls nor a start after the last one.
SuccessMeansEnded ==
  pc = "returned" /\ method = "decake" /\ ret =>
    /\ accepted /\ connected
    /\ PromptStart => finished /\ (process = "ended" \/ restarted)

\* A launcher that gives up reconnecting has used all its attempts.
GivesUpAfterAll ==
  pc = "returned" /\ object = "freed" /\ method \in {"decake", "buexit"} =>
    retries = MaxConnectRetry

\* The launcher is on its way to a method call that it has not sent.
Armed ==
  /\ method = "decake"
  /\ pc \in {"launch", "call", "connect", "delete", "dial", "dialled"}

\* What LaunchAutoDecake promises: see LaunchContract.
CallStatus ==
  IF Armed THEN "asked"
  ELSE IF pc \in {"called", "waitTop", "waitRead"} THEN "sent"
  ELSE IF pc = "returned" /\ method = "decake" THEN IF ret THEN "true" ELSE "false"
  ELSE "none"

Promise == INSTANCE LaunchContract
  WITH Prompt <- PromptStart, call <- CallStatus, open <- pending, older <- late,
       started <- accepted, ended <- finished, again <- restarted,
       machine <- process

KeepsPromise == Promise!LaunchSpec

----------------------------------------------------------------------------
(* How many steps the method in progress still takes, at most.              *)

\* A poll takes four: the request, its failure, CloseSession and the evaluation.
\* Each uses up a second.
PollSteps(limit) == 4 * (limit + 2 - elapsed)

\* The wait from its beginning, and the method call before it.
CallSteps == 4 * (TimeoutSec + 2) + 4

\* An attempt to connect takes twelve, the deletion of the old client included.
AttemptSteps == 12
ConnectSteps ==
  IF site = "direct" THEN AttemptSteps
                     ELSE CallSteps + AttemptSteps * (MaxConnectRetry - retries)
LaunchSteps == CallSteps + AttemptSteps * MaxConnectRetry + 1

StepsLeft ==
  CASE pc = "launch"    -> LaunchSteps
    [] pc = "connect"   -> ConnectSteps
    [] pc = "delete"    -> ConnectSteps - 3 + WaitsLeft
    [] pc = "dial"      -> ConnectSteps - 4
    [] pc = "dialled"   -> ConnectSteps - 11 + WaitsLeft
    [] pc = "call"      -> CallSteps
    [] pc = "called"    -> CallSteps - 3 + WaitsLeft
    [] pc = "waitTop"   -> PollSteps(TimeoutSec)
    [] pc = "waitRead"  -> PollSteps(TimeoutSec) - 3 + WaitsLeft
    [] pc = "sleepTop"  -> PollSteps(SleepSec)
    [] pc = "sleepRead" -> PollSteps(SleepSec) - 3 + WaitsLeft
    [] pc = "stop"      -> 3
    [] pc = "stopping"  -> 1 + WaitsLeft
    [] OTHER            -> 0

----------------------------------------------------------------------------
(* The inductive invariant of DecakeLauncher_proofs, in parts.              *)

Connecting == pc \in {"connect", "delete", "dial", "dialled"}
Waiting == pc \in {"waitTop", "waitRead"}

\* The call that the thread is in, or has just returned from, is the one that
\* the program point says.
CallInv ==
  /\ at \in {"tcp", "hel", "opn"} \cup ConnectServices => pc = "dialled"
  /\ at = "user" => pc \in {"called", "waitRead", "sleepRead"} /\ connected
  /\ at = "closing" =>
       pc \in {"called", "waitRead", "sleepRead", "delete", "stopping"}
  /\ pc \in {"called", "waitRead"} /\ at = "closing" => result = "bad"
  /\ pc \in {"called", "waitRead"} /\ at = "idle" /\ result = "good" =>
       clientState = SESSION
  /\ pc = "dialled" /\ at = "idle" =>
       \/ result = "good" /\ clientState = SESSION
       \/ result = "bad" /\ clientState = DISCONNECTED

\* The client object, the flag and the program point agree.
ObjectInv ==
  /\ FlagExact
  /\ object # "live" => clientState = DISCONNECTED /\ at = "idle"
  /\ pc \in {"delete", "dial", "dialled", "call", "called", "waitTop", "waitRead",
            "stopping"} => object = "live"
  /\ pc = "dial" => ~opened
  /\ pc = "call" => connected

\* connectClient knows who called it, and connectRetry has attempts left.
RetryInv ==
  /\ site # "after"
  /\ Connecting /\ site = "direct" => method = "connect"
  /\ Connecting /\ site = "before" =>
       method \in {"decake", "buexit"} /\ retries < MaxConnectRetry
  /\ pc \in {"launch", "call"} => method \in {"decake", "buexit"}
  /\ pc = "called" \/ Waiting => method = "decake"
  /\ pc \in {"sleepTop", "sleepRead"} => method = "sleep"

\* Every call that was sent, is pending or will be sent was asked for.
CountInv ==
  /\ NoRepeatedLaunch
  /\ Armed => launches + pending + late < asked + LeftOver

\* A call that was executed is no longer open, and what came after it is remembered.
LaunchInv ==
  /\ accepted => pending = 0 /\ process # "idle"
  /\ finished \/ restarted => accepted
  /\ finished /\ ~restarted => process = "ended"
  /\ pc = "called" /\ at = "idle" /\ result = "good" => accepted
  /\ Waiting => accepted

\* A final value in the locals, in an answer or at the node of a machine that has
\* started promptly means that it has ended a process since.
FinalInv ==
  /\ Waiting => ~wait.met /\ wait.value \notin FinalValues
  /\ PromptStart /\ process = "running" => node \notin FinalValues
  /\ PromptStart /\ accepted /\ node \in FinalValues => finished
  /\ PromptStart /\ pc = "waitRead" /\ reply \in FinalValues
     /\ ((at = "user" /\ exchange = "answered") \/ (at = "idle" /\ result = "good"))
       => finished
  /\ SuccessMeansEnded

\* The clock of a loop stays within its limit, and the limit was looked at.
ClockInv ==
  /\ Waiting => elapsed <= TimeoutSec + 1
  /\ pc = "waitRead" => (wait.timeout <=> elapsed > TimeoutSec)
  /\ pc \in {"sleepTop", "sleepRead"} => elapsed <= SleepSec

LauncherInv ==
  /\ TypeOK /\ ClientInv
  /\ CallInv /\ ObjectInv /\ RetryInv
  /\ CountInv /\ LaunchInv /\ FinalInv
  /\ GivesUpAfterAll /\ ClockInv
=============================================================================
