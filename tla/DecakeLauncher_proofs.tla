------------------------ MODULE DecakeLauncher_proofs -----------------------
(***************************************************************************)
(* LauncherInv is kept by every step of the launcher's methods, of the     *)
(* library under them and of their environment, for every set of values    *)
(* and every bound.  LauncherMain_proofs and LauncherAPI_proofs add their  *)
(* drivers and conclude.                                                   *)
(***************************************************************************)
EXTENDS DecakeLauncher, UAClient_proofs

\* The parts of the invariant that do not concern data.
USE DEF Connecting, Waiting, ConnectServices,
        DISCONNECTED, CONNECTED, SECURECHANNEL, SESSION, callVars

\* The client invariant does not see steps of the launcher alone.
LEMMA ClientSame == ClientInv /\ UNCHANGED clientVars => ClientInv'
  BY DEF clientVars, ClientInv, ClientTypeOK, Up, Down, HalfOpen

\* The records of the wait.
LEMMA WaitTypes ==
  /\ NewWait \in Waits
  /\ \A w \in Waits, e \in Nat : CheckDeadline(w, e, TimeoutSec) \in Waits
  /\ \A w \in Waits, r \in Values \cup {Failed} : IntIteration(w, r) \in Waits
<1>1. NewWait \in Waits
  BY DEF NewWait, Waits
<1>2. ASSUME NEW w \in Waits, NEW e \in Nat
      PROVE  CheckDeadline(w, e, TimeoutSec) \in Waits
  <2> DEFINE t == e > TimeoutSec
  <2>1. t \in BOOLEAN
    OBVIOUS
  <2>2. CheckDeadline(w, e, TimeoutSec) = [w EXCEPT !.timeout = t]
    BY DEF CheckDeadline
  <2> HIDE DEF t
  <2> QED
    BY <2>1, <2>2 DEF Waits
<1>3. ASSUME NEW w \in Waits, NEW r \in Values \cup {Failed}
      PROVE  IntIteration(w, r) \in Waits
  <2> DEFINE v == IF r = Failed THEN w.value ELSE r
             n == IF r = Failed THEN w.retry + 1 ELSE w.retry
  <2>1. v \in Values \cup {NoValue} /\ n \in Nat
    BY DEF Waits
  <2>2. IntIteration(w, r) =
          [w EXCEPT !.value = v, !.retry = n, !.met = w.met \/ v \in FinalValues]
    BY DEF IntIteration
  <2> HIDE DEF v, n
  <2> QED
    BY <2>1, <2>2 DEF Waits
<1> QED
  BY <1>1, <1>2, <1>3

LEMMA LaterIsNat ==
  ASSUME LauncherTypeOK
  PROVE  \A d \in 0..MaxReadTime :
           Later(d, TimeoutSec) \in Nat /\ Later(d, SleepSec) \in Nat
<1>1. elapsed \in Nat /\ TimeoutSec \in Nat /\ SleepSec \in Nat
      /\ 0..MaxReadTime \subseteq Nat
  BY LauncherAssumption DEF LauncherTypeOK
<1> QED
  BY <1>1 DEF Later

\* A poll changes the deadline's field only.
LEMMA PollEffect ==
  ASSUME NEW w \in Waits, NEW e \in Nat
  PROVE  /\ CheckDeadline(w, e, TimeoutSec).met = w.met
         /\ CheckDeadline(w, e, TimeoutSec).value = w.value
         /\ CheckDeadline(w, e, TimeoutSec).timeout = (e > TimeoutSec)
  BY DEF CheckDeadline, Waits

\* The loop ends well only after a read of a final value, and goes on only
\* without one.
LEMMA IterationEffect ==
  ASSUME NEW w \in Waits, ~w.met, w.value \notin FinalValues,
         NEW r \in Values \cup {Failed}
  PROVE  LET x == IntIteration(w, r)
         IN  /\ GoesOn(x, MaxRetry) => ~x.met /\ x.value \notin FinalValues
             /\ ~GoesOn(x, MaxRetry) /\ IntReturns(x, MaxRetry) =>
                  r \in FinalValues
<1> DEFINE v == IF r = Failed THEN w.value ELSE r
           n == IF r = Failed THEN w.retry + 1 ELSE w.retry
           x == IntIteration(w, r)
<1>1. x = [w EXCEPT !.value = v, !.retry = n, !.met = w.met \/ v \in FinalValues]
  BY DEF IntIteration
<1>2. x.met = (v \in FinalValues) /\ x.value = v
  BY <1>1 DEF Waits
<1>3. v \in FinalValues => r \in FinalValues
  OBVIOUS
<1> HIDE DEF v, n, x
<1> QED
  BY <1>2, <1>3 DEF x, GoesOn, IntReturns

\* Where a connect that succeeded leads: the wait's reconnect never happens.
LEMMA DialSucceedsEffect ==
  ASSUME LauncherTypeOK, RetryInv, DialSucceeds
  PROVE  /\ at = "idle" /\ at' = "idle" /\ pc = "dialled" /\ result = "good"
         /\ clientState = SESSION /\ clientState' = SESSION /\ connected' = TRUE
         /\ \/ site = "direct" /\ pc' = "returned" /\ ret' = TRUE
            \/ site = "before" /\ pc' = "call" /\ ret' = ret
         /\ UNCHANGED <<method, site, retries, object, wait, elapsed, exitCode,
                        result, opened, exchange, plcVars>>
<1>1. site \in {"direct", "before"}
  BY DEF RetryInv, LauncherTypeOK
<1>2. CASE site = "direct"
  BY <1>2 DEF DialSucceeds, AtPoint, MarkConnected, plcVars
<1>3. CASE site # "direct"
  BY <1>1, <1>3 DEF DialSucceeds, AtPoint, MarkConnected, plcVars
<1> QED
  BY <1>2, <1>3

\* A call that succeeded has left the link up, so the method goes on to wait.
LEMMA CallSucceedsEffect ==
  ASSUME CallInv, ObjectInv, CallSucceeds
  PROVE  /\ pc = "called" /\ at = "idle" /\ result = "good"
         /\ pc' = "waitTop" /\ wait' = NewWait /\ elapsed' = 0
         /\ clientState = SESSION /\ connected
         /\ UNCHANGED <<clientVars, method, site, retries, ret, object, exitCode,
                        plcVars>>
<1>1. AtPoint("called") /\ result = "good" /\ clientState = SESSION
  BY DEF CallSucceeds, AtPoint, CallInv
<1>2. connected
  BY <1>1 DEF ObjectInv, FlagExact, AtPoint
<1> QED
  BY <1>1, <1>2 DEF CallSucceeds, EnsureConnected, AtPoint

\* What the launcher sees of a step of the library.
LEMMA LibraryMovesEffect ==
  ASSUME ClientInv, LibraryMoves
  PROVE  /\ UNCHANGED <<pc, method, site, retries, ret, object, wait, elapsed,
                        exitCode, node, reply, process, asked, callVars>>
         /\ \/ at \in ConnectPlaces /\ at' \in ConnectPlaces /\ connected' = FALSE
            \/ /\ at \in ConnectPlaces /\ at' = "idle" /\ connected' = FALSE
               /\ \/ result' = "good" /\ clientState' = SESSION
                  \/ result' = "bad" /\ clientState' = DISCONNECTED
            \/ /\ at = "user" /\ exchange = "answered" /\ at' = "idle"
               /\ clientState' = SESSION /\ UNCHANGED connected
               /\ pc = "called" /\ result' = "good" => accepted
            \/ /\ at = "user" /\ at' = "idle" /\ result' = "bad"
               /\ clientState' = DISCONNECTED /\ connected' = FALSE
            \/ at = "user" /\ at' = "closing" /\ result' = "bad"
            \/ /\ at = "closing" /\ at' = "idle" /\ UNCHANGED result
               /\ clientState' = DISCONNECTED /\ connected' = FALSE
<1>1. CASE ConnectStep
  BY <1>1, ConnectStepEffect DEF LibraryMoves, launcherVars, plcVars
<1>2. CASE ServiceStep \/ CloseEnds
  BY <1>2, ServiceStepEffect DEF LibraryMoves, launcherVars, plcVars
<1> QED
  BY <1>1, <1>2 DEF LibraryMoves, LibraryStep

\* Everything but the drivers.
SystemStep == MethodStep \/ LibraryMoves \/ Environment

----------------------------------------------------------------------------
(* One lemma per part of LauncherInv, one step per kind of step.            *)

\* Types.
LEMMA LauncherTypes == LauncherInv /\ SystemStep => LauncherTypeOK'
<1> SUFFICES ASSUME LauncherInv, SystemStep PROVE LauncherTypeOK'
  OBVIOUS
<1> USE DEF LauncherInv, TypeOK, AtPoint
<1>1. CASE \/ CallBuildUnitExit \/ CallFails \/ StopWithoutClient
           \/ StopDeletes \/ StopTouchesFreed \/ KeepAliveTouches
  BY <1>1
  DEF CallBuildUnitExit, CallFails, StopWithoutClient, StopDeletes,
      StopTouchesFreed, KeepAliveTouches, ReturnFrom, Exit, Crash, Goto,
      LauncherTypeOK, ProgramPoints
<1>2. CASE ConnectDropsOld \/ StopDisconnects
  BY <1>2
  DEF ConnectDropsOld, StopDisconnects, Goto, LauncherTypeOK, ProgramPoints
<1>3. CASE ConnectFirst \/ DeleteOld \/ ConnectTouchesFreed
  BY <1>3
  DEF ConnectFirst, DeleteOld, ConnectTouchesFreed, MakeClient, Crash, Goto,
      LauncherTypeOK, ProgramPoints
<1>4. CASE Dial
  BY <1>4 DEF Dial, Goto, LauncherTypeOK, ProgramPoints
<1>5. CASE DialSucceeds
  BY <1>5, DialSucceedsEffect DEF LauncherTypeOK, ProgramPoints
<1>6. CASE DialFails
  <2>1. retries' \in Nat
    BY <1>6 DEF DialFails, LauncherTypeOK
  <2>2. pc' \in ProgramPoints /\ ret' \in BOOLEAN
    BY <1>6 DEF DialFails, LauncherTypeOK, ProgramPoints
  <2> QED
    BY <1>6, <2>1, <2>2 DEF DialFails, LauncherTypeOK
<1>7. CASE LaunchChecksLink
  BY <1>7 DEF LaunchChecksLink, EnsureConnected, LauncherTypeOK, ProgramPoints
<1>8. CASE CallAutoDecake
  BY <1>8 DEF CallAutoDecake, Goto, LauncherTypeOK, ProgramPoints
<1>9. CASE CallSucceeds
  BY <1>9, CallSucceedsEffect, WaitTypes DEF LauncherTypeOK, ProgramPoints
<1>10. CASE WaitPolls
  <2>1. wait' \in Waits
    BY <1>10, WaitTypes DEF WaitPolls, LauncherTypeOK
  <2> QED
    BY <1>10, <2>1 DEF WaitPolls, LauncherTypeOK, ProgramPoints
<1>11. CASE WaitReads
  <2>1. wait' \in Waits
    BY <1>11, WaitTypes DEF WaitReads, LauncherTypeOK, PlcTypeOK
  <2>2. elapsed' \in Nat
    BY <1>11, LaterIsNat DEF WaitReads
  <2>3. pc' \in ProgramPoints /\ ret' \in BOOLEAN
    BY <1>11 DEF WaitReads, LauncherTypeOK, ProgramPoints, IntReturns
  <2> QED
    BY <1>11, <2>1, <2>2, <2>3 DEF WaitReads, LauncherTypeOK
<1>12. CASE KeepAliveReads
  BY <1>12 DEF KeepAliveReads, Goto, LauncherTypeOK, ProgramPoints
<1>13. CASE KeepAliveGoesOn
  <2>1. elapsed' \in Nat
    BY <1>13, LaterIsNat DEF KeepAliveGoesOn
  <2> QED
    BY <1>13, <2>1 DEF KeepAliveGoesOn, LauncherTypeOK, ProgramPoints
<1>14. CASE LibraryMoves
  BY <1>14, LibraryMovesEffect DEF LauncherTypeOK
<1>15. CASE ServerReplies \/ LinkDrops
  BY <1>15 DEF ServerReplies, LinkDrops, launcherVars, LauncherTypeOK
<1>16. CASE PlcStep
  BY <1>16
  DEF PlcStep, PlcStarts, PlcStartsLate, Execute, PlcRejects, PlcWorks, PlcEnds,
      launcherVars, LauncherTypeOK
<1> QED
  BY <1>1, <1>2, <1>3, <1>4, <1>5, <1>6, <1>7, <1>8, <1>9, <1>10, <1>11,
     <1>12, <1>13, <1>14, <1>15, <1>16
  DEF SystemStep, MethodStep, Environment

LEMMA PlcTypes == LauncherInv /\ SystemStep => PlcTypeOK'
<1> SUFFICES ASSUME LauncherInv, SystemStep PROVE PlcTypeOK'
  OBVIOUS
<1> USE DEF LauncherInv, TypeOK, AtPoint
<1>1. CASE \/ CallBuildUnitExit \/ CallFails \/ StopWithoutClient
           \/ StopDeletes \/ StopTouchesFreed \/ KeepAliveTouches
  BY <1>1
  DEF CallBuildUnitExit, CallFails, StopWithoutClient, StopDeletes,
      StopTouchesFreed, KeepAliveTouches, Exit, PlcTypeOK, plcVars
<1>2. CASE ConnectDropsOld \/ StopDisconnects
  BY <1>2 DEF ConnectDropsOld, StopDisconnects, PlcTypeOK, plcVars
<1>3. CASE ConnectFirst \/ DeleteOld \/ ConnectTouchesFreed
  BY <1>3
  DEF ConnectFirst, DeleteOld, ConnectTouchesFreed, MakeClient, PlcTypeOK,
      plcVars
<1>4. CASE Dial
  BY <1>4 DEF Dial, PlcTypeOK, plcVars
<1>5. CASE DialSucceeds
  BY <1>5, DialSucceedsEffect DEF PlcTypeOK, plcVars
<1>6. CASE DialFails
  BY <1>6 DEF DialFails, PlcTypeOK, plcVars
<1>7. CASE LaunchChecksLink
  BY <1>7 DEF LaunchChecksLink, PlcTypeOK, plcVars
<1>8. CASE CallAutoDecake
  <2>1. pending' \in {0, 1} /\ late' \in Nat
    BY <1>8 DEF CallAutoDecake, PlcTypeOK
  <2> QED
    BY <1>8, <2>1 DEF CallAutoDecake, PlcTypeOK
<1>9. CASE CallSucceeds
  BY <1>9, CallSucceedsEffect DEF PlcTypeOK, plcVars
<1>10. CASE WaitPolls
  BY <1>10 DEF WaitPolls, PlcTypeOK, plcVars
<1>11. CASE WaitReads
  BY <1>11 DEF WaitReads, PlcTypeOK, plcVars
<1>12. CASE KeepAliveReads
  BY <1>12 DEF KeepAliveReads, PlcTypeOK, plcVars
<1>13. CASE KeepAliveGoesOn
  BY <1>13 DEF KeepAliveGoesOn, PlcTypeOK, plcVars
<1>14. CASE LibraryMoves
  BY <1>14, LibraryMovesEffect DEF PlcTypeOK
<1>15. CASE ServerReplies \/ LinkDrops
  BY <1>15 DEF ServerReplies, LinkDrops, PlcTypeOK, plcVars
<1>16. CASE PlcStep
  <2>1. late > 0 => late - 1 \in Nat
    BY DEF PlcTypeOK
  <2>2. CASE PlcStarts \/ PlcStartsLate
    <3>1. node' \in Values /\ launches' \in Nat
      BY <2>2 DEF PlcStarts, PlcStartsLate, Execute, PlcTypeOK
    <3> QED
      BY <2>1, <2>2, <3>1 DEF PlcStarts, PlcStartsLate, Execute, PlcTypeOK
  <2>3. CASE PlcRejects
    BY <2>1, <2>3 DEF PlcRejects, PlcTypeOK
  <2>4. CASE PlcWorks \/ PlcEnds
    BY <2>4, ValuesAssumption DEF PlcWorks, PlcEnds, PlcTypeOK
  <2> QED
    BY <1>16, <2>2, <2>3, <2>4 DEF PlcStep
<1> QED
  BY <1>1, <1>2, <1>3, <1>4, <1>5, <1>6, <1>7, <1>8, <1>9, <1>10, <1>11,
     <1>12, <1>13, <1>14, <1>15, <1>16
  DEF SystemStep, MethodStep, Environment

\* The program point and the place in the library stay in step: a call ends at
\* the point behind it.
LEMMA CallKept == LauncherInv /\ SystemStep => CallInv'
<1> SUFFICES ASSUME LauncherInv, SystemStep PROVE CallInv'
  OBVIOUS
<1> USE DEF LauncherInv, TypeOK, AtPoint
<1>1. CASE \/ CallBuildUnitExit \/ CallFails \/ StopWithoutClient
           \/ StopDeletes \/ StopTouchesFreed \/ KeepAliveTouches
  BY <1>1
  DEF CallBuildUnitExit, CallFails, StopWithoutClient, StopDeletes,
      StopTouchesFreed, KeepAliveTouches, ReturnFrom, Exit, Crash, Goto, CallInv,
      clientVars
<1>2. CASE ConnectDropsOld \/ StopDisconnects
  BY <1>2, DisconnectEffect
  DEF ConnectDropsOld, StopDisconnects, Goto, CallInv
<1>3. CASE ConnectFirst \/ DeleteOld \/ ConnectTouchesFreed
  BY <1>3
  DEF ConnectFirst, DeleteOld, ConnectTouchesFreed, MakeClient, NewClient,
      Crash, Goto, CallInv, clientVars
<1>4. CASE Dial
  BY <1>4, ConnectEffect DEF Dial, Goto, CallInv, ObjectInv
<1>5. CASE DialSucceeds
  BY <1>5, DialSucceedsEffect DEF CallInv
<1>6. CASE DialFails
  BY <1>6 DEF DialFails, CallInv, clientVars
<1>7. CASE LaunchChecksLink
  BY <1>7 DEF LaunchChecksLink, EnsureConnected, CallInv, clientVars
<1>8. CASE CallAutoDecake
  BY <1>8, ServiceEffect DEF CallAutoDecake, Goto, CallInv, ObjectInv
<1>9. CASE CallSucceeds
  BY <1>9, CallSucceedsEffect DEF CallInv, clientVars
<1>10. CASE WaitPolls
  BY <1>10, ServiceEffect DEF WaitPolls, CallInv, ObjectInv, FlagExact
<1>11. CASE WaitReads
  BY <1>11 DEF WaitReads, CallInv, clientVars
<1>12. CASE KeepAliveReads
  BY <1>12, ServiceEffect
  DEF KeepAliveReads, Goto, CallInv, ObjectInv, FlagExact
<1>13. CASE KeepAliveGoesOn
  BY <1>13 DEF KeepAliveGoesOn, CallInv, clientVars
<1>14. CASE LibraryMoves
  BY <1>14, LibraryMovesEffect DEF CallInv, ConnectPlaces
<1>15. CASE ServerReplies \/ LinkDrops
  BY <1>15
  DEF ServerReplies, LinkDrops, ServerAnswers, ServerHangsUp, launcherVars,
      CallInv
<1>16. CASE PlcStep
  BY <1>16
  DEF PlcStep, PlcStarts, PlcStartsLate, Execute, PlcRejects, PlcWorks, PlcEnds,
      launcherVars, CallInv, clientVars
<1> QED
  BY <1>1, <1>2, <1>3, <1>4, <1>5, <1>6, <1>7, <1>8, <1>9, <1>10, <1>11,
     <1>12, <1>13, <1>14, <1>15, <1>16
  DEF SystemStep, MethodStep, Environment

\* The flag stays exact and client_ points to a live client wherever the code
\* uses it without a look at it.
LEMMA ObjectKept == LauncherInv /\ SystemStep => ObjectInv'
<1> SUFFICES ASSUME LauncherInv, SystemStep PROVE ObjectInv'
  OBVIOUS
<1> USE DEF LauncherInv, TypeOK, AtPoint
<1>1. CASE \/ CallBuildUnitExit \/ CallFails \/ StopWithoutClient
           \/ StopDeletes \/ StopTouchesFreed \/ KeepAliveTouches
  BY <1>1
  DEF CallBuildUnitExit, CallFails, StopWithoutClient, StopDeletes,
      StopTouchesFreed, KeepAliveTouches, ReturnFrom, Exit, Crash, Goto, ObjectInv,
      FlagExact, clientVars
<1>2. CASE ConnectDropsOld \/ StopDisconnects
  BY <1>2, DisconnectEffect
  DEF ConnectDropsOld, StopDisconnects, Goto, ObjectInv, FlagExact, ClientInv,
      Up, Down
<1>3. CASE ConnectFirst \/ DeleteOld \/ ConnectTouchesFreed
  BY <1>3
  DEF ConnectFirst, DeleteOld, ConnectTouchesFreed, MakeClient, NewClient,
      Crash, Goto, ObjectInv, FlagExact, clientVars
<1>4. CASE Dial
  BY <1>4 DEF Dial, Goto, ObjectInv, FlagExact
<1>5. CASE DialSucceeds
  BY <1>5, DialSucceedsEffect DEF ObjectInv, FlagExact
<1>6. CASE DialFails
  BY <1>6 DEF DialFails, ObjectInv, CallInv, FlagExact, ClientInv, clientVars
<1>7. CASE LaunchChecksLink
  BY <1>7
  DEF LaunchChecksLink, EnsureConnected, ObjectInv, FlagExact, clientVars
<1>8. CASE CallAutoDecake
  BY <1>8, ServiceEffect
  DEF CallAutoDecake, Goto, ObjectInv, FlagExact, ClientInv
<1>9. CASE CallSucceeds
  BY <1>9, CallSucceedsEffect DEF ObjectInv, FlagExact, clientVars
<1>10. CASE WaitPolls
  BY <1>10, ServiceEffect
  DEF WaitPolls, ObjectInv, FlagExact, ClientInv, Up, Down
<1>11. CASE WaitReads
  BY <1>11 DEF WaitReads, ObjectInv, FlagExact, clientVars
<1>12. CASE KeepAliveReads
  BY <1>12, ServiceEffect
  DEF KeepAliveReads, Goto, ObjectInv, FlagExact, ClientInv, Up, Down
<1>13. CASE KeepAliveGoesOn
  BY <1>13 DEF KeepAliveGoesOn, ObjectInv, FlagExact, clientVars
<1>14. CASE LibraryMoves
  <2>1. /\ at # "idle" /\ object = "live" /\ UNCHANGED <<pc, object>>
        /\ pc \in {"dialled", "called", "waitRead", "sleepRead", "delete", "stopping"}
    BY <1>14, LibraryMovesEffect DEF CallInv, ObjectInv, ConnectPlaces
  <2>2. FlagExact'
    <3>1. CASE at \in ConnectPlaces
      BY <2>1, <3>1, <1>14 DEF CallInv, FlagExact, ConnectPlaces
    <3>2. CASE at = "user" /\ at' = "idle" /\ clientState' = SESSION
               /\ UNCHANGED connected
      BY <3>2 DEF CallInv, FlagExact
    <3>3. CASE \/ at' = "closing"
               \/ clientState' = DISCONNECTED /\ connected' = FALSE
      BY <3>3 DEF FlagExact
    <3> QED
      BY <1>14, <3>1, <3>2, <3>3, LibraryMovesEffect
  <2> QED
    BY <2>1, <2>2 DEF ObjectInv
<1>15. CASE ServerReplies \/ LinkDrops
  BY <1>15
  DEF ServerReplies, LinkDrops, ServerAnswers, ServerHangsUp, launcherVars,
      ObjectInv, FlagExact
<1>16. CASE PlcStep
  BY <1>16
  DEF PlcStep, PlcStarts, PlcStartsLate, Execute, PlcRejects, PlcWorks, PlcEnds,
      launcherVars, ObjectInv, FlagExact, clientVars
<1> QED
  BY <1>1, <1>2, <1>3, <1>4, <1>5, <1>6, <1>7, <1>8, <1>9, <1>10, <1>11,
     <1>12, <1>13, <1>14, <1>15, <1>16
  DEF SystemStep, MethodStep, Environment

\* connectRetry is entered with attempts left, and never for the wait.
LEMMA RetryKept == LauncherInv /\ SystemStep => RetryInv'
<1> SUFFICES ASSUME LauncherInv, SystemStep PROVE RetryInv'
  OBVIOUS
<1> USE DEF LauncherInv, TypeOK, AtPoint
<1>1. CASE \/ CallBuildUnitExit \/ CallFails \/ StopWithoutClient
           \/ StopDeletes \/ StopTouchesFreed \/ KeepAliveTouches
  BY <1>1
  DEF CallBuildUnitExit, CallFails, StopWithoutClient, StopDeletes,
      StopTouchesFreed, KeepAliveTouches, ReturnFrom, Exit, Crash, Goto, RetryInv
<1>2. CASE ConnectDropsOld \/ StopDisconnects
  BY <1>2 DEF ConnectDropsOld, StopDisconnects, Goto, RetryInv
<1>3. CASE ConnectFirst \/ DeleteOld \/ ConnectTouchesFreed
  BY <1>3
  DEF ConnectFirst, DeleteOld, ConnectTouchesFreed, MakeClient, Crash, Goto,
      RetryInv
<1>4. CASE Dial
  BY <1>4 DEF Dial, Goto, RetryInv
<1>5. CASE DialSucceeds
  BY <1>5, DialSucceedsEffect DEF RetryInv
<1>6. CASE DialFails
  BY <1>6 DEF DialFails, RetryInv
<1>7. CASE LaunchChecksLink
  BY <1>7, LauncherAssumption DEF LaunchChecksLink, EnsureConnected, RetryInv
<1>8. CASE CallAutoDecake
  BY <1>8 DEF CallAutoDecake, Goto, RetryInv
<1>9. CASE CallSucceeds
  BY <1>9, CallSucceedsEffect DEF RetryInv
<1>10. CASE WaitPolls
  BY <1>10 DEF WaitPolls, RetryInv
<1>11. CASE WaitReads
  BY <1>11 DEF WaitReads, RetryInv
<1>12. CASE KeepAliveReads
  BY <1>12 DEF KeepAliveReads, Goto, RetryInv
<1>13. CASE KeepAliveGoesOn
  BY <1>13 DEF KeepAliveGoesOn, RetryInv
<1>14. CASE LibraryMoves
  BY <1>14, LibraryMovesEffect DEF RetryInv
<1>15. CASE ServerReplies \/ LinkDrops
  BY <1>15 DEF ServerReplies, LinkDrops, launcherVars, RetryInv
<1>16. CASE PlcStep
  BY <1>16
  DEF PlcStep, PlcStarts, PlcStartsLate, Execute, PlcRejects, PlcWorks, PlcEnds,
      launcherVars, RetryInv
<1> QED
  BY <1>1, <1>2, <1>3, <1>4, <1>5, <1>6, <1>7, <1>8, <1>9, <1>10, <1>11,
     <1>12, <1>13, <1>14, <1>15, <1>16
  DEF SystemStep, MethodStep, Environment

\* No step sends a call that was not asked for.
LEMMA CountKept == LauncherInv /\ SystemStep => CountInv'
<1> SUFFICES ASSUME LauncherInv, SystemStep PROVE CountInv'
  OBVIOUS
<1> USE DEF LauncherInv, TypeOK, AtPoint
<1>1. CASE \/ CallBuildUnitExit \/ CallFails \/ StopWithoutClient
           \/ StopDeletes \/ StopTouchesFreed \/ KeepAliveTouches
  BY <1>1
  DEF CallBuildUnitExit, CallFails, StopWithoutClient, StopDeletes,
      StopTouchesFreed, KeepAliveTouches, ReturnFrom, Exit, Crash, Goto, CountInv,
      NoRepeatedLaunch, Armed, plcVars
<1>2. CASE ConnectDropsOld \/ StopDisconnects
  BY <1>2
  DEF ConnectDropsOld, StopDisconnects, Goto, CountInv, NoRepeatedLaunch,
      Armed, plcVars
<1>3. CASE ConnectFirst \/ DeleteOld \/ ConnectTouchesFreed
  BY <1>3
  DEF ConnectFirst, DeleteOld, ConnectTouchesFreed, MakeClient, Crash, Goto,
      CountInv, NoRepeatedLaunch, Armed, plcVars
<1>4. CASE Dial
  BY <1>4 DEF Dial, Goto, CountInv, NoRepeatedLaunch, Armed, plcVars
<1>5. CASE DialSucceeds
  BY <1>5, DialSucceedsEffect DEF CountInv, NoRepeatedLaunch, Armed, plcVars
<1>6. CASE DialFails
  BY <1>6 DEF DialFails, CountInv, NoRepeatedLaunch, Armed, plcVars
<1>7. CASE LaunchChecksLink
  BY <1>7 DEF LaunchChecksLink, CountInv, NoRepeatedLaunch, Armed, plcVars
<1>8. CASE CallAutoDecake
  <2>1. /\ launches \in Nat /\ pending \in {0, 1} /\ late \in Nat /\ asked \in Nat
        /\ LeftOver \in Nat
    BY LauncherAssumption DEF PlcTypeOK
  <2>2. launches + pending + late < asked + LeftOver
    BY <1>8 DEF CallAutoDecake, CountInv, Armed
  <2>3. /\ pc' = "called" /\ pending' \in {0, 1} /\ late' = late + pending
        /\ UNCHANGED <<launches, asked>>
    BY <1>8 DEF CallAutoDecake, Goto
  <2>4. ~Armed'
    BY <2>3 DEF Armed
  <2>5. launches' + pending' + late' <= asked' + LeftOver
    <3> HIDE DEF LauncherInv, TypeOK
    <3>1. \A p \in {0, 1} : launches + p + (late + pending) <= asked + LeftOver
      BY <2>1, <2>2
    <3> QED
      BY <2>3, <3>1
  <2> QED
    BY <2>4, <2>5 DEF CountInv, NoRepeatedLaunch
<1>9. CASE CallSucceeds
  BY <1>9, CallSucceedsEffect DEF CountInv, NoRepeatedLaunch, Armed, plcVars
<1>10. CASE WaitPolls
  BY <1>10 DEF WaitPolls, CountInv, NoRepeatedLaunch, Armed, plcVars
<1>11. CASE WaitReads
  BY <1>11 DEF WaitReads, CountInv, NoRepeatedLaunch, Armed, plcVars
<1>12. CASE KeepAliveReads
  BY <1>12
  DEF KeepAliveReads, Goto, CountInv, NoRepeatedLaunch, Armed, plcVars
<1>13. CASE KeepAliveGoesOn
  BY <1>13 DEF KeepAliveGoesOn, CountInv, NoRepeatedLaunch, Armed, plcVars
<1>14. CASE LibraryMoves
  BY <1>14, LibraryMovesEffect DEF CountInv, NoRepeatedLaunch, Armed
<1>15. CASE ServerReplies \/ LinkDrops
  BY <1>15
  DEF ServerReplies, LinkDrops, launcherVars, CountInv, NoRepeatedLaunch,
      Armed, plcVars
<1>16. CASE PlcStep
  <2>1. /\ launches \in Nat /\ pending \in {0, 1} /\ late \in Nat /\ asked \in Nat
        /\ LeftOver \in Nat
    BY LauncherAssumption DEF PlcTypeOK
  <2>2. Armed' = Armed
    BY <1>16
    DEF PlcStep, PlcStarts, PlcStartsLate, Execute, PlcRejects, PlcWorks, PlcEnds,
        launcherVars, Armed
  <2>3. asked' = asked /\ launches' + pending' + late' <= launches + pending + late
    <3>1. CASE PlcStarts \/ PlcStartsLate
      BY <2>1, <3>1 DEF PlcStarts, PlcStartsLate, Execute
    <3>2. CASE PlcRejects
      BY <2>1, <3>2 DEF PlcRejects
    <3>3. CASE PlcWorks \/ PlcEnds
      BY <2>1, <3>3 DEF PlcWorks, PlcEnds
    <3> QED
      BY <1>16, <3>1, <3>2, <3>3 DEF PlcStep
  <2>4. launches' \in Nat /\ pending' \in {0, 1} /\ late' \in Nat
    BY PlcTypes DEF PlcTypeOK
  <2>5. /\ launches' + pending' + late' <= asked' + LeftOver
        /\ Armed => launches' + pending' + late' < asked' + LeftOver
    <3>1. launches + pending + late \in Nat /\ asked + LeftOver \in Nat
      BY <2>1
    <3>2. PICK n \in Nat : n = launches' + pending' + late'
      <4> HIDE DEF LauncherInv, TypeOK
      <4>1. \A l, p, o \in Nat : l + p + o \in Nat
        OBVIOUS
      <4> QED
        BY <2>4, <4>1
    <3>3. n <= launches + pending + late /\ launches + pending + late <= asked + LeftOver
      BY <2>3, <3>2 DEF CountInv, NoRepeatedLaunch
    <3>4. Armed => launches + pending + late < asked + LeftOver
      BY DEF CountInv
    <3>5. n <= asked + LeftOver /\ (Armed => n < asked + LeftOver)
      BY <3>1, <3>3, <3>4
    <3> QED
      BY <2>3, <3>2, <3>5
  <2> QED
    BY <2>2, <2>5 DEF CountInv, NoRepeatedLaunch
<1> QED
  BY <1>1, <1>2, <1>3, <1>4, <1>5, <1>6, <1>7, <1>8, <1>9, <1>10, <1>11,
     <1>12, <1>13, <1>14, <1>15, <1>16
  DEF SystemStep, MethodStep, Environment

\* A wait begins after a call that was executed, and what came after that call is
\* told apart: the end of a process, and the start of another by an earlier call.
LEMMA LaunchKept == LauncherInv /\ SystemStep => LaunchInv'
<1> SUFFICES ASSUME LauncherInv, SystemStep PROVE LaunchInv'
  OBVIOUS
<1> USE DEF LauncherInv, TypeOK, AtPoint
<1>1. CASE \/ CallBuildUnitExit \/ CallFails \/ StopWithoutClient
           \/ StopDeletes \/ StopTouchesFreed \/ KeepAliveTouches
  BY <1>1
  DEF CallBuildUnitExit, CallFails, StopWithoutClient, StopDeletes,
      StopTouchesFreed, KeepAliveTouches, ReturnFrom, Exit, Crash, Goto, LaunchInv,
      clientVars, plcVars
<1>2. CASE ConnectDropsOld \/ StopDisconnects
  <2>1. at' # "user" /\ pc' \in {"delete", "stopping"} /\ UNCHANGED plcVars
    BY <1>2, DisconnectEffect DEF ConnectDropsOld, StopDisconnects, Goto
  <2> QED
    BY <2>1 DEF LaunchInv, plcVars
<1>3. CASE ConnectFirst \/ DeleteOld \/ ConnectTouchesFreed
  BY <1>3
  DEF ConnectFirst, DeleteOld, ConnectTouchesFreed, MakeClient, NewClient,
      Crash, Goto, LaunchInv, clientVars, plcVars
<1>4. CASE Dial
  <2>1. at' # "user" /\ pc' = "dialled" /\ UNCHANGED plcVars
    BY <1>4, ConnectEffect DEF Dial, Goto, ObjectInv
  <2> QED
    BY <2>1 DEF LaunchInv, plcVars
<1>5. CASE DialSucceeds
  <2>1. at' # "user" /\ pc' \in {"returned", "call"} /\ UNCHANGED plcVars
    BY <1>5, DialSucceedsEffect
  <2> QED
    BY <2>1 DEF LaunchInv, plcVars
<1>6. CASE DialFails
  BY <1>6 DEF DialFails, LaunchInv, clientVars, plcVars
<1>7. CASE LaunchChecksLink
  BY <1>7
  DEF LaunchChecksLink, EnsureConnected, LaunchInv, clientVars, plcVars
<1>8. CASE CallAutoDecake
  BY <1>8, ServiceEffect DEF CallAutoDecake, Goto, LaunchInv
<1>9. CASE CallSucceeds
  BY <1>9, CallSucceedsEffect DEF LaunchInv, plcVars
<1>10. CASE WaitPolls
  BY <1>10 DEF WaitPolls, LaunchInv, plcVars
<1>11. CASE WaitReads
  BY <1>11 DEF WaitReads, LaunchInv, plcVars
<1>12. CASE KeepAliveReads
  BY <1>12, ServiceEffect DEF KeepAliveReads, Goto, LaunchInv, plcVars
<1>13. CASE KeepAliveGoesOn
  BY <1>13 DEF KeepAliveGoesOn, LaunchInv, clientVars, plcVars
<1>14. CASE LibraryMoves
  <2>1. /\ at # "idle" /\ at' # "user" /\ pc # "waitTop"
        /\ UNCHANGED <<pc, process, callVars>>
    BY <1>14, LibraryMovesEffect DEF CallInv, ConnectPlaces
  <2>2. pc = "called" /\ at' = "idle" /\ result' = "good" => accepted
    BY <1>14, LibraryMovesEffect DEF CallInv, ConnectPlaces
  <2> QED
    BY <2>1, <2>2 DEF LaunchInv
<1>15. CASE ServerReplies \/ LinkDrops
  BY <1>15
  DEF ServerReplies, LinkDrops, ServerAnswers, ServerHangsUp, launcherVars,
      LaunchInv, plcVars
<1>16. CASE PlcStep
  BY <1>16
  DEF PlcStep, PlcStarts, PlcStartsLate, Execute, PlcRejects, PlcWorks, PlcEnds,
      launcherVars, LaunchInv, clientVars
<1> QED
  BY <1>1, <1>2, <1>3, <1>4, <1>5, <1>6, <1>7, <1>8, <1>9, <1>10, <1>11,
     <1>12, <1>13, <1>14, <1>15, <1>16
  DEF SystemStep, MethodStep, Environment

\* What ends the wait is a final value that the machine has taken since it
\* executed the call.
LEMMA FinalKept == LauncherInv /\ SystemStep => FinalInv'
<1> SUFFICES ASSUME LauncherInv, SystemStep PROVE FinalInv'
  OBVIOUS
<1> USE DEF LauncherInv, TypeOK, AtPoint
<1>1. CASE \/ CallBuildUnitExit \/ CallFails \/ StopWithoutClient
           \/ StopDeletes \/ StopTouchesFreed \/ KeepAliveTouches
  BY <1>1
  DEF CallBuildUnitExit, CallFails, StopWithoutClient, StopDeletes,
      StopTouchesFreed, KeepAliveTouches, ReturnFrom, Exit, Crash, Goto, FinalInv,
      SuccessMeansEnded, plcVars
<1>2. CASE ConnectDropsOld \/ StopDisconnects
  BY <1>2
  DEF ConnectDropsOld, StopDisconnects, Goto, FinalInv, SuccessMeansEnded,
      plcVars
<1>3. CASE ConnectFirst \/ DeleteOld \/ ConnectTouchesFreed
  BY <1>3
  DEF ConnectFirst, DeleteOld, ConnectTouchesFreed, MakeClient, Crash, Goto,
      FinalInv, SuccessMeansEnded, plcVars
<1>4. CASE Dial
  BY <1>4 DEF Dial, Goto, FinalInv, SuccessMeansEnded, plcVars
<1>5. CASE DialSucceeds
  <2>1. /\ pc' \in {"returned", "call"} /\ UNCHANGED plcVars
        /\ pc' = "returned" => method' = "connect"
    BY <1>5, DialSucceedsEffect DEF RetryInv
  <2> QED
    BY <2>1 DEF FinalInv, SuccessMeansEnded, plcVars
<1>6. CASE DialFails
  BY <1>6 DEF DialFails, FinalInv, SuccessMeansEnded, plcVars
<1>7. CASE LaunchChecksLink
  BY <1>7
  DEF LaunchChecksLink, EnsureConnected, FinalInv, SuccessMeansEnded, plcVars
<1>8. CASE CallAutoDecake
  BY <1>8 DEF CallAutoDecake, Goto, FinalInv, SuccessMeansEnded
<1>9. CASE CallSucceeds
  <2>1. NewWait.met = FALSE /\ NewWait.value \notin FinalValues
    BY ValuesAssumption DEF NewWait
  <2> QED
    BY <1>9, <2>1, CallSucceedsEffect DEF FinalInv, SuccessMeansEnded, plcVars
<1>10. CASE WaitPolls
  <2>1. wait'.met = wait.met /\ wait'.value = wait.value
    BY <1>10, PollEffect DEF WaitPolls, LauncherTypeOK
  <2>2. \/ at' = "user" /\ exchange' = "sent"
        \/ at' = "idle" /\ result' = "bad"
    BY <1>10, ServiceEffect DEF WaitPolls
  <2>3. pc = "waitTop" /\ pc' = "waitRead" /\ UNCHANGED plcVars
    BY <1>10 DEF WaitPolls
  <2> QED
    BY <2>1, <2>2, <2>3 DEF FinalInv, SuccessMeansEnded, plcVars
<1>11. CASE WaitReads
  <2>1. PICK read \in (IF result = "good" THEN {reply, Failed} ELSE {Failed}) :
          wait' = IntIteration(wait, read)
    BY <1>11 DEF WaitReads
  <2>2. /\ wait \in Waits /\ ~wait.met /\ wait.value \notin FinalValues
        /\ read \in Values \cup {Failed}
    BY <1>11, <2>1 DEF WaitReads, FinalInv, LauncherTypeOK, PlcTypeOK
  <2>3. /\ GoesOn(wait', MaxRetry) => ~wait'.met /\ wait'.value \notin FinalValues
        /\ ~GoesOn(wait', MaxRetry) /\ IntReturns(wait', MaxRetry) =>
             read \in FinalValues
    BY <2>1, <2>2, IterationEffect
  <2>4. read \in FinalValues => result = "good" /\ reply \in FinalValues
    BY <2>1, ValuesAssumption
  <2>5. pc = "waitRead" /\ at = "idle" /\ UNCHANGED <<clientVars, plcVars, method>>
    BY <1>11 DEF WaitReads
  <2>6. \/ pc' = "waitTop" /\ GoesOn(wait', MaxRetry)
        \/ pc' = "returned" /\ ret' = IntReturns(wait', MaxRetry)
           /\ ~GoesOn(wait', MaxRetry)
    BY <1>11 DEF WaitReads
  <2>7. accepted /\ (finished /\ ~restarted => process = "ended")
    BY <2>5 DEF LaunchInv
  <2>8. ASSUME pc' = "returned", ret'
        PROVE  (PromptStart => finished) /\ connected
    <3>1. result = "good" /\ reply \in FinalValues
      BY <2>3, <2>4, <2>6, <2>8
    <3>2. clientState = SESSION
      BY <2>5, <3>1 DEF CallInv
    <3> QED
      BY <2>5, <3>1, <3>2 DEF FinalInv, ObjectInv, FlagExact
  <2> QED
    BY <2>3, <2>5, <2>6, <2>7, <2>8
    DEF FinalInv, SuccessMeansEnded, clientVars, plcVars
<1>12. CASE KeepAliveReads
  BY <1>12 DEF KeepAliveReads, Goto, FinalInv, SuccessMeansEnded, plcVars
<1>13. CASE KeepAliveGoesOn
  <2>1. /\ pc' \in {"sleepTop", "returned"} /\ method' = "sleep"
        /\ UNCHANGED plcVars
    BY <1>13 DEF KeepAliveGoesOn, RetryInv
  <2> QED
    BY <2>1 DEF FinalInv, SuccessMeansEnded, plcVars
<1>14. CASE LibraryMoves
  <2>1. /\ pc # "returned" /\ pc # "waitTop"
        /\ UNCHANGED <<pc, wait, node, reply, process, callVars>>
    BY <1>14, LibraryMovesEffect DEF CallInv, ConnectPlaces
  <2>2. ASSUME pc = "waitRead",
               (at' = "user" /\ exchange' = "answered") \/ (at' = "idle" /\ result' = "good")
        PROVE  at = "user" /\ exchange = "answered"
    BY <1>14, <2>2, LibraryMovesEffect DEF CallInv, ConnectPlaces
  <2> QED
    BY <2>1, <2>2 DEF FinalInv, SuccessMeansEnded
<1>15. CASE ServerReplies \/ LinkDrops
  <2>1. CASE ServerReplies
    <3>1. pc = "waitRead" => accepted
      BY DEF LaunchInv
    <3>2. PromptStart /\ pc = "waitRead" /\ reply' \in FinalValues => finished
      BY <2>1, <3>1 DEF ServerReplies, FinalInv, PlcTypeOK
    <3> QED
      BY <2>1, <3>2
      DEF ServerReplies, ServerAnswers, FinalInv, SuccessMeansEnded,
          launcherVars
  <2>2. CASE LinkDrops
    BY <2>2
    DEF LinkDrops, ServerHangsUp, FinalInv, SuccessMeansEnded, launcherVars,
        plcVars
  <2> QED
    BY <1>15, <2>1, <2>2
<1>16. CASE PlcStep
  BY <1>16
  DEF PlcStep, PlcStarts, PlcStartsLate, Execute, PlcRejects, PlcWorks, PlcEnds,
      launcherVars, FinalInv, SuccessMeansEnded, LaunchInv, clientVars
<1> QED
  BY <1>1, <1>2, <1>3, <1>4, <1>5, <1>6, <1>7, <1>8, <1>9, <1>10, <1>11,
     <1>12, <1>13, <1>14, <1>15, <1>16
  DEF SystemStep, MethodStep, Environment

\* A reconnect is given up after the last attempt.
LEMMA GivesUpKept == LauncherInv /\ SystemStep => GivesUpAfterAll'
<1> SUFFICES ASSUME LauncherInv, SystemStep PROVE GivesUpAfterAll'
  OBVIOUS
<1> USE DEF LauncherInv, TypeOK, AtPoint
<1>1. CASE \/ CallBuildUnitExit \/ CallFails \/ StopWithoutClient
           \/ StopDeletes \/ StopTouchesFreed \/ KeepAliveTouches
  BY <1>1
  DEF CallBuildUnitExit, CallFails, StopWithoutClient, StopDeletes,
      StopTouchesFreed, KeepAliveTouches, ReturnFrom, Exit, Crash, Goto,
      GivesUpAfterAll, ObjectInv
<1>2. CASE ConnectDropsOld \/ StopDisconnects
  BY <1>2 DEF ConnectDropsOld, StopDisconnects, Goto, GivesUpAfterAll
<1>3. CASE ConnectFirst \/ DeleteOld \/ ConnectTouchesFreed
  BY <1>3
  DEF ConnectFirst, DeleteOld, ConnectTouchesFreed, MakeClient, Crash, Goto,
      GivesUpAfterAll
<1>4. CASE Dial
  BY <1>4 DEF Dial, Goto, GivesUpAfterAll
<1>5. CASE DialSucceeds
  BY <1>5, DialSucceedsEffect DEF GivesUpAfterAll, ObjectInv
<1>6. CASE DialFails
  BY <1>6, LauncherAssumption
  DEF DialFails, GivesUpAfterAll, RetryInv, LauncherTypeOK
<1>7. CASE LaunchChecksLink
  BY <1>7 DEF LaunchChecksLink, EnsureConnected, GivesUpAfterAll
<1>8. CASE CallAutoDecake
  BY <1>8 DEF CallAutoDecake, Goto, GivesUpAfterAll
<1>9. CASE CallSucceeds
  BY <1>9, CallSucceedsEffect DEF GivesUpAfterAll
<1>10. CASE WaitPolls
  BY <1>10 DEF WaitPolls, GivesUpAfterAll
<1>11. CASE WaitReads
  BY <1>11 DEF WaitReads, GivesUpAfterAll, ObjectInv
<1>12. CASE KeepAliveReads
  BY <1>12 DEF KeepAliveReads, Goto, GivesUpAfterAll
<1>13. CASE KeepAliveGoesOn
  BY <1>13 DEF KeepAliveGoesOn, GivesUpAfterAll, RetryInv
<1>14. CASE LibraryMoves
  BY <1>14, LibraryMovesEffect DEF GivesUpAfterAll
<1>15. CASE ServerReplies \/ LinkDrops
  BY <1>15 DEF ServerReplies, LinkDrops, launcherVars, GivesUpAfterAll
<1>16. CASE PlcStep
  BY <1>16
  DEF PlcStep, PlcStarts, PlcStartsLate, Execute, PlcRejects, PlcWorks, PlcEnds,
      launcherVars, GivesUpAfterAll
<1> QED
  BY <1>1, <1>2, <1>3, <1>4, <1>5, <1>6, <1>7, <1>8, <1>9, <1>10, <1>11,
     <1>12, <1>13, <1>14, <1>15, <1>16
  DEF SystemStep, MethodStep, Environment

\* The clocks of the loops stop at their limits: a wait goes on only below its
\* deadline, and the keep-alive loop below its length.
LEMMA ClockKept == LauncherInv /\ SystemStep => ClockInv'
<1> SUFFICES ASSUME LauncherInv, SystemStep PROVE ClockInv'
  OBVIOUS
<1> USE DEF LauncherInv, TypeOK, AtPoint
<1>1. CASE \/ CallBuildUnitExit \/ CallFails \/ StopWithoutClient
           \/ StopDeletes \/ StopTouchesFreed \/ KeepAliveTouches
  BY <1>1
  DEF CallBuildUnitExit, CallFails, StopWithoutClient, StopDeletes,
      StopTouchesFreed, KeepAliveTouches, ReturnFrom, Exit, Crash, Goto, ClockInv
<1>2. CASE ConnectDropsOld \/ StopDisconnects
  BY <1>2 DEF ConnectDropsOld, StopDisconnects, Goto, ClockInv
<1>3. CASE ConnectFirst \/ DeleteOld \/ ConnectTouchesFreed
  BY <1>3
  DEF ConnectFirst, DeleteOld, ConnectTouchesFreed, MakeClient, Crash, Goto,
      ClockInv
<1>4. CASE Dial
  BY <1>4 DEF Dial, Goto, ClockInv
<1>5. CASE DialSucceeds
  BY <1>5, DialSucceedsEffect DEF ClockInv
<1>6. CASE DialFails
  BY <1>6 DEF DialFails, ClockInv
<1>7. CASE LaunchChecksLink
  BY <1>7 DEF LaunchChecksLink, EnsureConnected, ClockInv, ObjectInv
<1>8. CASE CallAutoDecake
  BY <1>8 DEF CallAutoDecake, Goto, ClockInv
<1>9. CASE CallSucceeds
  BY <1>9, CallSucceedsEffect, LauncherAssumption DEF ClockInv
<1>10. CASE WaitPolls
  <2>1. wait'.timeout = (elapsed > TimeoutSec)
    BY <1>10, PollEffect DEF WaitPolls, LauncherTypeOK
  <2> QED
    BY <1>10, <2>1 DEF WaitPolls, ClockInv
<1>11. CASE WaitReads
  <2>1. PICK read \in (IF result = "good" THEN {reply, Failed} ELSE {Failed}) :
          wait' = IntIteration(wait, read)
    BY <1>11 DEF WaitReads
  <2>2. wait'.timeout = wait.timeout
    BY <2>1 DEF IntIteration, LauncherTypeOK, Waits
  <2>3. ASSUME pc' = "waitTop" PROVE elapsed' <= TimeoutSec + 1
    <3>1. ~(elapsed > TimeoutSec)
      BY <1>11, <2>2, <2>3 DEF WaitReads, GoesOn, ClockInv
    <3>2. PICK d \in 0..MaxReadTime : elapsed' = Later(d, TimeoutSec)
      BY <1>11 DEF WaitReads
    <3> QED
      BY <3>1, <3>2, LauncherAssumption DEF Later, LauncherTypeOK
  <2> QED
    BY <1>11, <2>3 DEF WaitReads, ClockInv
<1>12. CASE KeepAliveReads
  BY <1>12 DEF KeepAliveReads, Goto, ClockInv
<1>13. CASE KeepAliveGoesOn
  <2>1. elapsed' < SleepSec => elapsed' <= SleepSec
    BY <1>13, LaterIsNat, LauncherAssumption DEF KeepAliveGoesOn
  <2> QED
    BY <1>13, <2>1 DEF KeepAliveGoesOn, ClockInv
<1>14. CASE LibraryMoves
  BY <1>14, LibraryMovesEffect DEF ClockInv
<1>15. CASE Environment
  BY <1>15
  DEF Environment, ServerReplies, LinkDrops, PlcStep, PlcStarts, PlcStartsLate,
      Execute, PlcRejects, PlcWorks, PlcEnds, launcherVars, ClockInv
<1> QED
  BY <1>1, <1>2, <1>3, <1>4, <1>5, <1>6, <1>7, <1>8, <1>9, <1>10, <1>11,
     <1>12, <1>13, <1>14, <1>15
  DEF SystemStep, MethodStep

----------------------------------------------------------------------------
(* The launcher keeps the discipline that UAClient asks of its caller.      *)

LEMMA Discipline == LauncherInv /\ SystemStep => [ClientNext]_clientVars
<1> SUFFICES ASSUME LauncherInv, SystemStep PROVE [ClientNext]_clientVars
  OBVIOUS
<1> USE DEF LauncherInv, AtPoint
<1>1. CASE ConnectFirst \/ DeleteOld \/ ConnectTouchesFreed
  <2>1. UNCHANGED clientVars \/ (clientState = DISCONNECTED /\ NewClient)
    BY <1>1
    DEF ConnectFirst, DeleteOld, ConnectTouchesFreed, MakeClient, Crash,
        ObjectInv
  <2> QED
    BY <2>1 DEF ClientNext, Caller
<1>2. CASE Dial
  <2>1. ~opened /\ ConnectCall
    BY <1>2 DEF Dial, ObjectInv
  <2> QED
    BY <2>1 DEF ClientNext, Caller
<1>3. CASE DialSucceeds
  BY <1>3 DEF DialSucceeds, ClientNext, Caller
<1>4. CASE ConnectDropsOld \/ StopDisconnects
  BY <1>4 DEF ConnectDropsOld, StopDisconnects, ClientNext, Caller
<1>5. CASE CallAutoDecake \/ WaitPolls \/ KeepAliveReads
  BY <1>5 DEF CallAutoDecake, WaitPolls, KeepAliveReads, ClientNext, Caller
<1>6. CASE LibraryMoves \/ ServerReplies \/ LinkDrops
  BY <1>6 DEF LibraryMoves, ServerReplies, LinkDrops, ClientNext
<1>7. CASE \/ DialFails \/ LaunchChecksLink \/ CallBuildUnitExit
           \/ CallFails \/ CallSucceeds \/ WaitReads \/ KeepAliveGoesOn
           \/ StopWithoutClient \/ StopDeletes \/ StopTouchesFreed \/ KeepAliveTouches
  BY <1>7
  DEF DialFails, LaunchChecksLink, CallBuildUnitExit, CallFails, CallSucceeds,
      WaitReads, KeepAliveGoesOn, StopWithoutClient, StopDeletes,
      StopTouchesFreed, KeepAliveTouches, Crash
<1>8. CASE PlcStep
  BY <1>8
  DEF PlcStep, PlcStarts, PlcStartsLate, Execute, PlcRejects, PlcWorks, PlcEnds
<1> QED
  BY <1>1, <1>2, <1>3, <1>4, <1>5, <1>6, <1>7, <1>8
  DEF SystemStep, MethodStep, Environment

----------------------------------------------------------------------------
(* The parts together.                                                      *)

LEMMA SystemKeepsInv == LauncherInv /\ SystemStep => LauncherInv'
<1> SUFFICES ASSUME LauncherInv, SystemStep PROVE LauncherInv'
  OBVIOUS
<1>1. ClientInv'
  BY Discipline, ClientStepKeepsInv DEF LauncherInv
<1>2. TypeOK'
  BY <1>1, LauncherTypes, PlcTypes DEF TypeOK, ClientInv
<1>3. CallInv' /\ ObjectInv' /\ RetryInv'
  BY CallKept, ObjectKept, RetryKept
<1>4. CountInv' /\ LaunchInv' /\ FinalInv' /\ GivesUpAfterAll' /\ ClockInv'
  BY CountKept, LaunchKept, FinalKept, GivesUpKept, ClockKept
<1> QED
  BY <1>1, <1>2, <1>3, <1>4 DEF LauncherInv

LEMMA InitKeepsInv == Init => LauncherInv
<1> SUFFICES ASSUME Init PROVE LauncherInv
  OBVIOUS
<1> USE DEF Init
<1>1. ClientInv
  BY InitInv
<1>2. TypeOK
  BY <1>1, WaitTypes, LauncherAssumption
  DEF TypeOK, ClientInv, LauncherTypeOK, ProgramPoints, PlcTypeOK
<1>3. CallInv /\ ObjectInv /\ RetryInv
  BY DEF ClientInit, CallInv, ObjectInv, FlagExact, RetryInv
<1>4. CountInv /\ LaunchInv /\ FinalInv /\ GivesUpAfterAll /\ ClockInv
  BY LauncherAssumption
  DEF CountInv, NoRepeatedLaunch, Armed, LaunchInv, FinalInv, SuccessMeansEnded,
      GivesUpAfterAll, ClockInv
<1> QED
  BY <1>1, <1>2, <1>3, <1>4 DEF LauncherInv

\* The invariant does not see which variables stay as they are.
LEMMA StutterKeepsInv == LauncherInv /\ UNCHANGED vars => LauncherInv'
  BY ClientSame
  DEF vars, clientVars, launcherVars, plcVars, LauncherInv, TypeOK,
      ClientTypeOK, LauncherTypeOK, PlcTypeOK, CallInv, ObjectInv, FlagExact,
      RetryInv, CountInv, NoRepeatedLaunch, Armed, LaunchInv, FinalInv,
      SuccessMeansEnded, GivesUpAfterAll, ClockInv

\* What a caller of the methods may do between two of them keeps it, too.
LEMMA AskKeepsInv ==
  ASSUME LauncherInv, pc \in {"main", "returned"},
         AskLaunch \/ AskExit \/ \E success \in BOOLEAN : AskStop(success)
  PROVE  LauncherInv'
<1> USE DEF LauncherInv, TypeOK
<1>1. UNCHANGED <<clientVars, wait, node, reply, process, callVars>>
  BY DEF AskLaunch, AskExit, AskStop, plcVars
<1>2. at = "idle"
  BY DEF CallInv, ClientInv, ClientTypeOK, Places
<1>3. ClientInv'
  BY <1>1, ClientSame
<1>4. LauncherTypeOK' /\ PlcTypeOK'
  BY
  DEF AskLaunch, AskExit, AskStop, LauncherTypeOK, ProgramPoints, PlcTypeOK, plcVars
<1>5. pc' \in {"launch", "stop"}
  BY DEF AskLaunch, AskExit, AskStop
<1>6. CallInv'
  BY <1>1, <1>2, <1>5 DEF clientVars, CallInv
<1>7. ObjectInv'
  BY <1>1, <1>2, <1>5
  DEF AskLaunch, AskExit, AskStop, clientVars, ObjectInv, FlagExact
<1>8. RetryInv'
  BY DEF AskLaunch, AskExit, AskStop, RetryInv
<1>9. CountInv'
  <2>1. /\ launches + pending + late <= asked + LeftOver
        /\ launches \in Nat /\ pending \in {0, 1} /\ late \in Nat /\ asked \in Nat
        /\ LeftOver \in Nat
    BY LauncherAssumption DEF CountInv, NoRepeatedLaunch, PlcTypeOK
  <2>2. CASE AskLaunch
    BY <1>1, <2>1, <2>2 DEF AskLaunch, CountInv, NoRepeatedLaunch, Armed
  <2>3. CASE AskExit
    BY <2>1, <2>3 DEF AskExit, CountInv, NoRepeatedLaunch, Armed, plcVars
  <2>4. CASE \E success \in BOOLEAN : AskStop(success)
    BY <2>1, <2>4 DEF AskStop, CountInv, NoRepeatedLaunch, Armed, plcVars
  <2> QED
    BY <2>2, <2>3, <2>4
<1>10. LaunchInv' /\ FinalInv' /\ GivesUpAfterAll' /\ ClockInv'
  BY <1>1, <1>5
  DEF clientVars, LaunchInv, FinalInv, SuccessMeansEnded, GivesUpAfterAll, ClockInv
<1> QED
  BY <1>3, <1>4, <1>6, <1>7, <1>8, <1>9, <1>10 DEF ClientInv
----------------------------------------------------------------------------
(* The steps of the methods are bounded: StepsLeft is a bound that each of   *)
(* them lowers, and that the environment does not touch.                     *)

\* The numbers that the bound is made of.
LEMMA StepNumbers ==
  ASSUME LauncherInv
  PROVE  /\ TimeoutSec \in Nat /\ SleepSec \in Nat /\ elapsed \in Nat
         /\ MaxConnectRetry \in Nat /\ retries \in Nat
         /\ CallSteps \in Nat /\ CallSteps >= 12
         /\ Connecting => ConnectSteps \in Nat /\ ConnectSteps >= 12
         /\ at = "idle" => WaitsLeft = 0
  BY LauncherAssumption
  DEF LauncherInv, TypeOK, LauncherTypeOK, RetryInv, CallSteps, ConnectSteps,
      AttemptSteps, WaitsLeft

\* A request of the launcher's is two waits from its end, or is not sent.
LEMMA ServiceWaits == ClientInv /\ ServiceCall => WaitsLeft' \in {0, 2}
  BY ServiceEffect DEF WaitsLeft

LEMMA DisconnectWaits == ClientInv /\ DisconnectCall => WaitsLeft' \in {0, 1}
  BY DisconnectEffect DEF WaitsLeft

\* The reads of a wait that goes on take at least the second of the Sleep.
LEMMA LaterIsLater ==
  ASSUME LauncherInv
  PROVE  \A d \in 0..MaxReadTime :
           /\ elapsed <= TimeoutSec => Later(d, TimeoutSec) > elapsed
           /\ elapsed <= SleepSec => Later(d, SleepSec) > elapsed
<1>1. elapsed \in Nat /\ TimeoutSec \in Nat /\ SleepSec \in Nat
      /\ 0..MaxReadTime \subseteq Nat
  BY LauncherAssumption DEF LauncherInv, TypeOK, LauncherTypeOK
<1> QED
  BY <1>1 DEF Later

LEMMA MethodShortens ==
  LauncherInv /\ MethodStep => StepsLeft' \in 0..(StepsLeft - 1)
<1> SUFFICES ASSUME LauncherInv, MethodStep PROVE StepsLeft' \in 0..(StepsLeft - 1)
  OBVIOUS
<1> USE StepNumbers DEF AtPoint
<1>1. ClientInv
  BY DEF LauncherInv
<1>a. UNCHANGED <<site, retries>> => ConnectSteps' = ConnectSteps
  BY DEF ConnectSteps
<1>2. CASE ConnectFirst \/ DeleteOld \/ ConnectTouchesFreed
  <2>1. /\ pc \in {"connect", "delete"} /\ at = "idle"
        /\ (pc' = "dial" /\ UNCHANGED <<site, retries>>) \/ pc' = "crashed"
    BY <1>2
    DEF ConnectFirst, DeleteOld, ConnectTouchesFreed, MakeClient, Crash, Goto
  <2>2. StepsLeft \in {ConnectSteps, ConnectSteps - 3}
    BY <2>1 DEF StepsLeft
  <2>3. StepsLeft' = ConnectSteps - 4 \/ StepsLeft' = 0
    BY <1>a, <2>1 DEF StepsLeft
  <2> QED
    BY <2>1, <2>2, <2>3
<1>3. CASE ConnectDropsOld
  BY <1>1, <1>3, <1>a, DisconnectWaits DEF ConnectDropsOld, Goto, StepsLeft
<1>4. CASE Dial
  <2>1. WaitsLeft' = 6
    BY <1>1, <1>4, ConnectEffect DEF Dial, LauncherInv, ObjectInv, WaitsLeft
  <2> QED
    BY <1>4, <1>a, <2>1 DEF Dial, Goto, StepsLeft
<1>5. CASE DialSucceeds
  <2>1. LauncherTypeOK /\ RetryInv
    BY DEF LauncherInv, TypeOK
  <2>2. CASE site = "direct"
    <3>1. pc = "dialled" /\ at = "idle" /\ pc' = "returned"
      BY <1>5, <2>1, <2>2, DialSucceedsEffect
    <3>2. StepsLeft = ConnectSteps - 11 /\ StepsLeft' = 0
      BY <3>1 DEF StepsLeft
    <3> QED
      BY <3>1, <3>2
  <2>3. CASE site = "before"
    <3>1. retries < MaxConnectRetry
      BY <1>5, <2>1, <2>3, DialSucceedsEffect DEF RetryInv
    <3>2. StepsLeft = CallSteps + 12 * (MaxConnectRetry - retries) - 11
      BY <1>5, <2>1, <2>3, DialSucceedsEffect
      DEF StepsLeft, ConnectSteps, AttemptSteps
    <3>3. StepsLeft' = CallSteps
      BY <1>5, <2>1, <2>3, DialSucceedsEffect DEF StepsLeft, CallSteps
    <3> QED
      BY <3>1, <3>2, <3>3
  <2> QED
    BY <1>5, <2>1, <2>2, <2>3, DialSucceedsEffect
<1>6. CASE DialFails
  <2>1. StepsLeft = ConnectSteps - 11 /\ ConnectSteps >= 12 /\ ConnectSteps \in Nat
    BY <1>6 DEF DialFails, StepsLeft
  <2>2. CASE pc' = "returned"
    BY <2>1, <2>2 DEF StepsLeft
  <2>3. CASE pc' = "connect"
    <3>1. site # "direct" /\ site' = site /\ retries' = retries + 1
          /\ retries' < MaxConnectRetry
      BY <1>6, <2>3 DEF DialFails
    <3>2. StepsLeft' = ConnectSteps'
      BY <2>3 DEF StepsLeft
    <3>3. /\ ConnectSteps = CallSteps + 12 * (MaxConnectRetry - retries)
          /\ ConnectSteps' = CallSteps + 12 * (MaxConnectRetry - (retries + 1))
      BY <3>1 DEF ConnectSteps, CallSteps, AttemptSteps
    <3> QED
      BY <2>1, <3>1, <3>2, <3>3
  <2> QED
    BY <1>6, <2>2, <2>3 DEF DialFails
<1>7. CASE LaunchChecksLink
  <2>1. StepsLeft = CallSteps + 12 * MaxConnectRetry + 1
    BY <1>7 DEF LaunchChecksLink, StepsLeft, LaunchSteps, AttemptSteps
  <2>2. CASE connected
    <3>1. StepsLeft' = CallSteps
      BY <1>7, <2>2 DEF LaunchChecksLink, EnsureConnected, StepsLeft, CallSteps
    <3> QED
      BY <2>1, <3>1
  <2>3. CASE ~connected
    <3>1. pc' = "connect" /\ site' = "before" /\ retries' = 0
      BY <1>7, <2>3 DEF LaunchChecksLink, EnsureConnected
    <3>2. StepsLeft' = CallSteps + 12 * (MaxConnectRetry - 0)
      BY <3>1 DEF StepsLeft, ConnectSteps, CallSteps, AttemptSteps
    <3> QED
      BY <2>1, <3>2
  <2> QED
    BY <2>2, <2>3
<1>8. CASE CallAutoDecake
  BY <1>1, <1>8, ServiceWaits DEF CallAutoDecake, Goto, StepsLeft, CallSteps
<1>9. CASE CallBuildUnitExit \/ CallFails
  <2>1. /\ pc \in {"call", "called"} /\ at = "idle" /\ pc' = "returned"
    BY <1>9 DEF CallBuildUnitExit, CallFails, ReturnFrom
  <2>2. StepsLeft \in {CallSteps, CallSteps - 3} /\ StepsLeft' = 0
    BY <2>1 DEF StepsLeft
  <2> QED
    BY <2>2
<1>10. CASE CallSucceeds
  <2>1. pc = "called" /\ pc' = "waitTop" /\ elapsed' = 0
    BY <1>10, CallSucceedsEffect DEF LauncherInv
  <2> QED
    BY <1>10, <2>1 DEF CallSucceeds, StepsLeft, PollSteps, CallSteps
<1>11. CASE WaitPolls
  <2>1. elapsed <= TimeoutSec + 1
    BY <1>11 DEF WaitPolls, LauncherInv, ClockInv
  <2> QED
    BY <1>1, <1>11, <2>1, ServiceWaits DEF WaitPolls, StepsLeft, PollSteps
<1>12. CASE WaitReads
  <2>1. elapsed <= TimeoutSec + 1
    BY <1>12 DEF WaitReads, LauncherInv, ClockInv
  <2>2. StepsLeft = PollSteps(TimeoutSec) - 3
    BY <1>12 DEF WaitReads, StepsLeft, PollSteps
  <2>3. CASE pc' = "returned"
    BY <2>1, <2>2, <2>3 DEF StepsLeft, PollSteps
  <2>4. CASE pc' = "waitTop"
    <3>1. elapsed' \in Nat /\ elapsed' <= TimeoutSec + 1
      BY <2>4, SystemKeepsInv
      DEF SystemStep, LauncherInv, ClockInv, TypeOK, LauncherTypeOK
    <3>2. elapsed <= TimeoutSec
      <4>1. wait'.timeout = wait.timeout
        BY <1>12 DEF WaitReads, IntIteration, LauncherInv, TypeOK, LauncherTypeOK,
                     Waits
      <4> QED
        BY <1>12, <2>4, <4>1 DEF WaitReads, GoesOn, LauncherInv, ClockInv
    <3>3. elapsed' > elapsed
      BY <1>12, <3>2, LaterIsLater DEF WaitReads
    <3>4. StepsLeft' = 4 * (TimeoutSec + 2 - elapsed')
      BY <2>4 DEF StepsLeft, PollSteps
    <3> QED
      BY <2>1, <2>2, <3>1, <3>3, <3>4 DEF PollSteps
  <2> QED
    BY <1>12, <2>3, <2>4 DEF WaitReads
<1>13. CASE KeepAliveReads
  <2>1. elapsed <= SleepSec
    BY <1>13 DEF KeepAliveReads, LauncherInv, ClockInv
  <2> QED
    BY <1>1, <1>13, <2>1, ServiceWaits
    DEF KeepAliveReads, Goto, StepsLeft, PollSteps
<1>14. CASE KeepAliveGoesOn
  <2>1. elapsed <= SleepSec
    BY <1>14 DEF KeepAliveGoesOn, LauncherInv, ClockInv
  <2>2. elapsed' > elapsed /\ elapsed' \in Nat
    BY <1>14, <2>1, LaterIsLater, LaterIsNat
    DEF KeepAliveGoesOn, LauncherInv, TypeOK
  <2>3. StepsLeft = 4 * (SleepSec + 2 - elapsed) - 3
    BY <1>14 DEF KeepAliveGoesOn, StepsLeft, PollSteps
  <2>4. \/ pc' = "sleepTop" /\ elapsed' < SleepSec
        \/ pc' = "returned"
    BY <1>14 DEF KeepAliveGoesOn
  <2>5. \/ elapsed' < SleepSec /\ StepsLeft' = 4 * (SleepSec + 2 - elapsed')
        \/ StepsLeft' = 0
    BY <2>4 DEF StepsLeft, PollSteps
  <2> QED
    BY <2>1, <2>2, <2>3, <2>5
<1>15. CASE StopDisconnects
  BY <1>1, <1>15, DisconnectWaits DEF StopDisconnects, Goto, StepsLeft
<1>16. CASE StopWithoutClient \/ StopDeletes \/ StopTouchesFreed
  <2>1. /\ pc \in {"stop", "stopping"} /\ at = "idle" /\ pc' \in {"exited", "crashed"}
    BY <1>16
    DEF StopWithoutClient, StopDeletes, StopTouchesFreed, Exit, Crash, Goto
  <2>2. StepsLeft \in {3, 1} /\ StepsLeft' = 0
    BY <2>1 DEF StepsLeft
  <2> QED
    BY <2>2
<1>17. CASE KeepAliveTouches
  <2>1. pc = "sleepTop" /\ pc' = "crashed" /\ elapsed <= SleepSec
    BY <1>17 DEF KeepAliveTouches, Crash, Goto, LauncherInv, ClockInv
  <2>2. StepsLeft = 4 * (SleepSec + 2 - elapsed) /\ StepsLeft' = 0
    BY <2>1 DEF StepsLeft, PollSteps
  <2> QED
    BY <2>1, <2>2
<1> QED
  BY <1>2, <1>3, <1>4, <1>5, <1>6, <1>7, <1>8, <1>9, <1>10, <1>11, <1>12, <1>13,
     <1>14, <1>15, <1>16, <1>17
  DEF MethodStep

\* A step of the library lowers the bound by the waits that it uses up.
LEMMA LibraryLowersBound ==
  LauncherInv /\ LibraryMoves => StepsLeft' \in 0..(StepsLeft - 1)
<1> SUFFICES ASSUME LauncherInv, LibraryMoves PROVE StepsLeft' \in 0..(StepsLeft - 1)
  OBVIOUS
<1>1. WaitsLeft' \in 0..(WaitsLeft - 1)
  BY LibraryShortens DEF LibraryMoves
<1>2. WaitsLeft \in Nat
  BY DEF WaitsLeft
<1>3. UNCHANGED <<pc, site, retries, elapsed>>
  BY DEF LibraryMoves, launcherVars
<1>4. pc \in {"dialled", "called", "waitRead", "sleepRead", "delete", "stopping"}
  BY LibraryMovesEffect DEF LauncherInv, CallInv, ConnectPlaces
<1>5. /\ pc = "waitRead" => elapsed <= TimeoutSec + 1
      /\ pc = "sleepRead" => elapsed <= SleepSec
  BY DEF LauncherInv, ClockInv
\* StepsLeft is a number of the launcher's, at least 1, and the waits.
<1>6. \E base \in Nat \ {0} :
        StepsLeft = base + WaitsLeft /\ StepsLeft' = base + WaitsLeft'
  <2>1. CASE pc \in {"dialled", "delete"}
    <3>1. ConnectSteps' = ConnectSteps /\ ConnectSteps \in Nat /\ ConnectSteps >= 12
      BY <1>3, <2>1, StepNumbers DEF ConnectSteps
    <3>2. CASE pc = "dialled"
      <4>1. ConnectSteps - 11 \in Nat \ {0}
        BY <3>1
      <4> QED
        BY <1>3, <3>1, <3>2, <4>1 DEF StepsLeft
    <3>3. CASE pc = "delete"
      <4>1. ConnectSteps - 3 \in Nat \ {0}
        BY <3>1
      <4> QED
        BY <1>3, <3>1, <3>3, <4>1 DEF StepsLeft
    <3> QED
      BY <2>1, <3>2, <3>3
  <2>2. CASE pc = "called"
    <3>1. CallSteps - 3 \in Nat \ {0}
      BY StepNumbers
    <3>2. StepsLeft = CallSteps - 3 + WaitsLeft /\ StepsLeft' = CallSteps - 3 + WaitsLeft'
      BY <1>3, <2>2 DEF StepsLeft, CallSteps
    <3> QED
      BY <3>1, <3>2
  <2>3. CASE pc = "stopping"
    BY <1>3, <2>3 DEF StepsLeft
  <2>4. CASE pc \in {"waitRead", "sleepRead"}
    <3> DEFINE limit == IF pc = "waitRead" THEN TimeoutSec ELSE SleepSec
    <3>1. PollSteps(limit) - 3 \in Nat \ {0}
      BY <1>5, <2>4, StepNumbers DEF PollSteps
    <3>2. /\ StepsLeft = PollSteps(limit) - 3 + WaitsLeft
          /\ StepsLeft' = PollSteps(limit) - 3 + WaitsLeft'
      BY <1>3, <2>4 DEF StepsLeft, PollSteps
    <3> QED
      BY <3>1, <3>2
  <2> QED
    BY <1>4, <2>1, <2>2, <2>3, <2>4
<1>7. ASSUME NEW b \in Nat \ {0}, NEW w \in Nat, NEW x \in 0..(w - 1),
             NEW m, NEW n, m = b + x, n = b + w
      PROVE  m \in 0..(n - 1)
  <2>1. b + x \in 0..(b + w - 1)
    OBVIOUS
  <2> QED
    BY <1>7, <2>1
<1> QED
  BY <1>1, <1>2, <1>6, <1>7, Zenon

----------------------------------------------------------------------------
(* The launcher and the machine implement LaunchContract.                   *)

LEMMA InitPromise == Init => Promise!LaunchInit
  BY DEF Init, Promise!LaunchInit, CallStatus, Armed

\* Steps that neither the caller nor the machine can tell from none.
LEMMA SamePromise ==
  ASSUME UNCHANGED <<callVars, process>>, CallStatus' = CallStatus
  PROVE  UNCHANGED Promise!launchVars
  BY DEF Promise!launchVars, Promise!request

LEMMA PromiseStep ==
  LauncherInv /\ SystemStep => [Promise!LaunchNext]_(Promise!launchVars)
<1> SUFFICES ASSUME LauncherInv, SystemStep
             PROVE  [Promise!LaunchNext]_(Promise!launchVars)
  OBVIOUS
<1> USE DEF AtPoint
<1>1. /\ pc \in {"launch", "call"} => method \in {"decake", "buexit"}
      /\ pc \in {"called", "waitTop", "waitRead"} => method = "decake"
      /\ pc \in {"sleepTop", "sleepRead"} => method = "sleep"
  BY DEF LauncherInv, RetryInv
<1>2. CASE ConnectFirst \/ ConnectDropsOld \/ DeleteOld \/ ConnectTouchesFreed \/ Dial
  <2>1. /\ UNCHANGED <<method, callVars, process>>
        /\ pc \in {"connect", "delete", "dial"}
        /\ pc' \in {"delete", "dial", "dialled", "crashed"}
    BY <1>2
    DEF ConnectFirst, ConnectDropsOld, DeleteOld, ConnectTouchesFreed, Dial,
        MakeClient, Crash, Goto, plcVars
  <2>2. CASE pc' = "crashed"
    <3>1. CallStatus # "sent" /\ CallStatus' = "none"
      BY <2>1, <2>2 DEF CallStatus, Armed
    <3> QED
      BY <2>1, <3>1 DEF Promise!LaunchNext, Promise!Forget, Promise!request
  <2>3. CASE pc' # "crashed"
    <3>1. CallStatus' = CallStatus
      BY <2>1, <2>3 DEF CallStatus, Armed
    <3> QED
      BY <2>1, <3>1, SamePromise
  <2> QED
    BY <2>2, <2>3
<1>3. CASE DialSucceeds
  <2>1. LauncherTypeOK /\ RetryInv
    BY DEF LauncherInv, TypeOK
  <2>2. /\ UNCHANGED <<method, callVars, process>> /\ pc = "dialled"
        /\ pc' = "call" \/ (pc' = "returned" /\ method = "connect")
    BY <1>3, <2>1, DialSucceedsEffect DEF RetryInv, plcVars
  <2>3. CallStatus' = CallStatus
    BY <2>2 DEF CallStatus, Armed
  <2> QED
    BY <2>2, <2>3, SamePromise
<1>4. CASE DialFails
  <2>1. /\ UNCHANGED <<method, callVars, process>> /\ pc = "dialled"
        /\ pc' = "connect" \/ (pc' = "returned" /\ ret' = FALSE)
    BY <1>4 DEF DialFails, plcVars
  <2>2. \/ CallStatus' = CallStatus
        \/ CallStatus = "asked" /\ CallStatus' = "false"
    BY <2>1 DEF CallStatus, Armed
  <2>3. CASE CallStatus = "asked" /\ CallStatus' = "false"
    BY <2>1, <2>3 DEF Promise!LaunchNext, Promise!GiveUp, Promise!request
  <2> QED
    BY <2>1, <2>2, <2>3, SamePromise
<1>5. CASE LaunchChecksLink
  <2>1. /\ UNCHANGED <<method, callVars, process>>
        /\ pc = "launch" /\ pc' \in {"call", "connect"}
    BY <1>5 DEF LaunchChecksLink, EnsureConnected, plcVars
  <2>2. CallStatus' = CallStatus
    BY <2>1 DEF CallStatus, Armed
  <2> QED
    BY <2>1, <2>2, SamePromise
<1>6. CASE CallAutoDecake
  <2>1. CallStatus = "asked" /\ CallStatus' = "sent"
    BY <1>6 DEF CallAutoDecake, Goto, CallStatus, Armed
  <2> QED
    BY <1>6, <2>1 DEF CallAutoDecake, Promise!LaunchNext, Promise!Request
<1>7. CASE CallFails
  <2>1. CallStatus = "sent" /\ CallStatus' = "false"
    BY <1>1, <1>7 DEF CallFails, ReturnFrom, CallStatus, Armed
  <2> QED
    BY <1>7, <2>1
    DEF CallFails, Promise!LaunchNext, Promise!GiveUp, Promise!request, plcVars
<1>8. CASE CallSucceeds \/ WaitPolls
  <2>1. /\ UNCHANGED <<callVars, process>>
        /\ pc \in {"called", "waitTop"} /\ pc' \in {"waitTop", "waitRead"}
    BY <1>8, CallSucceedsEffect DEF WaitPolls, LauncherInv, plcVars
  <2>2. CallStatus' = CallStatus
    BY <2>1 DEF CallStatus, Armed
  <2> QED
    BY <2>1, <2>2, SamePromise
<1>9. CASE WaitReads
  <2>1. /\ UNCHANGED <<method, callVars, process>>
        /\ pc = "waitRead" /\ pc' \in {"waitTop", "returned"}
    BY <1>9 DEF WaitReads, plcVars
  <2>2. CallStatus = "sent"
    BY <2>1 DEF CallStatus, Armed
  <2>3. CASE pc' = "waitTop"
    <3>1. CallStatus' = "sent"
      BY <2>3 DEF CallStatus, Armed
    <3> QED
      BY <2>1, <2>2, <3>1, SamePromise
  <2>4. CASE pc' = "returned" /\ ret'
    <3>1. CallStatus' = "true"
      BY <1>1, <2>1, <2>4 DEF CallStatus, Armed
    <3>2. pending = 0 /\ accepted
      BY <2>1 DEF LauncherInv, LaunchInv
    <3>3. PromptStart => finished /\ (process = "ended" \/ restarted)
      BY <1>1, <2>1, <2>4, FinalKept DEF FinalInv, SuccessMeansEnded
    <3> QED
      BY <2>1, <2>2, <3>1, <3>2, <3>3 DEF Promise!LaunchNext, Promise!Succeed,
                                     Promise!request
  <2>5. CASE pc' = "returned" /\ ~ret'
    <3>1. CallStatus' = "false"
      BY <1>1, <2>1, <2>5 DEF CallStatus, Armed
    <3> QED
      BY <2>1, <2>2, <3>1 DEF Promise!LaunchNext, Promise!GiveUp, Promise!request
  <2> QED
    BY <2>1, <2>3, <2>4, <2>5
<1>10. CASE \/ CallBuildUnitExit
             \/ KeepAliveReads \/ KeepAliveTouches \/ KeepAliveGoesOn
  <2>1. /\ UNCHANGED <<method, callVars, process>>
        /\ method \in {"buexit", "sleep"} /\ pc \in {"call", "sleepTop", "sleepRead"}
        /\ pc' \in {"sleepTop", "sleepRead", "returned", "crashed"}
    BY <1>1, <1>10
    DEF CallBuildUnitExit, KeepAliveReads, KeepAliveTouches, KeepAliveGoesOn,
        ReturnFrom, Crash, Goto, plcVars
  <2>2. CallStatus' = CallStatus
    BY <2>1 DEF CallStatus, Armed
  <2> QED
    BY <2>1, <2>2, SamePromise
<1>11. CASE StopWithoutClient \/ StopDisconnects \/ StopDeletes \/ StopTouchesFreed
  <2>1. /\ UNCHANGED <<callVars, process>>
        /\ pc \in {"stop", "stopping"} /\ pc' \in {"stopping", "exited", "crashed"}
    BY <1>11
    DEF StopWithoutClient, StopDisconnects, StopDeletes, StopTouchesFreed, Exit,
        Crash, Goto, plcVars
  <2>2. CallStatus' = CallStatus
    BY <2>1 DEF CallStatus, Armed
  <2> QED
    BY <2>1, <2>2, SamePromise
<1>12. CASE LibraryMoves \/ ServerReplies \/ LinkDrops
  <2>1. UNCHANGED <<pc, method, ret, callVars, process>>
    BY <1>12 DEF LibraryMoves, ServerReplies, LinkDrops, launcherVars, plcVars
  <2>2. CallStatus' = CallStatus
    BY <2>1 DEF CallStatus, Armed
  <2> QED
    BY <2>1, <2>2, SamePromise
<1>13. CASE PlcStep
  <2>1. UNCHANGED <<pc, method, ret>>
    BY <1>13
    DEF PlcStep, PlcStarts, PlcStartsLate, Execute, PlcRejects, PlcWorks, PlcEnds,
        launcherVars
  <2>2. CallStatus' = CallStatus
    BY <2>1 DEF CallStatus, Armed
  <2>3. CASE PlcStarts
    BY <2>2, <2>3 DEF PlcStarts, Execute, Promise!LaunchNext, Promise!Execute
  <2>7. CASE PlcStartsLate
    BY <2>2, <2>7
    DEF PlcStartsLate, Execute, Promise!LaunchNext, Promise!ExecuteOlder
  <2>4. CASE PlcRejects
    BY <2>2, <2>4 DEF PlcRejects, Promise!LaunchNext, Promise!Refuse
  <2>5. CASE PlcWorks
    BY <2>2, <2>5, SamePromise DEF PlcWorks
  <2>6. CASE PlcEnds
    BY <2>2, <2>6 DEF PlcEnds, Promise!LaunchNext, Promise!End
  <2> QED
    BY <1>13, <2>3, <2>4, <2>5, <2>6, <2>7 DEF PlcStep
<1> QED
  BY <1>2, <1>3, <1>4, <1>5, <1>6, <1>7, <1>8, <1>9, <1>10, <1>11, <1>12, <1>13
  DEF SystemStep, MethodStep, Environment

\* What a caller may do between two calls, for the contract.
LEMMA AskPromise ==
  ASSUME LauncherInv, pc \in {"main", "returned"},
         UNCHANGED <<callVars, process>>,
         \/ pc' = "launch" /\ method' = "decake"
         \/ pc' \in {"stop", "sleepTop"}
         \/ pc' = "launch" /\ method' = "buexit"
         \/ pc' = "connect" /\ method' = "connect"
  PROVE  [Promise!LaunchNext]_(Promise!launchVars)
<1>1. CallStatus \in {"none", "true", "false"}
  BY DEF CallStatus, Armed
<1>2. CallStatus' \in {"asked", "none"}
  BY DEF CallStatus, Armed
<1> QED
  BY <1>1, <1>2 DEF Promise!LaunchNext, Promise!Ask, Promise!Forget, Promise!request
=============================================================================
