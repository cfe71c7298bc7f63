---------------------------- MODULE LauncherAPI -----------------------------
(***************************************************************************)
(* The public methods of class DecakeLauncher under any caller: in any     *)
(* order, and again after a failure.  RunIteration alone never reaches the *)
(* reconnect logic or SleepWithKeepAlive; these runs do.                   *)
(***************************************************************************)
EXTENDS DecakeLauncher

CONSTANT MaxAsked  \* bound: LaunchAutoDecake calls in a behaviour

\* No method is in progress.
Ready == pc \in {"main", "returned"}

LaunchAutoDecake == Ready /\ asked < MaxAsked /\ AskLaunch
LaunchBuildUnitExit == Ready /\ AskExit

\* SleepWithKeepAlive does not look at client_, which may point to none.
SleepWithKeepAlive ==
  /\ Ready
  /\ pc' = "sleepTop"
  /\ method' = "sleep"
  /\ elapsed' = 0
  /\ UNCHANGED <<site, retries, ret, object, wait, exitCode, clientVars, plcVars>>

Stop == Ready /\ \E success \in BOOLEAN : AskStop(success)

User == LaunchAutoDecake \/ LaunchBuildUnitExit \/ SleepWithKeepAlive \/ Stop

\* Methods in progress go on; the user need not call another.
Process == MethodStep \/ LibraryMoves

APINext == Process \/ User \/ Environment \/ Over
APISpec == Init /\ [][APINext]_vars
FairAPISpec == APISpec /\ WF_vars(Process)

----------------------------------------------------------------------------

\* Nothing that the launcher or the library does, whatever they are answered,
\* takes a method further from its end, so that its steps are bounded.
MethodsShorten == [][Process => StepsLeft' \in 0..(StepsLeft - 1)]_vars

\* Every method returns, exits or dies: the retries, the polling and the
\* keep-alive loop all end, whatever the server does.
MethodsReturn == ~Ready ~> (Ready \/ pc \in {"exited", "crashed"})

\* A loss that the keep-alive reads met is repaired or reported: the next
\* method call is sent over a session, never over a link known to be down.
CallsOnlyWhenConnected == pc = "call" => connected /\ object = "live"
=============================================================================
