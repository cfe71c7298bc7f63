--------------------------- MODULE WaitCondition ----------------------------
(***************************************************************************)
(* One wait of the launcher for a node of the server, in each of its three *)
(* forms (DecakeLauncherHelpers.cpp), with the clock, the typed reads and  *)
(* a node that changes at any time.  How the connection fails is in        *)
(* UAClient; here any read may fail.                                       *)
(***************************************************************************)
EXTENDS WaitLoop, TypedReads

CONSTANTS
  Types,        \* the types that the node may have
  Samples,      \* the numbers that it may hold
  MaxRetry,     \* the maxRetry argument
  TimeoutSec,   \* the timeoutSec argument
  MaxReadTime,  \* the longest read: client->config.timeout, in seconds
  Never         \* no second

ASSUME WaitAssumption ==
  /\ Types \subseteq NumberTypes \cup OtherTypes
  /\ Samples \subseteq Int
  /\ Values = AnInt /\ FinalValues \subseteq Nat
  /\ MaxRetry \in Nat \ {0}
  /\ TimeoutSec \in Nat
  /\ MaxReadTime \in Nat
  /\ Never \notin Nat

VARIABLES
  form,      \* which of the functions runs: "int", "description", "boolean"
  expected,  \* the argument of waitBooleanCondition
  type,      \* the type of the variant that the node holds
  textType,  \* the type of the description node
  node,      \* the node's value
  since,     \* the second since which it is what is waited for, or Never
  at,        \* the point of the iteration
  wait,      \* the locals of the loop
  got,       \* what the last read of the node returned
  taken,     \* the value of which the server made that answer
  text,      \* what the last read of the description returned
  faulted,   \* some read failed in the connection or the server
  elapsed,   \* time(NULL) - before
  spent,     \* seconds of it in the read in progress
  result     \* the return value

inputs == <<form, expected, type, textType>>
waitVars == <<inputs, node, since, at, wait, got, taken, text, faulted, elapsed, spent,
              result>>

Forms == {"int", "description", "boolean"}

\* The values the node can hold, what can be read of them, and those that are to
\* end a wait for a number.
Domain == Samples \cap Holds(type)
Read == IF form = "boolean" THEN BOOLEAN ELSE Values
Target == IF form = "boolean" THEN {} ELSE FinalValues

WaitTypeOK ==
  /\ form \in Forms
  /\ expected \in BOOLEAN
  /\ type \in Types /\ textType \in {"INT32", "STRING"}
  /\ node \in Domain /\ taken \in Domain
  /\ since \in Nat \cup {Never}
  /\ at \in {"top", "asked", "answered", "text", "sleep", "done"}
  /\ wait \in IF form = "boolean" THEN BooleanWaits ELSE Waits
  /\ got \in Read \cup {Failed} /\ text \in {"read", Failed}
  /\ faulted \in BOOLEAN /\ result \in BOOLEAN
  /\ elapsed \in Nat /\ spent \in 0..MaxReadTime

\* A state of the sequencer is a number, a flag may be kept in a Boolean.
WaitInit ==
  /\ form \in Forms
  /\ expected \in BOOLEAN /\ (form # "boolean" => expected)
  /\ type \in IF form = "boolean" THEN Types ELSE Types \ OtherTypes
  /\ textType \in IF form = "description" THEN {"INT32", "STRING"} ELSE {"STRING"}
  /\ node \in Domain
  /\ since = IF node \in Target THEN 0 ELSE Never
  /\ at = "top"
  /\ wait = IF form = "boolean" THEN NewBooleanWait ELSE NewWait
  /\ got = Failed /\ taken = node
  /\ text = Failed
  /\ faulted = FALSE
  /\ elapsed = 0
  /\ spent = 0
  /\ result = FALSE

----------------------------------------------------------------------------

\* OPCUAReadNumber, OPCUAReadBoolean and OPCUAReadString all accept a good
\* response by OPCUAIsNumber, whatever type they are to read.
Answers ==
  IF ~OPCUAIsNumber(type) THEN {Failed}
  ELSE IF form = "boolean" THEN OPCUAGetBooleanValue(node)
  ELSE {OPCUAGetNumberValue(node)}

\* The top of the iteration, up to the request.
BeginIteration ==
  /\ at = "top"
  /\ wait' = CheckDeadline(wait, elapsed, TimeoutSec)
  /\ at' = "asked"
  /\ spent' = 0
  /\ UNCHANGED <<inputs, node, since, got, taken, text, faulted, elapsed, result>>

\* The server takes the value; the read succeeds or it does not.
Answer ==
  /\ at = "asked"
  /\ \/ got' \in Answers /\ UNCHANGED faulted
     \/ got' = Failed /\ faulted' = TRUE
  /\ taken' = node
  /\ at' = "answered"
  /\ UNCHANGED <<inputs, node, since, wait, text, elapsed, spent, result>>

\* Slip: a read without a timeout waits for its answer.
ReadEndsAnswered ==
  /\ at = "answered" /\ got # Failed
  /\ at' = IF form = "description" THEN "text" ELSE "sleep"
  /\ spent' = 0
  /\ UNCHANGED <<inputs, node, since, wait, got, taken, text, faulted, elapsed, result>>

\* The read returns; the description form reads the text next.
ReadEnds ==
  /\ at = "answered"
  /\ at' = IF form = "description" THEN "text" ELSE "sleep"
  /\ spent' = 0
  /\ UNCHANGED <<inputs, node, since, wait, got, taken, text, faulted, elapsed, result>>

TextRead ==
  /\ at = "text"
  /\ \/ text' = (IF OPCUAIsNumber(textType) THEN "read" ELSE Failed) /\ UNCHANGED faulted
     \/ text' = Failed /\ faulted' = TRUE
  /\ at' = "sleep"
  /\ UNCHANGED <<inputs, node, since, wait, got, taken, elapsed, spent, result>>

\* The rest of the iteration, Sleep(1000) and the while condition.
EndIteration ==
  /\ at = "sleep"
  /\ elapsed' = elapsed + 1
  /\ wait' = CASE form = "int" -> IntIteration(wait, got)
               [] form = "description" -> DescriptionIteration(wait, got, text)
               [] form = "boolean" -> BooleanIteration(wait, got, expected)
  /\ IF GoesOn(wait', MaxRetry)
       THEN at' = "top" /\ UNCHANGED result
       ELSE /\ at' = "done"
            /\ result' = IF form = "boolean" THEN BooleanReturns(wait')
                                             ELSE IntReturns(wait', MaxRetry)
  /\ UNCHANGED <<inputs, node, since, got, taken, text, faulted, spent>>

\* A second passes in a read.
Tick ==
  /\ at \in {"asked", "answered", "text"} /\ spent < MaxReadTime
  /\ elapsed' = elapsed + 1
  /\ spent' = spent + 1
  /\ UNCHANGED <<inputs, node, since, at, wait, got, taken, text, faulted, result>>

\* The machine changes the node.
NodeChanges ==
  /\ at # "done"
  /\ node' \in Domain \ {node}
  /\ since' = IF node' \notin Target THEN Never
              ELSE IF since = Never THEN elapsed ELSE since
  /\ UNCHANGED <<inputs, at, wait, got, taken, text, faulted, elapsed, spent, result>>

Returned == at = "done" /\ UNCHANGED waitVars

Loop == BeginIteration \/ Answer \/ ReadEnds \/ TextRead \/ EndIteration
WaitNext == Loop \/ Tick \/ NodeChanges \/ Returned
WaitSpec == WaitInit /\ [][WaitNext]_waitVars

\* Every read ends by the client's timeout, and every Sleep does.
FairWaitSpec == WaitSpec /\ WF_waitVars(Loop)

----------------------------------------------------------------------------

\* TRUE from the integer forms rests on a read of this very iteration that
\* found the node at a final value: no value of before a failed read, no exhausted
\* retry and no cast stands in for it, but for the casts of 64 bits to 32.
TrueMeansFinalRead ==
  at = "done" /\ result /\ form # "boolean" =>
    /\ got \in FinalValues
    /\ taken \in FinalValues \/ (type \in LongTypes /\ taken \notin AnInt)

\* The longest iteration: its reads and the sleep.
LongestIteration == (IF form = "description" THEN 2 ELSE 1) * MaxReadTime + 1

\* The wait outlasts its limit by two iterations at most: the one that began
\* in time, and the one that then finds the limit passed.
EndsInTime == elapsed <= TimeoutSec + 2 * LongestIteration

\* The wait failed, no read did, and yet the node held its final value for the
\* length of an iteration before the limit.
Missed ==
  /\ at = "done" /\ ~result /\ ~faulted
  /\ since # Never
  /\ since + LongestIteration <= TimeoutSec

\* waitIntCondition never misses a process that ends, and stays ended, in time.
NotMissed == form = "int" => ~Missed

\* The inductive invariant, beside the types and what TRUE means in four parts;
\* Missed needs the last, which follows what a read of the node says of `since`
\* through the rest of the iteration.

\* Between two iterations nothing has ended the wait yet.
Undecided ==
  /\ form # "boolean" => type \in NumberTypes
  /\ at # "done" /\ form # "boolean" => ~wait.met /\ wait.value \notin FinalValues
  /\ at = "top" => ~wait.timeout /\ wait.retry < MaxRetry /\ wait.retry2 < MaxRetry

\* The second by which an iteration began, once it has looked at the clock.
LatestStart == IF wait.timeout THEN TimeoutSec + LongestIteration ELSE TimeoutSec

Clocked ==
  /\ at = "top" => elapsed <= TimeoutSec + LongestIteration
  /\ at \in {"asked", "answered"} => elapsed <= LatestStart + spent
  /\ at = "text" => form = "description" /\ elapsed <= LatestStart + MaxReadTime + spent
  /\ at = "sleep" => elapsed + 1 <= LatestStart + LongestIteration
  /\ at = "done" => EndsInTime

Followed ==
  /\ since # Never => node \in Target /\ since <= elapsed
  /\ node \in Target => since # Never
  /\ form = "int" /\ ~faulted =>
       /\ wait.retry = 0 /\ wait.retry2 = 0
       /\ at \in {"answered", "sleep"} => got # Failed
       /\ wait.timeout =>
            elapsed > TimeoutSec /\ (since # Never => since + LongestIteration > TimeoutSec)
       /\ since # Never =>
            /\ at = "top" => elapsed <= since + LongestIteration
            /\ at = "answered" => got \in FinalValues \/ elapsed <= since + spent
            /\ at = "sleep" => got \in FinalValues \/ elapsed <= since + MaxReadTime
       /\ at = "done" => result \/ wait.timeout

\* What was read is the cast of what the node held.
Converted ==
  form # "boolean" /\ got # Failed => got = OPCUAGetNumberValue(taken)

WaitInv ==
  WaitTypeOK /\ Undecided /\ Converted /\ TrueMeansFinalRead /\ Clocked /\ Followed

\* Every wait returns.
WaitEnds == <>(at = "done")
=============================================================================
