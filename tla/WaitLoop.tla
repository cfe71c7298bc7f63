------------------------------ MODULE WaitLoop ------------------------------
(***************************************************************************)
(* The bookkeeping of the launcher's polling loops                         *)
(* (DecakeLauncherHelpers.cpp): what one iteration does to the locals of   *)
(* waitIntCondition, waitBooleanCondition and waitIntConditionDescription, *)
(* when the loop goes on and what it returns.  The modules that run the    *)
(* loops supply the clock and the outcome of the reads.                    *)
(***************************************************************************)
EXTENDS Naturals

CONSTANTS
  Values,       \* the numbers a condition node can hold
  FinalValues,  \* those that end the wait (Isa88ProcessFinalValues)
  NoValue,      \* the -1 that readValue starts from
  Failed        \* the outcome of a read that returned false

ASSUME ValuesAssumption ==
  /\ FinalValues \subseteq Values
  /\ NoValue \notin FinalValues
  /\ Failed \notin Values \cup {NoValue}

\* The locals of a loop; only the description form uses retry2.
Waits == [timeout : BOOLEAN, met : BOOLEAN, value : Values \cup {NoValue},
          retry : Nat, retry2 : Nat]

NewWait ==
  [timeout |-> FALSE, met |-> FALSE, value |-> NoValue, retry |-> 0, retry2 |-> 0]

\* Slip: the deadline is a second early.
CheckDeadlineEarly(w, elapsed, timeoutSec) ==
  [w EXCEPT !.timeout = elapsed + 1 >= timeoutSec]

\* The deadline is looked at before the read, and with a strict comparison.
CheckDeadline(w, elapsed, timeoutSec) ==
  [w EXCEPT !.timeout = elapsed > timeoutSec]

\* Slip: a failed read overwrites the value all the same.
IntIterationOverwrites(w, read) ==
  [w EXCEPT !.value = read,
            !.retry = IF read = Failed THEN @ + 1 ELSE @,
            !.met = @ \/ read \in FinalValues]

\* waitIntCondition: a failed read counts and leaves the last value in place.
IntIteration(w, read) ==
  LET value == IF read = Failed THEN w.value ELSE read
  IN  [w EXCEPT !.value = value,
                !.retry = IF read = Failed THEN @ + 1 ELSE @,
                !.met = @ \/ value \in FinalValues]

\* waitIntConditionDescription: a failed read of the number sets it back to
\* -1; a failed read of the text has a count of its own.
DescriptionIteration(w, read, text) ==
  LET value == IF read = Failed THEN NoValue ELSE read
  IN  [w EXCEPT !.value = value,
                !.retry = IF read = Failed THEN @ + 1 ELSE @,
                !.retry2 = IF text = Failed THEN @ + 1 ELSE @,
                !.met = @ \/ value \in FinalValues]

\* waitBooleanCondition starts from FALSE, which may be what it waits for, and
\* keeps no flag: it compares the last value it has.
BooleanWaits == [timeout : BOOLEAN, met : BOOLEAN, value : BOOLEAN,
                 retry : Nat, retry2 : Nat]

NewBooleanWait == [NewWait EXCEPT !.value = FALSE]

BooleanIteration(w, read, expected) ==
  LET value == IF read = Failed THEN w.value ELSE read
  IN  [w EXCEPT !.value = value,
                !.retry = IF read = Failed THEN @ + 1 ELSE @,
                !.met = value = expected]

\* Slip: the loop does not look at its deadline.
GoesOnForever(w, maxRetry) ==
  ~w.met /\ w.retry < maxRetry /\ w.retry2 < maxRetry

\* The while condition; retry2 stays 0 in the forms that do not use it.
GoesOn(w, maxRetry) ==
  ~w.timeout /\ ~w.met /\ w.retry < maxRetry /\ w.retry2 < maxRetry

\* Slip: the return forgets the retries, as waitBooleanCondition does.
IntReturnsTimely(w, maxRetry) == ~w.timeout

\* waitIntCondition and waitIntConditionDescription.
IntReturns(w, maxRetry) ==
  ~w.timeout /\ w.retry < maxRetry /\ w.retry2 < maxRetry

\* waitBooleanCondition does not look at its retries.
BooleanReturns(w) == ~w.timeout
=============================================================================
