------------------------ MODULE WaitCondition_proofs ------------------------
(***************************************************************************)
(* One wait, for every limit, retry count and read time: WaitInv is        *)
(* inductive, and what the wait promises follows from it.                  *)
(***************************************************************************)
EXTENDS WaitCondition, TLAPS

\* The cast keeps what fits, and what it makes a natural number of either fits or
\* has 64 bits.
LEMMA CastProperties ==
  ASSUME NEW t \in NumberTypes, NEW n \in Holds(t)
  PROVE  /\ OPCUAGetNumberValue(n) \in AnInt
         /\ n \in AnInt => OPCUAGetNumberValue(n) = n
         /\ OPCUAGetNumberValue(n) \in Nat => n \in AnInt \/ t \in LongTypes
<1> DEFINE h == HalfInt
           low == n % (2 * h)
<1>1. h \in Nat /\ h > 0 /\ AnInt = -h..(h - 1)
  BY WidthAssumption DEF AnInt, Holds, NumberTypes
<1>2. n \in Int
  BY WidthAssumption DEF Holds, NumberTypes, LongTypes
<1>3. OPCUAGetNumberValue(n) = IF low < h THEN low ELSE low - 2 * h
  BY DEF OPCUAGetNumberValue
<1>4. t \notin LongTypes => n \in -h..(2 * h - 1)
  BY WidthAssumption DEF Holds, NumberTypes, LongTypes
<1> HIDE DEF h
<1>5. low \in 0..(2 * h - 1)
  BY <1>1, <1>2
<1>6. n \in 0..(2 * h - 1) => low = n
  BY <1>1
<1>7. n \in -h..-1 => low = n + 2 * h
  BY <1>1
<1> HIDE DEF low
<1> QED
  BY <1>1, <1>2, <1>3, <1>4, <1>5, <1>6, <1>7

\* What an answered read of a number returns.
LEMMA AnswersProperties ==
  ASSUME WaitTypeOK, NEW a \in Answers
  PROVE  /\ a \in Read \cup {Failed}
         /\ form # "boolean" /\ type \in NumberTypes =>
              a = OPCUAGetNumberValue(node) /\ a \in Values
         /\ form # "boolean" /\ type \in NumberTypes /\ node \in FinalValues => a = node
<1>1. type \in NumberTypes => node \in Holds(type)
  BY DEF WaitTypeOK, Domain
<1>2. form = "boolean" => a \in BOOLEAN \cup {Failed}
  BY DEF Answers, OPCUAGetBooleanValue
<1>3. CASE type \in NumberTypes
  <2>1. /\ OPCUAGetNumberValue(node) \in AnInt
        /\ node \in AnInt => OPCUAGetNumberValue(node) = node
    BY <1>1, <1>3, CastProperties
  <2>2. form # "boolean" => a = OPCUAGetNumberValue(node)
    BY <1>3 DEF Answers, OPCUAIsNumber
  <2>3. node \in FinalValues => node \in AnInt
    BY ValuesAssumption, WaitAssumption
  <2> QED
    BY <1>2, <2>1, <2>2, <2>3, WaitAssumption DEF Read
<1>4. CASE type \notin NumberTypes
  BY <1>4 DEF Answers, OPCUAIsNumber
<1> QED
  BY <1>3, <1>4

\* A number that was read as final was final, or it had 64 bits.
LEMMA FinalIsRead ==
  ASSUME WaitTypeOK, Undecided, Converted, form # "boolean", got \in FinalValues
  PROVE  taken \in FinalValues \/ (type \in LongTypes /\ taken \notin AnInt)
<1>1. type \in NumberTypes /\ taken \in Holds(type) /\ got = OPCUAGetNumberValue(taken)
  BY ValuesAssumption DEF WaitTypeOK, Undecided, Converted, Domain
<1>2. OPCUAGetNumberValue(taken) \in Nat
  BY <1>1, WaitAssumption
<1> QED
  BY <1>1, <1>2, CastProperties

LEMMA Lengths ==
  /\ MaxRetry \in Nat /\ MaxRetry > 0 /\ TimeoutSec \in Nat /\ MaxReadTime \in Nat
  /\ LongestIteration \in Nat /\ LongestIteration >= MaxReadTime + 1
  /\ form = "description" => LongestIteration = 2 * MaxReadTime + 1
  /\ TimeoutSec + LongestIteration \in Nat
BY WaitAssumption DEF LongestIteration

\* What one iteration of waitIntCondition does to the locals, ...
LEMMA IntIterationType ==
  ASSUME WaitTypeOK, form # "boolean"
  PROVE  /\ IntIteration(wait, got) \in Waits
         /\ IntIteration(wait, got).timeout = wait.timeout
         /\ IntIteration(wait, got).met <=>
              wait.met \/ IntIteration(wait, got).value \in FinalValues
         /\ IntIteration(wait, got).value = IF got = Failed THEN wait.value ELSE got
<1> DEFINE value == IF got = Failed THEN wait.value ELSE got
           retry == IF got = Failed THEN wait.retry + 1 ELSE wait.retry
           met == wait.met \/ value \in FinalValues
<1>1. /\ wait \in Waits /\ value \in Values \cup {NoValue} /\ retry \in Nat
  BY DEF WaitTypeOK, Waits, Read
<1>2. met \in BOOLEAN
  BY <1>1 DEF Waits
<1>3. IntIteration(wait, got) =
        [wait EXCEPT !.value = value, !.retry = retry, !.met = met]
  BY DEF IntIteration
<1> HIDE DEF value, retry, met
<1>4. /\ IntIteration(wait, got) \in Waits
      /\ IntIteration(wait, got).timeout = wait.timeout
      /\ IntIteration(wait, got).met = met
      /\ IntIteration(wait, got).value = value
  BY <1>1, <1>2, <1>3 DEF Waits
<1> QED
  BY <1>4 DEF met, value

\* ... of waitIntConditionDescription ...
LEMMA DescriptionIterationType ==
  ASSUME WaitTypeOK, form # "boolean"
  PROVE  LET w == DescriptionIteration(wait, got, text)
         IN  /\ w \in Waits
             /\ w.timeout = wait.timeout
             /\ w.met <=> wait.met \/ w.value \in FinalValues
             /\ w.value = IF got = Failed THEN NoValue ELSE got
<1> DEFINE value == IF got = Failed THEN NoValue ELSE got
           retry == IF got = Failed THEN wait.retry + 1 ELSE wait.retry
           retry2 == IF text = Failed THEN wait.retry2 + 1 ELSE wait.retry2
           met == wait.met \/ value \in FinalValues
           w == DescriptionIteration(wait, got, text)
<1>1. /\ wait \in Waits /\ value \in Values \cup {NoValue} /\ retry \in Nat
      /\ retry2 \in Nat
  BY DEF WaitTypeOK, Waits, Read
<1>2. met \in BOOLEAN
  BY <1>1 DEF Waits
<1>3. w = [wait EXCEPT !.value = value, !.retry = retry, !.retry2 = retry2, !.met = met]
  BY DEF DescriptionIteration
<1> HIDE DEF value, retry, retry2, met, w
<1>4. w \in Waits /\ w.timeout = wait.timeout /\ w.met = met /\ w.value = value
  BY <1>1, <1>2, <1>3 DEF Waits
<1> QED
  BY <1>4 DEF met, value, w

\* ... and of waitBooleanCondition.
LEMMA BooleanIterationType ==
  ASSUME WaitTypeOK, form = "boolean"
  PROVE  /\ BooleanIteration(wait, got, expected) \in BooleanWaits
         /\ BooleanIteration(wait, got, expected).timeout = wait.timeout
<1> DEFINE value == IF got = Failed THEN wait.value ELSE got
           retry == IF got = Failed THEN wait.retry + 1 ELSE wait.retry
           met == value = expected
<1>1. wait \in BooleanWaits /\ value \in BOOLEAN /\ retry \in Nat /\ met \in BOOLEAN
  BY DEF WaitTypeOK, BooleanWaits, Read
<1>2. BooleanIteration(wait, got, expected) =
        [wait EXCEPT !.value = value, !.retry = retry, !.met = met]
  BY DEF BooleanIteration
<1> HIDE DEF value, retry, met
<1> QED
  BY <1>1, <1>2 DEF BooleanWaits

LEMMA InitKeepsWaitInv == WaitInit => WaitInv
<1> SUFFICES ASSUME WaitInit PROVE WaitInv
  OBVIOUS
<1> USE WaitAssumption, ValuesAssumption DEF WaitInit
<1> DEFINE w == [timeout |-> FALSE, met |-> FALSE, value |-> NoValue,
                 retry |-> 0, retry2 |-> 0]
<1>1. WaitTypeOK
  <2>1. w \in Waits
    BY DEF Waits
  <2>2. ASSUME NEW f \in BOOLEAN PROVE [w EXCEPT !.value = f] \in BooleanWaits
    BY <2>1 DEF Waits, BooleanWaits
  <2>3. [w EXCEPT !.value = FALSE] \in BooleanWaits
    BY <2>2
  <2>4. wait \in IF form = "boolean" THEN BooleanWaits ELSE Waits
    BY <2>1, <2>3 DEF NewWait, NewBooleanWait
  <2>5. since \in Nat \cup {Never} /\ spent \in 0..MaxReadTime
    OBVIOUS
  <2> QED
    BY <2>4, <2>5 DEF WaitTypeOK, Forms, Domain, Read
<1>2. Undecided /\ Converted /\ TrueMeansFinalRead
  <2>1. form # "boolean" => wait = w
    BY DEF NewWait, Forms
  <2>2. ~wait.timeout /\ ~wait.met /\ wait.retry = 0 /\ wait.retry2 = 0
    BY DEF NewWait, NewBooleanWait
  <2> QED
    BY <2>1, <2>2 DEF Undecided, Converted, TrueMeansFinalRead
<1>3. Clocked
  BY Lengths DEF Clocked
<1>4. Followed
  BY Lengths DEF Followed, NewWait, NewBooleanWait
<1> QED
  BY <1>1, <1>2, <1>3, <1>4 DEF WaitInv

LEMMA LoopKeepsWaitInv ==
  ASSUME WaitInv, Loop
  PROVE  WaitInv'
<1> USE Lengths DEF WaitInv
<1>1. CASE BeginIteration
  <2> USE <1>1 DEF BeginIteration, inputs
  <2>1. /\ wait' = [wait EXCEPT !.timeout = elapsed > TimeoutSec]
        /\ wait'.timeout <=> elapsed > TimeoutSec
        /\ wait'.met = wait.met /\ wait'.value = wait.value
        /\ wait'.retry = wait.retry /\ wait'.retry2 = wait.retry2
    BY DEF CheckDeadline, WaitTypeOK, Waits, BooleanWaits
  <2>2. WaitTypeOK'
    <3> DEFINE late == elapsed > TimeoutSec
    <3>1. late \in BOOLEAN /\ wait' = [wait EXCEPT !.timeout = late]
      BY <2>1
    <3> HIDE DEF late
    <3>2. wait' \in IF form = "boolean" THEN BooleanWaits ELSE Waits
      BY <3>1 DEF WaitTypeOK, Waits, BooleanWaits
    <3> QED
      BY <3>2 DEF WaitTypeOK, Domain, Read
  <2>3. Undecided' /\ Converted' /\ TrueMeansFinalRead'
    BY <2>1 DEF Undecided, Converted, TrueMeansFinalRead
  <2>4. Clocked'
    <3>1. elapsed \in Nat /\ elapsed <= TimeoutSec + LongestIteration
      BY DEF Clocked, WaitTypeOK
    <3>2. LongestIteration' = LongestIteration /\ LatestStart \in Nat
      BY DEF LongestIteration, LatestStart
    <3>3. elapsed <= TimeoutSec \/ wait'.timeout
      BY <2>1, <3>1
    <3>4. elapsed <= IF wait'.timeout THEN TimeoutSec + LongestIteration ELSE TimeoutSec
      BY <3>1, <3>3
    <3>5. elapsed' <= LatestStart'
      BY <3>2, <3>4 DEF LatestStart
    <3>6. LatestStart' + 0 = LatestStart'
      BY <3>2 DEF LatestStart
    <3> QED
      BY <3>5, <3>6 DEF Clocked
  <2>5. Followed'
    BY <2>1 DEF Followed, LongestIteration, WaitTypeOK, Target
  <2> QED
    BY <2>2, <2>3, <2>4, <2>5
<1>2. CASE Answer
  <2> USE <1>2 DEF Answer, inputs
  <2>6. /\ got' \in Read \cup {Failed}
        /\ form # "boolean" /\ got' # Failed => got' = OPCUAGetNumberValue(node)
    BY AnswersProperties DEF Undecided
  <2>1. WaitTypeOK'
    BY <2>6 DEF WaitTypeOK, Domain, Read
  <2>2. Undecided' /\ Converted' /\ TrueMeansFinalRead'
    BY <2>6 DEF Undecided, Converted, TrueMeansFinalRead
  <2>3. Clocked'
    BY DEF Clocked, LatestStart, LongestIteration, WaitTypeOK
  <2>4. form = "int" /\ ~faulted' =>
          ~faulted /\ got' # Failed /\ (node \in FinalValues => got' \in FinalValues)
    BY AnswersProperties, ValuesAssumption DEF Undecided, WaitTypeOK
  <2>5. Followed'
    BY <2>4 DEF Followed, LongestIteration, WaitTypeOK, Target
  <2> QED
    BY <2>1, <2>2, <2>3, <2>5
<1>3. CASE ReadEnds
  <2> USE <1>3 DEF ReadEnds, inputs
  <2>1. WaitTypeOK'
    BY DEF WaitTypeOK, Domain, Read
  <2>2. Undecided' /\ Converted' /\ TrueMeansFinalRead'
    BY DEF Undecided, Converted, TrueMeansFinalRead
  <2>3. Clocked'
    BY DEF Clocked, LatestStart, LongestIteration, WaitTypeOK
  <2>4. Followed'
    BY DEF Followed, LongestIteration, WaitTypeOK, Target
  <2> QED
    BY <2>1, <2>2, <2>3, <2>4
<1>4. CASE TextRead
  <2> USE <1>4 DEF TextRead, inputs
  <2>1. WaitTypeOK'
    BY DEF WaitTypeOK, Domain, Read
  <2>2. Undecided' /\ Converted' /\ TrueMeansFinalRead'
    BY DEF Undecided, Converted, TrueMeansFinalRead
  <2>3. Clocked'
    BY DEF Clocked, LatestStart, LongestIteration, WaitTypeOK
  <2>4. form = "description"
    BY DEF Clocked
  <2>5. Followed'
    BY <2>4 DEF Followed, LongestIteration, WaitTypeOK, Target
  <2> QED
    BY <2>1, <2>2, <2>3, <2>5
<1>5. CASE EndIteration
  <2> USE <1>5 DEF EndIteration, inputs
  <2>1. form # "boolean" =>
          /\ wait' \in Waits /\ wait'.timeout = wait.timeout
          /\ wait'.met <=> wait'.value \in FinalValues
          /\ wait'.met => got \in FinalValues
    <3>1. form # "boolean" => ~wait.met /\ wait.value \notin FinalValues
      BY DEF Undecided
    <3> QED
      BY <3>1, IntIterationType, DescriptionIterationType, ValuesAssumption
      DEF WaitTypeOK, Forms
  <2>2. form = "boolean" => wait' \in BooleanWaits /\ wait'.timeout = wait.timeout
    BY BooleanIterationType
  <2>3. wait'.timeout = wait.timeout /\ wait.timeout \in BOOLEAN
    BY <2>1, <2>2 DEF WaitTypeOK, Waits, BooleanWaits
  <2>4. at' \in {"top", "done"} /\ (at' = "top" <=> GoesOn(wait', MaxRetry))
    OBVIOUS
  <2>5. WaitTypeOK'
    <3>1. result' \in BOOLEAN
      BY DEF WaitTypeOK, BooleanReturns, IntReturns
    <3>2. wait' \in IF form = "boolean" THEN BooleanWaits ELSE Waits
      BY <2>1, <2>2
    <3>3. elapsed' \in Nat /\ at' \in {"top", "done"}
      BY <2>4 DEF WaitTypeOK
    <3> QED
      BY <3>1, <3>2, <3>3 DEF WaitTypeOK, Domain, Read
  <2>6. Undecided' /\ Converted' /\ TrueMeansFinalRead'
    <3>1. Undecided' /\ Converted'
      BY <2>1, <2>4 DEF Undecided, Converted, GoesOn
    <3>2. at' = "done" /\ result' /\ form # "boolean" => got \in FinalValues
      BY <2>1, <2>4 DEF GoesOn, IntReturns
    <3>3. TrueMeansFinalRead'
      BY <3>2, FinalIsRead DEF TrueMeansFinalRead
    <3> QED
      BY <3>1, <3>3
  <2>7. Clocked'
    <3>1. elapsed \in Nat /\ elapsed + 1 <= LatestStart + LongestIteration
      BY DEF Clocked, WaitTypeOK
    <3>2. elapsed' <= LatestStart + LongestIteration
      BY <3>1
    <3>3. LatestStart <= TimeoutSec + LongestIteration
          /\ (~wait.timeout => LatestStart = TimeoutSec) /\ LatestStart \in Nat
      BY DEF LatestStart
    <3>4. at' = "top" => ~wait.timeout
      BY <2>3, <2>4 DEF GoesOn
    <3>5. elapsed' <= TimeoutSec + 2 * LongestIteration
      BY <3>1, <3>3
    <3>6. LongestIteration' = LongestIteration /\ elapsed' \in Nat
      BY <3>1 DEF LongestIteration
    <3> QED
      BY <2>4, <3>2, <3>3, <3>4, <3>5, <3>6 DEF Clocked, EndsInTime
  <2>8. Followed'
    <3>1. (since # Never => node \in Target /\ since <= elapsed)'
          /\ (node \in Target => since # Never)'
      BY DEF Followed, WaitTypeOK, Target
    <3>2. ASSUME form = "int", ~faulted
          PROVE  /\ wait'.retry = 0 /\ wait'.retry2 = 0 /\ wait' = IntIteration(wait, got)
                 /\ wait'.met <=> got \in FinalValues
      BY <2>1, <3>2, IntIterationType DEF Followed, IntIteration, WaitTypeOK, Waits
    <3>3. ASSUME form = "int", ~faulted, at' = "top", since # Never
          PROVE  elapsed' <= since + LongestIteration
      BY <2>4, <3>2, <3>3 DEF Followed, GoesOn, WaitTypeOK, LongestIteration
    <3>4. ASSUME form = "int", ~faulted, at' = "done", ~result'
          PROVE  wait'.timeout
      BY <2>4, <3>2, <3>4 DEF GoesOn, IntReturns, WaitTypeOK
    <3> QED
      BY <2>3, <2>4, <3>1, <3>2, <3>3, <3>4 DEF Followed, WaitTypeOK, LongestIteration
  <2> QED
    BY <2>5, <2>6, <2>7, <2>8
<1> QED
  BY <1>1, <1>2, <1>3, <1>4, <1>5 DEF Loop

LEMMA TickKeepsWaitInv ==
  ASSUME WaitInv, Tick
  PROVE  WaitInv'
<1> USE Lengths DEF WaitInv, Tick, inputs
<1>1. WaitTypeOK'
  BY DEF WaitTypeOK, Domain, Read
<1>2. Undecided' /\ Converted' /\ TrueMeansFinalRead'
  BY DEF Undecided, Converted, TrueMeansFinalRead
<1>3. Clocked'
  BY DEF Clocked, LatestStart, LongestIteration, WaitTypeOK
<1>4. Followed'
  BY DEF Followed, LongestIteration, WaitTypeOK, Target
<1> QED
  BY <1>1, <1>2, <1>3, <1>4

LEMMA NodeKeepsWaitInv ==
  ASSUME WaitInv, NodeChanges
  PROVE  WaitInv'
<1> USE Lengths DEF WaitInv, NodeChanges, inputs
<1>1. WaitTypeOK'
  BY DEF WaitTypeOK, Domain, Read
<1>2. Undecided' /\ Converted' /\ TrueMeansFinalRead'
  BY DEF Undecided, Converted, TrueMeansFinalRead
<1>3. Clocked'
  BY DEF Clocked, LatestStart, LongestIteration, WaitTypeOK
<1>4. Followed'
  BY WaitAssumption DEF Followed, Clocked, LongestIteration, WaitTypeOK, Target
<1> QED
  BY <1>1, <1>2, <1>3, <1>4

LEMMA WaitStepKeepsInv == WaitInv /\ [WaitNext]_waitVars => WaitInv'
<1> SUFFICES ASSUME WaitInv, [WaitNext]_waitVars PROVE WaitInv'
  OBVIOUS
<1>1. CASE UNCHANGED waitVars
  BY <1>1 DEF waitVars, inputs, WaitInv, WaitTypeOK, Domain, Read, Undecided, Converted,
     TrueMeansFinalRead, Clocked,
     LatestStart, LongestIteration, EndsInTime, Followed, Target
<1> QED
  BY <1>1, LoopKeepsWaitInv, TickKeepsWaitInv, NodeKeepsWaitInv DEF WaitNext, Returned

----------------------------------------------------------------------------

\* WaitInv holds in every reachable state of a wait.
THEOREM WaitInvariance == WaitSpec => []WaitInv
BY InitKeepsWaitInv, WaitStepKeepsInv, PTL DEF WaitSpec

\* The types of a wait, in particular of the locals of its loop.
THEOREM WaitTypeCorrect == WaitSpec => []WaitTypeOK
<1>1. WaitInv => WaitTypeOK
  BY DEF WaitInv
<1> QED
  BY <1>1, WaitInvariance, PTL

\* TRUE from the integer forms rests on a read of the last iteration that found the
\* node final, for every width of the numbers; only 64 bits can be cast into it.
THEOREM TrueIsReal == WaitSpec => []TrueMeansFinalRead
<1>1. WaitInv => TrueMeansFinalRead
  BY DEF WaitInv
<1> QED
  BY <1>1, WaitInvariance, PTL

\* The wait outlasts its limit by two iterations at most, for every limit.
THEOREM WaitEndsInTime == WaitSpec => []EndsInTime
<1>1. WaitInv => EndsInTime
  BY Lengths DEF WaitInv, WaitTypeOK, Clocked, LatestStart, LongestIteration, EndsInTime
<1> QED
  BY <1>1, WaitInvariance, PTL

\* waitIntCondition misses no process that ended, and stayed ended, in time.
THEOREM NoEndIsMissed == WaitSpec => []NotMissed
<1>1. WaitInv => NotMissed
  BY Lengths DEF WaitInv, WaitTypeOK, Followed, LongestIteration, NotMissed, Missed
<1> QED
  BY <1>1, WaitInvariance, PTL
=============================================================================
