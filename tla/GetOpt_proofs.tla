---------------------------- MODULE GetOpt_proofs ---------------------------
(***************************************************************************)
(* The option loop takes what the command line means, for every command    *)
(* line: ParseInv is inductive.                                            *)
(***************************************************************************)
EXTENDS GetOpt, TLAPS

\* What every step leaves alone.
LEMMA ArgsKept == [OptNext]_optVars => args' = args
  BY DEF OptNext, Parse, Parsed, GetOptEnds, GetOptUnknown, GetOptBare,
     GetOptTakes, GetOptLacks, SwitchTakes, SwitchRefuses, Check, optVars

\* No command line is complete before the options that it begins with end.
LEMMA CompleteIsLast ==
  ASSUME args \in Seq(Words), NEW n \in Nat, NEW m \in Nat, Pairs(n), Complete(m)
  PROVE  n <= m
<1> SUFFICES ASSUME m < n PROVE FALSE
  OBVIOUS
<1>1. m + 1 \in 1..n /\ 2 * (m + 1) - 1 = 2 * m + 1 /\ 2 * m < Len(args)
  BY DEF Pairs
<1>2. args[2 * m + 1] \in Letters
  BY <1>1 DEF Pairs
<1>3. args[2 * m + 1] = "none"
  BY <1>1 DEF Complete
<1> QED
  BY <1>2, <1>3 DEF Letters

\* A word that neither continues the options nor ends them spoils the line.
LEMMA BadWord ==
  ASSUME args \in Seq(Words), NEW n \in Nat, Pairs(n), 2 * n < Len(args),
         args[2 * n + 1] # "none",
         args[2 * n + 1] \notin Letters \/ 2 * n + 1 = Len(args)
  PROVE  \A m \in 0..Len(args) : ~Accepted(m)
<1> SUFFICES ASSUME NEW m \in 0..Len(args), Accepted(m) PROVE FALSE
  OBVIOUS
<1>1. Complete(m) /\ Pairs(m) /\ m \in Nat
  BY DEF Accepted, Complete
<1>2. n <= m
  BY <1>1, CompleteIsLast
<1>3. n # m
  BY <1>1 DEF Complete
<1>4. n + 1 \in 1..m /\ 2 * (n + 1) - 1 = 2 * n + 1 /\ 2 * n + 1 < Len(args)
  BY <1>1, <1>2, <1>3 DEF Pairs
<1>5. args[2 * n + 1] \in Letters
  BY <1>1, <1>4 DEF Pairs
<1> QED
  BY <1>4, <1>5

\* One more pair: the last argument of its option is its own.
LEMMA NextPair ==
  ASSUME args \in Seq(Words), NEW n \in Nat, 2 * n + 2 <= Len(args),
         taken \in [Letters -> 0..Len(args)], Consumed(n),
         args[2 * n + 1] \in Letters,
         args' = args,
         taken' = [taken EXCEPT ![args[2 * n + 1]] = 2 * n + 2]
  PROVE  Consumed(n + 1)'
<1>1. 2 * (n + 1) = 2 * n + 2 /\ 2 * (n + 1) - 1 = 2 * n + 1 /\ 1..(n + 1) = 1..n \cup {n + 1}
  OBVIOUS
<1>2. Pairs(n + 1)'
  BY <1>1 DEF Consumed, Pairs
<1>3. ASSUME NEW l \in Letters
      PROVE  LastArgument(l, taken[l], n + 1)'
  <2>1. CASE l = args[2 * n + 1]
    <3>1. taken'[l] = 2 * (n + 1) /\ args'[2 * (n + 1) - 1] = l /\ n + 1 \in 1..(n + 1)
      BY <1>1, <2>1
    <3>2. \A j \in ((n + 1) + 1)..(n + 1) : args'[2 * j - 1] # l
      OBVIOUS
    <3> QED
      BY <3>1, <3>2 DEF LastArgument
  <2>2. CASE l # args[2 * n + 1]
    <3>1. taken'[l] = taken[l] /\ args[2 * (n + 1) - 1] # l
      BY <1>1, <2>2
    <3>2. LastArgument(l, taken[l], n)
      BY DEF Consumed
    <3>3. CASE taken[l] = 0 /\ \A k \in 1..n : args[2 * k - 1] # l
      BY <1>1, <3>1, <3>3 DEF LastArgument
    <3>4. CASE \E k \in 1..n : /\ taken[l] = 2 * k /\ args[2 * k - 1] = l
                               /\ \A j \in (k + 1)..n : args[2 * j - 1] # l
      <4>1. PICK k \in 1..n : /\ taken[l] = 2 * k /\ args[2 * k - 1] = l
                              /\ \A j \in (k + 1)..n : args[2 * j - 1] # l
        BY <3>4
      <4>2. \A j \in (k + 1)..(n + 1) : args[2 * j - 1] # l
        <5> TAKE j \in (k + 1)..(n + 1)
        <5>1. j = n + 1 \/ j \in (k + 1)..n
          OBVIOUS
        <5> QED
          BY <3>1, <4>1, <5>1
      <4> QED
        BY <1>1, <3>1, <4>1, <4>2 DEF LastArgument
    <3> QED
      BY <3>2, <3>3, <3>4 DEF LastArgument
  <2> QED
    BY <2>1, <2>2
<1> QED
  BY <1>2, <1>3 DEF Consumed

\* The verdict of main is the meaning of the command line.
LEMMA Verdict ==
  ASSUME args \in Seq(Words), NEW n \in 0..Len(args), Consumed(n), Complete(n)
  PROVE  /\ (\A l \in Letters : taken[l] # 0) => Accepted(n)
         /\ (\E l \in Letters : taken[l] = 0) => \A m \in 0..Len(args) : ~Accepted(m)
<1>1. \A l \in Letters : LastArgument(l, taken[l], n)
  BY DEF Consumed
<1>2. ASSUME \A l \in Letters : taken[l] # 0
      PROVE  Accepted(n)
  BY <1>1, <1>2 DEF Accepted, LastArgument
<1>3. ASSUME NEW l \in Letters, taken[l] = 0, NEW m \in 0..Len(args), Accepted(m)
      PROVE  FALSE
  <2>1. \A k \in 1..n : args[2 * k - 1] # l
    BY <1>1, <1>3 DEF LastArgument
  <2>2. Complete(m) /\ Pairs(m) /\ Pairs(n) /\ m \in Nat /\ n \in Nat
    BY <1>3 DEF Accepted, Complete
  <2>3. n <= m /\ m <= n
    BY <2>2, CompleteIsLast
  <2>4. n = m
    BY <2>2, <2>3
  <2> QED
    BY <1>3, <2>1, <2>4 DEF Accepted
<1> QED
  BY <1>2, <1>3

----------------------------------------------------------------------------

LEMMA ParseInit == OptInit => ParseInv
<1> SUFFICES ASSUME OptInit PROVE ParseInv
  OBVIOUS
<1> USE DEF OptInit
<1>1. args \in Seq(Words) /\ Len(args) \in Nat
  BY CommandLinesAssumption
<1>2. OptTypeOK
  BY <1>1 DEF OptTypeOK, argc
<1>3. optind = 2 * 0 + 1 /\ Consumed(0) /\ 0 \in 0..Len(args)
  BY <1>1 DEF Consumed, Pairs, LastArgument
<1> QED
  BY <1>2, <1>3 DEF ParseInv, ParseExact

LEMMA ParseStep == ParseInv /\ [OptNext]_optVars => ParseInv'
<1> SUFFICES ASSUME ParseInv, [OptNext]_optVars PROVE ParseInv'
  OBVIOUS
<1> USE DEF ParseInv, OptTypeOK, argc
<1>1. args \in Seq(Words) /\ Len(args) \in Nat /\ args' = args
  BY ArgsKept
<1>2. CASE GetOptEnds
  <2>1. PICK n \in 0..Len(args) : optind = 2 * n + 1 /\ Consumed(n)
    BY <1>2 DEF GetOptEnds
  <2>2. optind' = 2 * n + 1 /\ Consumed(n)'
    BY <1>1, <1>2, <2>1 DEF GetOptEnds, Consumed, Pairs, LastArgument
  <2> QED
    BY <1>1, <1>2, <2>2 DEF GetOptEnds, ParseExact
<1>3. ASSUME GetOptUnknown \/ GetOptBare \/ GetOptLacks
             \/ (GetOptTakes /\ args[optind] = "NUL")
      PROVE  ParseInv'
  <2> USE DEF GetOptUnknown, GetOptBare, GetOptLacks, GetOptTakes
  <2>1. PICK n \in 0..Len(args) : optind = 2 * n + 1 /\ Consumed(n)
    BY <1>3
  <2>2. Pairs(n) /\ n \in Nat /\ 2 * n < Len(args)
    BY <1>1, <1>3, <2>1 DEF Consumed
  <2>3. args[2 * n + 1] # "none" /\
        (args[2 * n + 1] \notin Letters \/ 2 * n + 1 = Len(args))
    BY <1>1, <1>3, <2>1 DEF Letters
  <2>4. \A m \in 0..Len(args) : ~Accepted(m)
    BY <1>1, <2>2, <2>3, BadWord
  <2>5. (\A m \in 0..Len(args) : ~Accepted(m))'
    BY <1>1, <2>4 DEF Accepted, Complete, Pairs
  <2>6. at' = "switch" /\ option' \notin Letters
    BY <1>3 DEF Letters
  <2>7. OptTypeOK'
    BY <1>1, <1>3 DEF Words, Letters
  <2> QED
    BY <2>5, <2>6, <2>7 DEF ParseExact
<1>4. CASE GetOptTakes /\ args[optind] # "NUL"
  <2>1. PICK n \in 0..Len(args) : optind = 2 * n + 1 /\ Consumed(n)
    BY <1>4 DEF GetOptTakes
  <2>2. optind' = 2 * n + 3 /\ optarg' = optind' - 1 /\ args'[2 * n + 1] = option'
        /\ option' \in Letters /\ at' = "switch"
    BY <1>1, <1>4, <2>1 DEF GetOptTakes
  <2>3. Consumed(n)'
    BY <1>1, <1>4, <2>1 DEF GetOptTakes, Consumed, Pairs, LastArgument
  <2>4. OptTypeOK'
    BY <1>1, <1>4 DEF GetOptTakes, Words
  <2> QED
    BY <1>1, <2>2, <2>3, <2>4 DEF ParseExact
<1>5. CASE SwitchTakes
  <2>1. PICK n \in 0..Len(args) : /\ optind = 2 * n + 3 /\ Consumed(n)
                                  /\ args[2 * n + 1] = option
    BY <1>5 DEF SwitchTakes
  <2>2. optarg = 2 * n + 2 /\ 2 * n + 2 <= Len(args) /\ n \in Nat
    BY <1>1, <1>5, <2>1 DEF SwitchTakes
  <2>3. taken' = [taken EXCEPT ![args[2 * n + 1]] = 2 * n + 2]
        /\ args[2 * n + 1] \in Letters
    BY <1>5, <2>1, <2>2 DEF SwitchTakes
  <2>4. Consumed(n + 1)'
    BY <1>1, <2>1, <2>2, <2>3, NextPair
  <2>5. optind' = 2 * (n + 1) + 1 /\ n + 1 \in 0..Len(args') /\ at' = "getopt"
    BY <1>1, <1>5, <2>1, <2>2 DEF SwitchTakes
  <2>6. OptTypeOK'
    BY <1>1, <1>5, <2>2 DEF SwitchTakes
  <2> QED
    BY <2>4, <2>5, <2>6 DEF ParseExact
<1>6. CASE SwitchRefuses
  <2>1. option \notin Letters
    <3>1. optarg = optind - 1 /\ optind >= 3 => optarg # 0
      BY <1>1
    <3> QED
      BY <1>1, <1>6, <3>1 DEF SwitchRefuses
  <2>2. \A m \in 0..Len(args) : ~Accepted(m)
    BY <1>6, <2>1 DEF SwitchRefuses
  <2>3. (\A m \in 0..Len(args) : ~Accepted(m))'
    BY <1>1, <2>2 DEF Accepted, Complete, Pairs
  <2> QED
    BY <1>1, <1>6, <2>3 DEF SwitchRefuses, ParseExact
<1>7. CASE Check
  <2>1. PICK n \in 0..Len(args) : optind = 2 * n + 1 /\ Consumed(n)
    BY <1>7 DEF Check
  <2>2. Complete(n)
    BY <1>1, <1>7, <2>1 DEF Check, Consumed, Complete
  <2>3. /\ (\A l \in Letters : taken[l] # 0) => Accepted(n)
        /\ (\E l \in Letters : taken[l] = 0) => \A m \in 0..Len(args) : ~Accepted(m)
    BY <1>1, <2>1, <2>2, Verdict
  <2>4. args' = args /\ taken' = taken
    BY <1>7 DEF Check
  <2>5. (Accepted(n) <=> Accepted(n)')
        /\ ((\A m \in 0..Len(args) : ~Accepted(m)) => (\A m \in 0..Len(args) : ~Accepted(m))')
        /\ ((\A l \in Letters : LastArgument(l, taken[l], n)) <=>
            (\A l \in Letters : LastArgument(l, taken[l], n))')
    BY <2>4 DEF Accepted, Complete, Pairs, LastArgument
  <2>6. ParseExact'
    BY <1>1, <1>7, <2>1, <2>3, <2>4, <2>5 DEF Check, ParseExact, Consumed
  <2> QED
    BY <1>1, <1>7, <2>6 DEF Check
<1>8. CASE Parsed \/ UNCHANGED optVars
  <2>1. UNCHANGED <<args, optind, optarg, option, taken, at>>
    BY <1>8 DEF Parsed, optVars
  <2>2. at \in {"getopt", "check"} =>
          (\E n \in 0..Len(args) : optind = 2 * n + 1 /\ Consumed(n))'
    BY <2>1 DEF Consumed, Pairs, LastArgument
  <2>3. ParseExact'
    <3>1. (at = "usage" => \A n \in 0..Len(args) : ~Accepted(n))'
      BY <2>1 DEF ParseExact, Accepted, Complete, Pairs
    <3>2. ASSUME at = "launcher"
          PROVE  (\E n \in 0..Len(args) :
                    Accepted(n) /\ \A l \in Letters : LastArgument(l, taken[l], n))'
      <4>1. PICK n \in 0..Len(args) :
              Accepted(n) /\ \A l \in Letters : LastArgument(l, taken[l], n)
        BY <3>2 DEF ParseExact
      <4>2. Accepted(n)'
        BY <2>1, <4>1 DEF Accepted, Complete, Pairs
      <4>3. (\A l \in Letters : LastArgument(l, taken[l], n))'
        BY <2>1, <4>1 DEF LastArgument
      <4> QED
        BY <2>1, <4>2, <4>3
    <3> QED
      BY <2>1, <3>1, <3>2 DEF ParseExact
  <2>4. OptTypeOK'
    BY <2>1
  <2>5. at = "switch" /\ option \in Letters =>
          (\E n \in 0..Len(args) : /\ optind = 2 * n + 3 /\ Consumed(n)
                                   /\ args[2 * n + 1] = option)'
    BY <2>1 DEF Consumed, Pairs, LastArgument
  <2>6. at = "switch" /\ option \notin Letters =>
          (\A n \in 0..Len(args) : ~Accepted(n))'
    BY <2>1 DEF Accepted, Complete, Pairs
  <2>7. (at = "check" => (optind < argc => args[optind] = "none"))'
    BY <2>1
  <2>8. (at = "switch" /\ option \in Letters => optarg = optind - 1)'
    BY <2>1
  <2>9. at' = at /\ option' = option
    BY <2>1
  <2> HIDE DEF OptTypeOK
  <2> QED
    BY Zenon, <2>2, <2>3, <2>4, <2>5, <2>6, <2>7, <2>8, <2>9
<1> QED
  BY <1>2, <1>3, <1>4, <1>5, <1>6, <1>7, <1>8 DEF OptNext, Parse

\* At every point of main, the words before optind are options whose last
\* arguments have been taken.
THEOREM ParseInvariance == OptSpec => []ParseInv
BY ParseInit, ParseStep, PTL DEF OptSpec

\* optind stays within argv, and optarg within what it points to.
THEOREM OptTypeCorrect == OptSpec => []OptTypeOK
<1>1. ParseInv => OptTypeOK
  BY DEF ParseInv
<1> QED
  BY <1>1, ParseInvariance, PTL

\* The launcher is created for exactly the command lines that give all three
\* options, of any length, and with their last values.
THEOREM ParsesExactly == OptSpec => []ParseExact
<1>1. ParseInv => ParseExact
  BY DEF ParseInv
<1> QED
  BY <1>1, ParseInvariance, PTL

\* A case of the switch takes the argument of its own option.
THEOREM ArgumentIsFresh == OptSpec => []ArgumentFresh
<1>1. ParseInv => ArgumentFresh
  <2> SUFFICES ASSUME ParseInv, at = "switch", option \in Letters
               PROVE  optarg = optind - 1 /\ args[optarg - 1] = option
    BY DEF ArgumentFresh
  <2>1. PICK n \in 0..Len(args) : optind = 2 * n + 3 /\ args[2 * n + 1] = option
    BY DEF ParseInv
  <2>2. optarg = optind - 1 /\ optarg - 1 = 2 * n + 1
    BY <2>1 DEF ParseInv, OptTypeOK
  <2> QED
    BY <2>1, <2>2
<1> QED
  BY <1>1, ParseInvariance, PTL
=============================================================================
