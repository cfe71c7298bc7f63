------------------------------- MODULE GetOpt -------------------------------
(***************************************************************************)
(* The options of the program: getopt (getopt.cpp), which keeps optind and *)
(* optarg between its calls, under the loop of main (main.cpp) that calls  *)
(* it, up to the creation of the launcher or to exit(EXIT_FAILURE).        *)
(*                                                                         *)
(* What getopt sees of a word is its option: the character after the dash, *)
(* or "none" for a word that does not begin with one.  A value is the      *)
(* position of its word on the command line.                               *)
(***************************************************************************)
EXTENDS Integers, Sequences

\* The option string "h:p:s:": each of these takes an argument.
Letters == {"h", "p", "s"}

\* Other options: ":" is in the option string itself, "-" alone is followed by
\* the terminating NUL, which strchr finds as well.
Words == Letters \cup {":", "NUL", "unknown", "none"}

CONSTANT CommandLines  \* the command lines considered, without argv[0]

ASSUME CommandLinesAssumption == CommandLines \subseteq Seq(Words)

VARIABLES
  args,    \* argv[1] ... argv[argc - 1]
  optind,  \* the next word
  optarg,  \* the position of the last argument taken, 0 for NULL
  option,  \* what getopt returned
  taken,   \* where host, port and sleepTime come from, 0 if not set
  at       \* the point that main has reached

optVars == <<args, optind, optarg, option, taken, at>>

argc == Len(args) + 1

OptTypeOK ==
  /\ args \in Seq(Words)
  /\ optind \in 1..argc
  /\ optarg \in 0..Len(args)
  /\ option \in Words \cup {"?", "end"}
  /\ taken \in [Letters -> 0..Len(args)]
  /\ at \in {"getopt", "switch", "check", "launcher", "usage"}

OptInit ==
  /\ args \in CommandLines
  /\ optind = 1
  /\ optarg = 0
  /\ option = "end"
  /\ taken = [l \in Letters |-> 0]
  /\ at = "getopt"

----------------------------------------------------------------------------
(* One call of getopt.                                                      *)

\* No word is left, or the next one is no option: -1.
GetOptEnds ==
  /\ at = "getopt" /\ (optind < argc => args[optind] = "none")
  /\ option' = "end"
  /\ at' = "check"
  /\ UNCHANGED <<args, optind, optarg, taken>>

\* An option that is not in the option string: '?'.
GetOptUnknown ==
  /\ at = "getopt" /\ optind < argc /\ args[optind] = "unknown"
  /\ option' = "?"
  /\ at' = "switch"
  /\ UNCHANGED <<args, optind, optarg, taken>>

\* An option without a colon behind it: it is returned, optind stays.  For NUL
\* the character looked at lies behind the option string.
GetOptBare ==
  /\ at = "getopt" /\ optind < argc /\ args[optind] \in {":", "NUL"}
  /\ option' = args[optind]
  /\ at' = "switch"
  /\ UNCHANGED <<args, optind, optarg, taken>>

\* An option with its argument, the next word whatever it is.
GetOptTakes ==
  /\ at = "getopt" /\ optind + 1 < argc /\ args[optind] \in Letters \cup {"NUL"}
  /\ option' = args[optind]
  /\ optarg' = optind + 1
  /\ optind' = optind + 2
  /\ at' = "switch"
  /\ UNCHANGED <<args, taken>>

\* Slip: a missing argument leaves optarg as it was, and the option is returned.
GetOptLacksUnnoticed ==
  /\ at = "getopt" /\ optind + 1 = argc /\ args[optind] \in Letters \cup {"NUL"}
  /\ option' = args[optind]
  /\ optind' = optind + 1
  /\ at' = "switch"
  /\ UNCHANGED <<args, optarg, taken>>

\* The argument is missing: '?'.
GetOptLacks ==
  /\ at = "getopt" /\ optind + 1 = argc /\ args[optind] \in Letters \cup {"NUL"}
  /\ option' = "?"
  /\ optind' = optind + 1
  /\ at' = "switch"
  /\ UNCHANGED <<args, optarg, taken>>

----------------------------------------------------------------------------
(* main.                                                                    *)

\* Slip: an option that was given before is not overwritten.
SwitchTakesFirst ==
  /\ at = "switch" /\ option \in Letters /\ optarg # 0
  /\ taken' = [taken EXCEPT ![option] = IF @ = 0 THEN optarg ELSE @]
  /\ at' = "getopt"
  /\ UNCHANGED <<args, optind, optarg, option>>

\* case 'h', 'p' and 's': the value, and its flag.
SwitchTakes ==
  /\ at = "switch" /\ option \in Letters /\ optarg # 0
  /\ taken' = [taken EXCEPT ![option] = optarg]
  /\ at' = "getopt"
  /\ UNCHANGED <<args, optind, optarg, option>>

\* Slip: the default prints the usage and goes on.
SwitchGoesOn ==
  /\ at = "switch" /\ (option \in Letters => optarg = 0)
  /\ at' = "getopt"
  /\ UNCHANGED <<args, optind, optarg, option, taken>>

\* The default of the switch, and an optarg that is nullptr.
SwitchRefuses ==
  /\ at = "switch" /\ (option \in Letters => optarg = 0)
  /\ at' = "usage"
  /\ UNCHANGED <<args, optind, optarg, option, taken>>

\* All three options are needed.
Check ==
  /\ at = "check"
  /\ at' = IF \A l \in Letters : taken[l] # 0 THEN "launcher" ELSE "usage"
  /\ UNCHANGED <<args, optind, optarg, option, taken>>

Parsed == at \in {"launcher", "usage"} /\ UNCHANGED optVars

Parse ==
  \/ GetOptEnds \/ GetOptUnknown \/ GetOptBare \/ GetOptTakes \/ GetOptLacks
  \/ SwitchTakes \/ SwitchRefuses \/ Check

OptNext == Parse \/ Parsed
OptSpec == OptInit /\ [][OptNext]_optVars

\* Nothing in it blocks.
FairOptSpec == OptSpec /\ WF_optVars(Parse)

----------------------------------------------------------------------------
(* What a command line means, without a loop.                               *)

\* It begins with n options and their arguments.
Pairs(n) == 2 * n <= Len(args) /\ \A k \in 1..n : args[2 * k - 1] \in Letters

\* q is where the last of those that are option l has its argument.
LastArgument(l, q, n) ==
  \/ q = 0 /\ \A k \in 1..n : args[2 * k - 1] # l
  \/ \E k \in 1..n : /\ q = 2 * k /\ args[2 * k - 1] = l
                     /\ \A j \in (k + 1)..n : args[2 * j - 1] # l

\* They are all there is, up to a word that is no option.
Complete(n) == Pairs(n) /\ (2 * n < Len(args) => args[2 * n + 1] = "none")

\* The command line gives all three options.
Accepted(n) ==
  Complete(n) /\ \A l \in Letters : \E k \in 1..n : args[2 * k - 1] = l

\* The launcher is created exactly for the command lines that give all three
\* options, with the last value of each, and no state that getopt keeps between
\* its calls, nor what follows, changes that.
ParseExact ==
  /\ at = "launcher" =>
       \E n \in 0..Len(args) :
         Accepted(n) /\ \A l \in Letters : LastArgument(l, taken[l], n)
  /\ at = "usage" => \A n \in 0..Len(args) : ~Accepted(n)

\* The argument that a case of the switch takes is the one of its own option,
\* never one that an earlier call left in optarg.
ArgumentFresh ==
  at = "switch" /\ option \in Letters =>
    optarg = optind - 1 /\ args[optarg - 1] = option

\* main gets past its options, or gives up.
ParseEnds == <>(at \in {"launcher", "usage"})

----------------------------------------------------------------------------
(* The inductive invariant of GetOpt_proofs.                                *)

\* The words before optind are n options with their arguments, and taken holds
\* the last of each; at the switch, those before the pair in hand.
Consumed(n) == Pairs(n) /\ \A l \in Letters : LastArgument(l, taken[l], n)

ParseInv ==
  /\ OptTypeOK
  /\ at \in {"getopt", "check"} =>
       \E n \in 0..Len(args) : optind = 2 * n + 1 /\ Consumed(n)
  /\ at = "check" => (optind < argc => args[optind] = "none")
  /\ at = "switch" /\ option \in Letters =>
       /\ optarg = optind - 1
       /\ \E n \in 0..Len(args) :
            /\ optind = 2 * n + 3 /\ Consumed(n)
            /\ args[2 * n + 1] = option
  /\ at = "switch" /\ option \notin Letters =>
       \A n \in 0..Len(args) : ~Accepted(n)
  /\ ParseExact
=============================================================================
