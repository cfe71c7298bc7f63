------------------------------ MODULE MCGetOpt ------------------------------
(***************************************************************************)
(* Model checking of GetOpt: every command line of up to five words, and   *)
(* those of up to eight that are made of options and other words, so that  *)
(* an option can be given twice and something can follow the three.        *)
(***************************************************************************)
EXTENDS GetOpt

LinesOf(words, n) == UNION {[1..k -> words] : k \in 0..n}

MCCommandLines == LinesOf(Words, 5) \cup LinesOf(Letters \cup {"none"}, 8)
=============================================================================
