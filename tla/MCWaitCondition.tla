--------------------------- MODULE MCWaitCondition --------------------------
(***************************************************************************)
(* Model checking of WaitCondition with scaled widths: a byte of 2 bits,   *)
(* and 3, 4 and 5 bits for 16, 32 and 64.                                  *)
(***************************************************************************)
EXTENDS WaitCondition

MCValues == AnInt
MCFinalValues == {3}
MCNoValue == -1
MCTypes == {"INT32", "UINT32", "INT64", "BOOLEAN"}

\* 3 is final, -5 equals it in 16 bits and 19 in 32; 12 is negative as an int.
\* As flags, 3, -5 and 19 read as either, 1 as true and 12 as false.
MCSamples == {-5, 1, 3, 12, 19}
=============================================================================
