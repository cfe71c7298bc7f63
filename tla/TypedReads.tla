----------------------------- MODULE TypedReads -----------------------------
(***************************************************************************)
(* What the launcher makes of the value of a node (OPCUAIsNumber,          *)
(* OPCUAGetNumberValue and OPCUAGetBooleanValue of                         *)
(* DecakeLauncherHelpers.cpp): which types it accepts, and the casts of    *)
(* their values.  The widths are constants: TLC checks them scaled down,   *)
(* and the proofs hold for 16, 32 and 64 bits.                             *)
(***************************************************************************)
EXTENDS Integers

CONSTANTS
  Byte,       \* 2^8
  HalfShort,  \* 2^15
  HalfInt,    \* 2^31
  HalfLong    \* 2^63

ASSUME WidthAssumption ==
  /\ Byte \in Nat /\ HalfShort \in Nat /\ HalfInt \in Nat /\ HalfLong \in Nat
  /\ 1 < Byte /\ Byte <= HalfShort /\ 2 * HalfShort <= HalfInt /\ 2 * HalfInt <= HalfLong

LongTypes == {"INT64", "UINT64"}
NumberTypes == {"INT16", "INT32", "UINT16", "UINT32"} \cup LongTypes
OtherTypes == {"BOOLEAN", "STRING"}

\* The values of a type; those of the others are not looked at.
Holds(type) ==
  CASE type = "INT16" -> -HalfShort..(HalfShort - 1)
    [] type = "INT32" -> -HalfInt..(HalfInt - 1)
    [] type = "INT64" -> -HalfLong..(HalfLong - 1)
    [] type = "UINT16" -> 0..(2 * HalfShort - 1)
    [] type = "UINT32" -> 0..(2 * HalfInt - 1)
    [] type = "UINT64" -> 0..(2 * HalfLong - 1)
    [] OTHER -> {0, 1}

AnInt == Holds("INT32")

OPCUAIsNumber(type) == type \in NumberTypes

\* Slip: the number is cast to 16 bits.
GetNumberValueShort(number) ==
  LET low == number % (2 * HalfShort)
  IN  IF low < HalfShort THEN low ELSE low - 2 * HalfShort

\* static_cast<int>: the low 32 bits, the highest of them the sign.
OPCUAGetNumberValue(number) ==
  LET low == number % (2 * HalfInt)
  IN  IF low < HalfInt THEN low ELSE low - 2 * HalfInt

\* The first byte of the number is read as a bool; one that is neither 0 nor 1 may
\* come out as either.
OPCUAGetBooleanValue(number) ==
  LET low == number % Byte
  IN  IF low = 0 THEN {FALSE} ELSE IF low = 1 THEN {TRUE} ELSE BOOLEAN
=============================================================================
