--------------------------- MODULE MCSecureChannel --------------------------
(***************************************************************************)
(* Model checking of SecureChannel: sequence numbers of four bits, which   *)
(* begin far from their end or just before it.                             *)
(***************************************************************************)
EXTENDS SecureChannel

MCStarts == {2, 11}

ASSUME MCNumbersSuffice == NumbersSuffice
=============================================================================
