----------------------------- MODULE MCUAClient -----------------------------
(***************************************************************************)
(* Model checking of UAClient: it has no constants and its state space is  *)
(* finite, so the run is exhaustive.                                       *)
(***************************************************************************)
EXTENDS UAClient
=============================================================================
