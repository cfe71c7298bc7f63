--------------------------- MODULE MCLauncherMain ---------------------------
(***************************************************************************)
(* Model checking of the program: a sequencer with one state in which it   *)
(* works and one of the final states (OPCUAMethods.h), which the launcher  *)
(* treats alike.                                                           *)
(***************************************************************************)
EXTENDS LauncherMain

ISA88_PROCESS_STATE_COMPLETE == 301
Working == 100

MCValues == {Working, ISA88_PROCESS_STATE_COMPLETE}
MCFinalValues == {ISA88_PROCESS_STATE_COMPLETE}
=============================================================================
