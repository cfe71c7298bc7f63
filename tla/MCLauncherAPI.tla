---------------------------- MODULE MCLauncherAPI ---------------------------
(***************************************************************************)
(* Model checking of the public methods, with the values of MCLauncherMain.*)
(***************************************************************************)
EXTENDS LauncherAPI

ISA88_PROCESS_STATE_COMPLETE == 301
Working == 100

MCValues == {Working, ISA88_PROCESS_STATE_COMPLETE}
MCFinalValues == {ISA88_PROCESS_STATE_COMPLETE}
=============================================================================
