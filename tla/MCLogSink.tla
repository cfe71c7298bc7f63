----------------------------- MODULE MCLogSink ------------------------------
(***************************************************************************)
(* Model checking of LogSink: two rotated files beside the one written, of *)
(* up to three bytes, with messages of one and two.                        *)
(***************************************************************************)
EXTENDS LogSink

MCMutexes == {FALSE, TRUE}
MCSt == {FALSE}
MCSizes == {1, 2}
=============================================================================
