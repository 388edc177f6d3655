----------------------------- MODULE MCBenchSink -----------------------------
(* Three tracker nodes in one process, one of which does not collect. *)
EXTENDS BenchSink

CONSTANTS sot, tbd, plain
=============================================================================
