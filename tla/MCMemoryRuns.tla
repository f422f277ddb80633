---------------------------- MODULE MCMemoryRuns ----------------------------
(* Small instances of the runs that save experiences, for TLC. *)
EXTENDS MemoryRuns

CONSTANTS p1, p2

OneProcess == {p1}
TwoProcesses == {p1, p2}
=============================================================================
