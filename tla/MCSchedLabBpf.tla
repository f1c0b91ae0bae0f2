--------------------------- MODULE MCSchedLabBpf ---------------------------
(* Small instances of SchedLabBpf for TLC: two tasks, one or two CPUs, and *)
(* events one or three time units apart.                                   *)
EXTENDS SchedLabBpf

MCPids == 1 .. 2
UnitSteps == {1}
MixedSteps == {1, 3}

=============================================================================
