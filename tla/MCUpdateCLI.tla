----------------------------- MODULE MCUpdateCLI ----------------------------
(* Instances of UpdateCLI for TLC.                                          *)
EXTENDS UpdateCLI

TimeOnly == {[messages |-> 0, seconds |-> 2]}
LimitOrTime == TimeOnly \cup {[messages |-> 1, seconds |-> 0]}
=============================================================================
