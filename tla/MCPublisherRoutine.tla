------------------------- MODULE MCPublisherRoutine -------------------------
(* Instances of PublisherRoutine for TLC.                                   *)
EXTENDS PublisherRoutine, TLC

CONSTANTS p1, p2, p3

Three == {p1, p2, p3}
=============================================================================
