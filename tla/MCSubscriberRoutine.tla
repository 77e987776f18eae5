------------------------- MODULE MCSubscriberRoutine ------------------------
(* Instances of SubscriberRoutine for TLC.                                  *)
EXTENDS SubscriberRoutine, TLC

CONSTANTS s1, s2, chA, chB

One == {s1}
Two == {s1, s2}
AB == {chA, chB}

\* A list that names its first channel twice (channels are drawn with
\* replacement), and a list of one.
MixedLists == {<<chA, chB, chA>>, <<chB>>}
PairLists == {<<chA, chB>>}
=============================================================================
