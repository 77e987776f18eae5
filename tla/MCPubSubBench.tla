---------------------------- MODULE MCPubSubBench ---------------------------
(* Instances of PubSubBench for TLC.                                        *)
EXTENDS PubSubBench, TLC

CONSTANTS s1, chA

One == {s1}
A == {chA}
SingleLists == {<<chA>>}
Unlimited == {[messages |-> 0, seconds |-> 0]}
MaybeLimited == Unlimited \cup {[messages |-> 1, seconds |-> 0]}
=============================================================================
