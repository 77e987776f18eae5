------------------------------- MODULE Meter -------------------------------
(***************************************************************************)
(* The promise every updateCLI of the repository makes to its reader (the  *)
(* Go loop and the two Node.js timers): messages are counted as they       *)
(* happen, the per-tick rate samples attribute every counted message to at *)
(* most one sample, and the figure reported when the run stops lies        *)
(* between what the samples account for and what was really counted.  It   *)
(* says nothing about how often samples are taken, nor that every message  *)
(* reaches a sample: that is what the implementations differ in.           *)
(***************************************************************************)
EXTENDS Naturals

VARIABLES
    total,      \* messages counted so far
    sampled,    \* messages the rate samples account for
    stopped,    \* the loop has returned its result
    result      \* the total it returned

vars == <<total, sampled, stopped, result>>

Init ==
    /\ total = 0
    /\ sampled = 0
    /\ stopped = FALSE
    /\ result = 0

\* Workers count messages at any time, also after the loop has returned.
CountMessage ==
    /\ total' = total + 1
    /\ UNCHANGED <<sampled, stopped, result>>

\* A sample may fall short of what was counted, it never exceeds it.
TakeSample ==
    /\ ~stopped
    /\ sampled' \in sampled .. total
    /\ UNCHANGED <<total, stopped, result>>

Report ==
    /\ ~stopped
    /\ stopped' = TRUE
    /\ result' \in sampled .. total
    /\ UNCHANGED <<total, sampled>>

Next == CountMessage \/ TakeSample \/ Report

Spec == Init /\ [][Next]_vars
=============================================================================
