---------------------------- MODULE PubSubBench ----------------------------
(***************************************************************************)
(* main of subscriber.go in (s)subscribe mode: it installs a signal        *)
(* handler, creates the subscribers one by one, runs updateCLI in its own  *)
(* goroutine, prints the result and returns, which ends the process and    *)
(* every goroutine with it.                                                *)
(*                                                                         *)
(* The components are the modules UpdateCLI and SubscriberRoutine.  They   *)
(* share the counter totalMessages and the channel rttLatencyChannel: what *)
(* is the environment of the one is the other here.  The context main      *)
(* derives at line 410 is overwritten by context.Background() before each  *)
(* subscriber is started (line 518), so the context of the routines is     *)
(* never done: no action changes ctxDone, and mainCtxDone records the      *)
(* cancel() of line 420.                                                   *)
(***************************************************************************)
EXTENDS Integers, Sequences, FiniteSets

CONSTANTS
    Subscribers, Channels, Lists, Modes, Reconnect, MeasureRTT, Payloads,
    RttCap, MaxPublished, MaxTicks,     \* see SubscriberRoutine
    Options, AgeCap,                    \* see UpdateCLI
    Placement                           \* --subscribers-placement-per-channel

VARIABLES
    \* of the subscribers
    mode, channels, at, conn, wanted, tick, inbox, totalSubscribedChannels,
    totalConnects, ctxDone, crashed, published, ticks, copies, counted, dropped,
    \* shared by the subscribers and updateCLI
    totalMessages, rttQ,
    \* of updateCLI
    opts, tickC, sigC, cliPc, delta, prevMessageCount, sampled, rttValues,
    tickRtt, averaged, sinceStart, sinceFirst, resets, stoppedBy, result,
    \* of main
    phase,          \* "creating" the clients, in the "cli", "exited"
    spawned,        \* subscribers whose goroutine was started
    cS,             \* an interrupt waits in cS (capacity 1)
    mainCtxDone,    \* cancel() was called on the context of line 410
    interrupted     \* HISTORY: an interrupt was trapped

subVars == <<mode, channels, at, conn, wanted, tick, inbox,
             totalSubscribedChannels, totalConnects, ctxDone, crashed,
             published, ticks, copies, counted, dropped>>
shared == <<totalMessages, rttQ>>
cliVars == <<opts, tickC, sigC, cliPc, delta, prevMessageCount, sampled,
             rttValues, tickRtt, averaged, sinceStart, sinceFirst, resets,
             stoppedBy, result>>
mainVars == <<phase, spawned, cS, mainCtxDone, interrupted>>
vars == <<subVars, shared, cliVars, mainVars>>

Sub == INSTANCE SubscriberRoutine

CLI == INSTANCE UpdateCLI WITH
           pc <- cliPc,
           MaxMessages <- MaxPublished * Cardinality(Subscribers)

BenchConstants ==
    /\ Sub!SubConstants
    /\ CLI!CLIConstants
    /\ Placement \in {"dense", "sparse"}

ASSUME BenchConstants

-----------------------------------------------------------------------------
Init ==
    /\ Sub!Init
    /\ CLI!LoopInit
    /\ phase = "creating"
    /\ spawned = {}
    /\ cS = FALSE
    /\ mainCtxDone = FALSE
    /\ interrupted = FALSE

Alive == phase # "exited" /\ ~crashed

-----------------------------------------------------------------------------
(* main.                                                                   *)

\* One turn of the client loop; a failing ping ends the program instead.  With
\* placement "sparse" the loop is not entered at all (line 500).
CreateClient(s) ==
    /\ Alive
    /\ phase = "creating"
    /\ Placement = "dense"
    /\ s \notin spawned
    /\ spawned' = spawned \cup {s}
    /\ UNCHANGED <<subVars, shared, cliVars, phase, cS, mainCtxDone,
                   interrupted>>

SetupFails ==
    /\ Alive
    /\ phase = "creating"
    /\ Placement = "dense"
    /\ spawned # Subscribers
    /\ phase' = "exited"
    /\ UNCHANGED <<subVars, shared, cliVars, spawned, cS, mainCtxDone,
                   interrupted>>

\* All clients exist: listen for C-c on channel c and enter updateCLI.
StartCLI ==
    /\ Alive
    /\ phase = "creating"
    /\ Placement = "dense" => spawned = Subscribers
    /\ phase' = "cli"
    /\ UNCHANGED <<subVars, shared, cliVars, spawned, cS, mainCtxDone,
                   interrupted>>

\* MUTANT: updateCLI's return statements say false.
ReturnsOpen == FALSE

\* "closed", the first result of each return statement of updateCLI.
Closed == TRUE

\* updateCLI returned: print, write the file and, if closed, return at once;
\* otherwise main would close c and wait for the goroutines.
ReportAndExit ==
    /\ Alive
    /\ phase = "cli"
    /\ cliPc = "done"
    /\ Closed \/ \A s \in spawned : at[s] = "exited"
    /\ phase' = "exited"
    /\ UNCHANGED <<subVars, shared, cliVars, spawned, cS, mainCtxDone,
                   interrupted>>

\* The goroutine of lines 417-423 forwards one interrupt to cancel().
ForwardSignal ==
    /\ Alive
    /\ cS
    /\ ~mainCtxDone
    /\ cS' = FALSE
    /\ mainCtxDone' = TRUE
    /\ UNCHANGED <<subVars, shared, cliVars, phase, spawned, interrupted>>

-----------------------------------------------------------------------------
(* The components at work.                                                 *)

\* A step of updateCLI, which main has entered and which leaves the others alone.
InCLI(A) ==
    /\ Alive
    /\ phase = "cli"
    /\ A
    /\ UNCHANGED <<subVars, mainVars>>

UpdateCLIStep == InCLI(CLI!Loop)

SubscriberStep(s) ==
    /\ Alive
    /\ s \in spawned
    /\ Sub!Routine(s)
    /\ UNCHANGED <<cliVars, mainVars>>

-----------------------------------------------------------------------------
(* The environment.                                                        *)

\* A trapped interrupt goes to every channel that asked for it (lines 412, 565).
Interrupt ==
    /\ Alive
    /\ cS' = TRUE
    /\ sigC' = (sigC \/ phase = "cli")
    /\ interrupted' = TRUE
    /\ UNCHANGED <<subVars, shared, opts, tickC, cliPc, delta,
                   prevMessageCount, sampled, rttValues, tickRtt, averaged,
                   sinceStart, sinceFirst, resets, stoppedBy, result, phase,
                   spawned, mainCtxDone>>

TimePasses ==
    /\ Alive
    /\ phase = "cli"
    /\ CLI!Elapse
    /\ UNCHANGED <<subVars, mainVars>>

RedisStep ==
    /\ Alive
    /\ \/ \E ch \in Channels, p \in Payloads : Sub!Publish(ch, p)
       \/ \E s \in Subscribers : Sub!Drop(s) \/ Sub!TickFires(s)
    /\ UNCHANGED <<cliVars, mainVars>>

-----------------------------------------------------------------------------
Main ==
    \/ \E s \in Subscribers : CreateClient(s)
    \/ SetupFails
    \/ StartCLI
    \/ ReportAndExit
    \/ ForwardSignal

Next ==
    \/ Main
    \/ UpdateCLIStep
    \/ \E s \in Subscribers : SubscriberStep(s)
    \/ Interrupt
    \/ TimePasses
    \/ RedisStep

Spec == Init /\ [][Next]_vars

\* main and every goroutine run, time passes, and updateCLI's select starves no
\* ready case (its choice is uniform): see LoopFairness of UpdateCLI.
FairSpec ==
    /\ Spec
    /\ WF_vars(\E s \in Subscribers : CreateClient(s))
    /\ WF_vars(StartCLI)
    /\ WF_vars(ReportAndExit)
    /\ WF_vars(ForwardSignal)
    /\ \A s \in Subscribers : WF_vars(SubscriberStep(s))
    /\ WF_vars(TimePasses)
    /\ WF_vars(InCLI(CLI!TickStep))
    /\ WF_vars(InCLI(CLI!Return))
    /\ SF_vars(InCLI(CLI!BeginTick))
    /\ SF_vars(InCLI(CLI!Interrupted))
    /\ SF_vars(InCLI(CLI!ReceiveRtt))

-----------------------------------------------------------------------------
(* Properties.                                                             *)

\* The type invariant: main's own state, and those of the components.
MainTypeOK ==
    /\ phase \in {"creating", "cli", "exited"}
    /\ spawned \in SUBSET Subscribers
    /\ cS \in BOOLEAN
    /\ mainCtxDone \in BOOLEAN
    /\ interrupted \in BOOLEAN

TypeOK == Sub!TypeOK /\ CLI!TypeOK /\ MainTypeOK

Counting == {s \in spawned : at[s] = "count"}

\* When every payload is stamped and RTT is measured, the round-trip times in
\* the channel and in rttValues are those of the messages counted, plus one for
\* each subscriber between its send (line 228) and its increment (line 236): the
\* two figures of a report come from different sources and may differ by at
\* most that.
RttMatchesCount ==
    MeasureRTT /\ Payloads = {"stamped"} =>
        rttValues + rttQ = totalMessages + Cardinality(Counting)

\* The program is a correct environment for each of its components: what the
\* subscribers do to the shared state is what UpdateCLI expects of its workers,
\* and updateCLI treats the round-trip channel as SubscriberRoutine expects.  The
\* invariants of the two modules therefore hold of the whole program.
ImplementsUpdateCLI == CLI!Spec
ImplementsSubscribers == Sub!Spec

\* An interrupt during the benchmark ends the program, even while the
\* round-trip channel is full, subscribers block on it and ticks are due.
InterruptEnds == (phase = "cli" /\ sigC) ~> (phase = "exited" \/ crashed)

\* A subscriber that blocks on the full round-trip channel gets on, or the
\* program ends.
BlockedSendersProgress ==
    \A s \in Subscribers :
        (at[s] = "send") ~> (at[s] # "send" \/ phase = "exited" \/ crashed)

\* What the comment at line 408 says: "trap Ctrl+C and call cancel on the
\* context", so a trapped interrupt ends the program.
InterruptCancels == interrupted ~> (phase = "exited" \/ crashed)

-----------------------------------------------------------------------------
(* The inductive invariant behind the refinement of UpdateCLI: it keeps the *)
(* round-trip times within the messages that subscribers received, so that  *)
(* MaxPublished messages per subscriber bound them for updateCLI.           *)

\* Only a spawned subscriber is at work, and no round-trip time is older than
\* the message it belongs to.
RttInv ==
    /\ rttValues \in Nat
    /\ \A s \in Subscribers : at[s] # "start" => s \in spawned
    /\ rttValues + rttQ <= totalMessages + Cardinality(Counting)
    /\ RttMatchesCount

IInv == Sub!IInv /\ CLI!IInv /\ MainTypeOK /\ RttInv
=============================================================================
