----------------------------- MODULE UpdateCLI -----------------------------
(***************************************************************************)
(* updateCLI of subscriber.go: the loop in main's goroutine that samples   *)
(* the message counter once per tick, collects round-trip times and        *)
(* decides when the benchmark is over.                                     *)
(*                                                                         *)
(* The counter totalMessages is incremented atomically by the worker       *)
(* goroutines but READ by this loop with plain loads, one per use: lines   *)
(* 720, 724, 728, 731, 735, 777 and the return statements.  Each load is a *)
(* step of its own here, so workers may count messages between any two of  *)
(* them.  Lines that only touch the loop's locals belong to the step of    *)
(* the load they follow.                                                   *)
(*                                                                         *)
(* Time is relative and saturates: sinceStart is time.Since(start) in      *)
(* units of the client-update-tick, capped at AgeCap >= TestTime, so that  *)
(* the comparison with the test duration is exact and ticks never run out. *)
(***************************************************************************)
EXTENDS Integers

CONSTANTS
    Options,        \* settings [messages, seconds] a run may have
    MeasureRTT,     \* --measure-rtt-latency
    RttCap,         \* capacity of rttLatencyChannel (100000 in main)
    MaxMessages,    \* BOUND: messages (and round-trip times) a run produces
    AgeCap          \* BOUND: ages of instants saturate here

\* Line 292 of main rejects a run that sets both limits.
CLIConstants ==
    /\ Options \subseteq [messages : Nat, seconds : 0 .. AgeCap]
    /\ \A o \in Options : o.messages = 0 \/ o.seconds = 0
    /\ MeasureRTT \in BOOLEAN
    /\ RttCap \in Nat
    /\ MaxMessages \in Nat
    /\ AgeCap \in Nat

ASSUME CLIConstants

VARIABLES
    opts,              \* the settings of this run; they never change
    totalMessages,     \* the global counter, shared with the workers
    rttQ,              \* number of values waiting in rttLatencyChannel
    tickC,             \* a tick waits in tick.C (capacity 1)
    sigC,              \* an interrupt waits in c (capacity 1)
    pc,                \* where the loop is
    delta,             \* numerator of messageRate in the current tick
    prevMessageCount,
    sampled,           \* messages that the samples of messageRateTs account for
    rttValues,         \* len(rttValues)
    tickRtt,           \* len(tickRttValues)
    averaged,          \* HISTORY: round-trip times shown in a printed average
    sinceStart,        \* time.Since(start)
    sinceFirst,        \* HISTORY: time since the first message was counted
    resets,            \* HISTORY: how often line 726 moved start
    stoppedBy,         \* which return statement was reached
    result             \* the total that was returned

shared == <<totalMessages, rttQ>>
rtts == <<rttValues, tickRtt, averaged>>
ages == <<sinceStart, sinceFirst, resets>>
vars == <<opts, totalMessages, rttQ, tickC, sigC, pc, delta, prevMessageCount,
          sampled, rttValues, tickRtt, averaged, sinceStart, sinceFirst,
          resets, stoppedBy, result>>

\* The steps of one tick, in the order of the code, between two selects.
TickSteps == {"first", "append", "prev", "testtime", "limit"}
Locations == {"select", "return", "done"} \cup TickSteps

MessageLimit == opts.messages   \* message_limit; 0: no limit
TestTime == opts.seconds        \* test_time in ticks; 0: not set

Older(age) == IF age < AgeCap THEN age + 1 ELSE age

-----------------------------------------------------------------------------
LoopInit ==
    /\ opts \in Options
    /\ tickC = FALSE
    /\ sigC = FALSE
    /\ pc = "select"
    /\ delta = 0
    /\ prevMessageCount = 0
    /\ sampled = 0
    /\ rttValues = 0
    /\ tickRtt = 0
    /\ averaged = 0
    /\ sinceStart = 0
    /\ sinceFirst = 0
    /\ resets = 0
    /\ stoppedBy = "none"
    /\ result = 0

Init ==
    /\ totalMessages = 0
    /\ rttQ = 0
    /\ LoopInit

-----------------------------------------------------------------------------
(* The environment of the loop: workers, the ticker, the user.             *)

\* A worker's atomic.AddUint64(&totalMessages, 1).
CountMessage ==
    /\ totalMessages < MaxMessages
    /\ totalMessages' = totalMessages + 1
    /\ UNCHANGED <<opts, rttQ, tickC, sigC, pc, delta, prevMessageCount,
                   sampled, rtts, ages, stoppedBy, result>>

\* A subscriber's send on rttLatencyChannel, which blocks while it is full.
SendRtt ==
    /\ MeasureRTT
    /\ rttQ < RttCap
    /\ rttValues + rttQ < MaxMessages
    /\ rttQ' = rttQ + 1
    /\ UNCHANGED <<opts, totalMessages, tickC, sigC, pc, delta,
                   prevMessageCount, sampled, rtts, ages, stoppedBy, result>>

\* One tick period passes; a tick that finds the channel full is dropped.
Elapse ==
    /\ tickC' = TRUE
    /\ sinceStart' = Older(sinceStart)
    /\ sinceFirst' = IF totalMessages = 0 THEN 0 ELSE Older(sinceFirst)
    /\ UNCHANGED <<opts, totalMessages, rttQ, sigC, pc, delta,
                   prevMessageCount, sampled, rtts, resets, stoppedBy, result>>

\* Ctrl-C: signal.Notify never blocks, a second signal finds the slot taken.
Interrupt ==
    /\ sigC' = TRUE
    /\ UNCHANGED <<opts, totalMessages, rttQ, tickC, pc, delta,
                   prevMessageCount, sampled, rtts, ages, stoppedBy, result>>

-----------------------------------------------------------------------------
(* The select statement.                                                   *)

\* MUTANT: the select receives from an empty channel.
RttReadyAlways == TRUE

\* MUTANT: the last value is left in the channel.
RttReadyLate == rttQ > 1

RttReady == rttQ > 0

ReceiveRtt ==
    /\ pc = "select"
    /\ RttReady
    /\ rttQ' = rttQ - 1
    /\ rttValues' = rttValues + 1
    /\ tickRtt' = tickRtt + 1
    /\ UNCHANGED <<opts, totalMessages, tickC, sigC, pc, delta,
                   prevMessageCount, sampled, averaged, ages, stoppedBy,
                   result>>

\* MUTANT: the rate forgets to subtract the previous count.
NewSinceStart == totalMessages

\* MUTANT: the operands are swapped.
NewReversed == prevMessageCount - totalMessages

\* The numerator of messageRate, from the load of line 720.
NewMessages == totalMessages - prevMessageCount

BeginTick ==
    /\ pc = "select"
    /\ tickC
    /\ tickC' = FALSE
    /\ delta' = NewMessages
    /\ pc' = "first"
    /\ UNCHANGED <<opts, totalMessages, rttQ, sigC, prevMessageCount, sampled,
                   rtts, ages, stoppedBy, result>>

Interrupted ==
    /\ pc = "select"
    /\ sigC
    /\ sigC' = FALSE
    /\ stoppedBy' = "signal"
    /\ pc' = "return"
    /\ UNCHANGED <<opts, totalMessages, rttQ, tickC, delta, prevMessageCount,
                   sampled, rtts, ages, result>>

-----------------------------------------------------------------------------
(* One tick.                                                               *)

\* MUTANT: every tick with messages resets the start time.
SeesMessages == totalMessages # 0

SeesFirstMessage == prevMessageCount = 0 /\ totalMessages # 0

\* "Reset start time when first message arrives"
ResetStart ==
    /\ pc = "first"
    /\ IF SeesFirstMessage
          THEN sinceStart' = 0 /\ resets' = resets + 1
          ELSE UNCHANGED <<sinceStart, resets>>
    /\ pc' = "append"
    /\ UNCHANGED <<opts, totalMessages, rttQ, tickC, sigC, delta,
                   prevMessageCount, sampled, rtts, sinceFirst, stoppedBy,
                   result>>

AppendRate ==
    /\ pc = "append"
    /\ sampled' = IF totalMessages # 0 THEN sampled + delta ELSE sampled
    /\ pc' = "prev"
    /\ UNCHANGED <<opts, totalMessages, rttQ, tickC, sigC, delta,
                   prevMessageCount, rtts, ages, stoppedBy, result>>

SavePrev ==
    /\ pc = "prev"
    /\ prevMessageCount' = totalMessages
    /\ pc' = "testtime"
    /\ UNCHANGED <<opts, totalMessages, rttQ, tickC, sigC, delta, sampled,
                   rtts, ages, stoppedBy, result>>

TestTimeReached ==
    TestTime > 0 /\ totalMessages # 0 /\ sinceStart >= TestTime

CheckTestTime ==
    /\ pc = "testtime"
    /\ IF TestTimeReached
          THEN stoppedBy' = "time" /\ pc' = "return"
          ELSE pc' = "limit" /\ UNCHANGED stoppedBy
    /\ UNCHANGED <<opts, totalMessages, rttQ, tickC, sigC, delta,
                   prevMessageCount, sampled, rtts, ages, result>>

\* MUTANT: one message too early.
LimitReachedEarly == MessageLimit > 0 /\ totalMessages + 1 >= MessageLimit

\* MUTANT: compared for equality.
LimitReachedExactly == MessageLimit > 0 /\ totalMessages = MessageLimit

LimitReached == MessageLimit > 0 /\ totalMessages >= MessageLimit

\* The metrics line averages the round-trip times of this tick, then the
\* message limit is tested.
PrintAndCheckLimit ==
    /\ pc = "limit"
    /\ IF MeasureRTT
          THEN averaged' = averaged + tickRtt /\ tickRtt' = 0
          ELSE UNCHANGED <<averaged, tickRtt>>
    /\ IF LimitReached
          THEN stoppedBy' = "limit" /\ pc' = "return"
          ELSE pc' = "select" /\ UNCHANGED stoppedBy
    /\ UNCHANGED <<opts, totalMessages, rttQ, tickC, sigC, delta,
                   prevMessageCount, sampled, rttValues, ages, result>>

\* The three return statements load totalMessages once more.
Return ==
    /\ pc = "return"
    /\ result' = totalMessages
    /\ pc' = "done"
    /\ UNCHANGED <<opts, totalMessages, rttQ, tickC, sigC, delta,
                   prevMessageCount, sampled, rtts, ages, stoppedBy>>

-----------------------------------------------------------------------------
TickStep ==
    ResetStart \/ AppendRate \/ SavePrev \/ CheckTestTime \/ PrintAndCheckLimit

Loop == ReceiveRtt \/ BeginTick \/ Interrupted \/ TickStep \/ Return

Environment == CountMessage \/ SendRtt \/ Elapse \/ Interrupt

Next == Loop \/ Environment

Spec == Init /\ [][Next]_vars

\* The goroutine runs (WF); select chooses uniformly among the ready cases, so
\* a case that is ready at infinitely many selects is taken (SF); the ticker
\* keeps firing.  Nothing obliges a message, a signal or a send to happen.
LoopFairness ==
    /\ WF_vars(TickStep)
    /\ WF_vars(Return)
    /\ SF_vars(BeginTick)
    /\ SF_vars(Interrupted)
    /\ SF_vars(ReceiveRtt)

FairSpec == Spec /\ LoopFairness /\ WF_vars(Elapse)

-----------------------------------------------------------------------------
(* Properties.                                                             *)

\* The type invariant.
TypeOK ==
    /\ opts \in Options
    /\ totalMessages \in Nat
    /\ rttQ \in 0 .. RttCap
    /\ tickC \in BOOLEAN
    /\ sigC \in BOOLEAN
    /\ pc \in Locations
    /\ delta \in Nat
    /\ prevMessageCount \in Nat
    /\ sampled \in Nat
    /\ rttValues \in Nat
    /\ tickRtt \in Nat
    /\ averaged \in Nat
    /\ sinceStart \in 0 .. AgeCap
    /\ sinceFirst \in 0 .. AgeCap
    /\ resets \in Nat
    /\ stoppedBy \in {"none", "time", "limit", "signal"}
    /\ result \in Nat

\* Between ticks the rate samples account for at most prevMessageCount messages,
\* and the unsigned difference of line 720 never wraps.
RatesNeverOvercount ==
    /\ prevMessageCount <= totalMessages
    /\ pc = "select" => sampled <= prevMessageCount
    /\ pc = "done" => sampled <= result /\ result <= totalMessages

\* Every round-trip time that left the channel is in the average of exactly one
\* metrics line or waits for the next one.
RttShownOnce == averaged + tickRtt = rttValues

\* No message and no round-trip time is attributed to two metrics lines, although
\* the loop loads the counter several times per tick while workers increment it
\* and truncates tickRttValues in place (lines 717-733, 759-768).
MetricsNeverOvercount == RatesNeverOvercount /\ RttShownOnce

\* The timer of --test-time is restarted at most once, then never runs ahead of
\* the first message, and a run it stops has lasted that long since the first
\* message (lines 723-727, 735-748): no order of the loads, of the workers' adds
\* and of the ticks restarts it late.
TestTimeKeptAfterReset ==
    /\ resets <= 1
    /\ resets = 1 => /\ sinceStart <= sinceFirst
                     /\ stoppedBy = "time" => sinceFirst >= TestTime

\* What the flag's help text promises (line 263: "Number of seconds to run the
\* test, after receiving the first message"), with no proviso about the reset.
TestTimeKept ==
    stoppedBy = "time" => sinceFirst >= TestTime

\* A run that stopped by its message limit reports at least that many messages,
\* although the reported figure is another load than the one that was tested.
LimitReported ==
    stoppedBy = "limit" /\ pc = "done" => result >= MessageLimit

\* Every reason to stop ends the loop, however the ticks, the round-trip times
\* and the interrupt compete in the select: a signal in channel c, a counter that
\* jumped past the limit between two ticks, a test time that runs out.
StopsWhenDue ==
    \/ sigC
    \/ MessageLimit > 0 /\ totalMessages >= MessageLimit
    \/ TestTime > 0 /\ totalMessages > 0
    ~> pc = "done"

-----------------------------------------------------------------------------
(* The inductive invariant behind the safety properties, by concern.       *)

\* delta is what was counted since the last tick, and it reaches the samples
\* before prevMessageCount moves on.
SampleInv ==
    /\ prevMessageCount <= totalMessages
    /\ pc \in {"first", "append"} =>
          /\ prevMessageCount + delta <= totalMessages
          /\ sampled <= prevMessageCount
    /\ pc = "prev" => sampled <= totalMessages
    /\ pc \in {"select", "testtime", "limit", "return"} =>
          sampled <= prevMessageCount
    /\ pc = "done" => sampled <= result /\ result <= totalMessages

\* A reset that happened leaves its trace in prevMessageCount by the end of the
\* tick, which is what rules out a second one.
TimerInv ==
    /\ resets <= 1
    /\ resets = 1 =>
          /\ totalMessages # 0
          /\ sinceStart <= sinceFirst
          /\ prevMessageCount # 0 \/ pc \in {"append", "prev"}

\* Why the loop stopped stays true until it is reported.
StopInv ==
    /\ (stoppedBy # "none") <=> (pc \in {"return", "done"})
    /\ stoppedBy = "time" => sinceStart >= TestTime
    /\ stoppedBy = "limit" => totalMessages >= MessageLimit
    /\ LimitReported

IInv == TypeOK /\ SampleInv /\ TimerInv /\ StopInv /\ RttShownOnce

-----------------------------------------------------------------------------
\* The loop keeps the promise of module Meter.
M == INSTANCE Meter WITH
        total <- totalMessages,
        stopped <- (pc = "done")

\* Refinement: what updateCLI samples and returns is what a meter may show.
MeterSpec == M!Spec
=============================================================================
