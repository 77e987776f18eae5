------------------------------ MODULE JsBench ------------------------------
(***************************************************************************)
(* runBenchmark of the two Node.js clients (redisManager.js) with the      *)
(* updateCLI of metrics.js, which both share.                              *)
(*                                                                         *)
(* Node.js runs one callback at a time: a tick of updateCLI, the SIGINT    *)
(* handler, a message handler and the code between two awaits are atomic   *)
(* steps.  A routine's await, its timers and the awaits of runBenchmark    *)
(* are where others run in between.                                        *)
(*                                                                         *)
(* A routine is given at the level runBenchmark sees: it connects, works,  *)
(* notices isRunning and settles its promise.  Reconnecting inside the     *)
(* ioredis subscriber is the subject of module IoSubscriber.               *)
(***************************************************************************)
EXTENDS Integers, FiniteSets, Functions

CONSTANTS
    Routines,       \* the clients of a run
    Setups,         \* what a run may be: its client library, whether it talks
                    \* to a cluster, whether it publishes, to how many channels
                    \* (a publisher of none never yields), its message limit
                    \* and test time (0: not set)
    MeasureRTT,
    MaxMessages,    \* BOUND: messages counted in a run
    AgeCap          \* BOUND: ages of instants saturate here

ASSUME JsConstants ==
    /\ IsFiniteSet(Routines)
    /\ Setups \subseteq [library : {"ioredis", "node-redis"},
                         cluster : BOOLEAN, publishing : BOOLEAN,
                         channels : Nat \ {0},
                         messages : Nat, seconds : 0 .. AgeCap]
    /\ MeasureRTT \in BOOLEAN
    /\ MaxMessages \in Nat
    /\ AgeCap \in Nat

VARIABLES
    setup,          \* of this run; it never changes
    routine,        \* "starting", "working", "idle" (it failed to subscribe),
                    \* "settled"
    conn,           \* its connection: "closed", "open", "subscribed"
    left,           \* channels a publisher has left in its round
    totalMessages,
    accCount,       \* rttAccumulator.count
    histCount,      \* rttHistogram.totalCount
    shown,          \* HISTORY: round-trip times shown in a per-tick average
    prevMessageCount,
    sampled,        \* messages that the samples in messageRateTs account for
    sinceStart,     \* now - startTime
    sinceFirst,     \* HISTORY: time since the first message was counted
    isRunning,
    stoppedBy,      \* "none" until updateCLI's promise is resolved
    stopTotal,      \* HISTORY: totalMessages at that moment
    phase,          \* of runBenchmark: "cli", "waiting", "closing", "exited"
    result,         \* TotalMessages of the final results
    tracked,        \* RTTSummary.totalCount of the final results
    primary,        \* ioredis: the client the routines duplicate is open
    crashed         \* an unhandled rejection ended the process

routines == <<routine, conn, left>>
rtts == <<accCount, histCount, shown>>
samples == <<prevMessageCount, sampled>>
ages == <<sinceStart, sinceFirst>>
stop == <<isRunning, stoppedBy, stopTotal>>
bench == <<phase, result, tracked, primary, crashed>>
vars == <<setup, routine, conn, left, totalMessages, accCount, histCount,
          shown, prevMessageCount, sampled, sinceStart, sinceFirst, isRunning,
          stoppedBy, stopTotal, phase, result, tracked, primary, crashed>>

Library == setup.library
Publishing == setup.publishing      \* mode publish or spublish
ChannelCount == setup.channels
MessageLimit == setup.messages
TestTime == setup.seconds           \* in ticks

\* slotClientMap.get(slot) of a subscriber's first channel.  In cluster mode the
\* ioredis client never fills the map; node-redis makes a client per subscriber.
HasClient == Library = "ioredis" => ~setup.cluster

Alive == phase # "exited" /\ ~crashed
Older(age) == IF age < AgeCap THEN age + 1 ELSE age

-----------------------------------------------------------------------------
Init ==
    /\ setup \in Setups
    /\ routine = [r \in Routines |-> "starting"]
    /\ conn = [r \in Routines |->
                  IF Library = "ioredis" /\ (Publishing \/ HasClient)
                     THEN "open" ELSE "closed"]
    /\ left = [r \in Routines |-> 0]
    /\ totalMessages = 0
    /\ accCount = 0
    /\ histCount = 0
    /\ shown = 0
    /\ prevMessageCount = 0
    /\ sampled = 0
    /\ sinceStart = 0
    /\ sinceFirst = 0
    /\ isRunning = TRUE
    /\ stoppedBy = "none"
    /\ stopTotal = 0
    /\ phase = "cli"
    /\ result = 0
    /\ tracked = 0
    /\ primary = (Library = "ioredis")
    /\ crashed = FALSE

-----------------------------------------------------------------------------
(* The routines.                                                           *)

\* The connection is there and, for a subscriber, subscribed.
RoutineStarts(r) ==
    /\ Alive
    /\ routine[r] = "starting"
    /\ Publishing \/ HasClient
    /\ routine' = [routine EXCEPT ![r] = "working"]
    /\ conn' = [conn EXCEPT ![r] = IF Publishing THEN "open" ELSE "subscribed"]
    /\ UNCHANGED <<setup, left, totalMessages, rtts, samples, ages, stop,
                   bench>>

\* Connecting or subscribing fails, or there is no client to duplicate: the error
\* is logged and the routine goes on without messages.
SubscribeFails(r) ==
    /\ Alive
    /\ ~Publishing
    /\ routine[r] = "starting"
    /\ IF HasClient
          THEN \E c \in {conn[r], "open"} : conn' = [conn EXCEPT ![r] = c]
          ELSE UNCHANGED conn
    /\ routine' = [routine EXCEPT ![r] = "idle"]
    /\ UNCHANGED <<setup, left, totalMessages, rtts, samples, ages, stop,
                   bench>>

\* node-redis: the connect of a publisher is outside its try.  Its promise is
\* rejected, which nobody handles before runBenchmark awaits it.
PublisherConnectFails(r) ==
    /\ Alive
    /\ Publishing
    /\ Library = "node-redis"
    /\ routine[r] = "starting"
    /\ crashed' = TRUE
    /\ UNCHANGED <<setup, routines, totalMessages, rtts, samples, ages, stop,
                   phase, result, tracked, primary>>

\* A message may arrive: the connection is subscribed.
Delivers(r) ==
    /\ Alive
    /\ ~Publishing
    /\ conn[r] = "subscribed"
    /\ totalMessages < MaxMessages

\* handleMessage of the ioredis client.  The time of a usable stamp is recorded;
\* a stamp it cannot read or one from the future is skipped.  The message counts
\* in any case.
IoHandleMessage(r, usable) ==
    /\ Library = "ioredis"
    /\ Delivers(r)
    /\ totalMessages' = totalMessages + 1
    /\ IF MeasureRTT /\ usable
          THEN accCount' = accCount + 1 /\ histCount' = histCount + 1
          ELSE UNCHANGED <<accCount, histCount>>
    /\ UNCHANGED <<setup, routines, shown, samples, ages, stop, bench>>

\* handleMessage of the node-redis client.  It adds every time to the accumulator
\* and records it; recordValue throws on a negative time (and may on one that is
\* not a number), before the message is counted.  The rejection of the handler
\* is handled by nobody and ends the process.
NrHandleMessage(r, throws) ==
    /\ Library = "node-redis"
    /\ Delivers(r)
    /\ throws => MeasureRTT
    /\ accCount' = IF MeasureRTT THEN accCount + 1 ELSE accCount
    /\ IF throws
          THEN crashed' = TRUE /\ UNCHANGED <<histCount, totalMessages>>
          ELSE /\ histCount' = IF MeasureRTT THEN histCount + 1 ELSE histCount
               /\ totalMessages' = totalMessages + 1
               /\ UNCHANGED crashed
    /\ UNCHANGED <<setup, routines, shown, samples, ages, stop, phase, result,
                   tracked, primary>>

\* MUTANT: the loop of a publisher does not look at isRunning.
KeepsPublishingAlways == TRUE

KeepsPublishing == isRunning

\* while (isRunning): a publisher starts a round over its channels.
BeginRound(r) ==
    /\ Alive
    /\ Publishing
    /\ routine[r] = "working"
    /\ left[r] = 0
    /\ KeepsPublishing
    /\ left' = [left EXCEPT ![r] = ChannelCount]
    /\ UNCHANGED <<setup, routine, conn, totalMessages, rtts, samples, ages,
                   stop, bench>>

\* MUTANT: a publisher publishes past the end of its round.
MoreChannelsPastEnd(r) == TRUE

MoreChannels(r) == left[r] > 0

\* One awaited publish.  The round goes on when isRunning turned false, and only
\* a publish that succeeded is counted.
Publish(r, ok) ==
    /\ Alive
    /\ routine[r] = "working"
    /\ MoreChannels(r)
    /\ ok => totalMessages < MaxMessages
    /\ left' = [left EXCEPT ![r] = @ - 1]
    /\ totalMessages' = totalMessages + (IF ok THEN 1 ELSE 0)
    /\ UNCHANGED <<setup, routine, conn, rtts, samples, ages, stop, bench>>

\* The end of a publisher; the ioredis one disconnects its own connection.
PublisherSettles(r) ==
    /\ Alive
    /\ Publishing
    /\ routine[r] = "working"
    /\ left[r] = 0
    /\ ~isRunning
    /\ routine' = [routine EXCEPT ![r] = "settled"]
    /\ conn' = [conn EXCEPT ![r] = IF Library = "ioredis" THEN "closed" ELSE @]
    /\ UNCHANGED <<setup, left, totalMessages, rtts, samples, ages, stop,
                   bench>>

\* MUTANT: only a routine that did subscribe shuts down.
ShutsDownWorking == {"working"}

ShutsDown == {"working", "idle"}

\* ioredis: the 500 ms check sees isRunning = false and shuts down; when the
\* unsubscribe hangs, the 5 s timeout settles the promise with the connection
\* still open.
SubscriberShutdown(r, hangs) ==
    /\ Alive
    /\ ~Publishing
    /\ Library = "ioredis"
    /\ routine[r] \in ShutsDown
    /\ ~isRunning
    /\ hangs => conn[r] # "closed"
    /\ routine' = [routine EXCEPT ![r] = "settled"]
    /\ conn' = [conn EXCEPT ![r] = IF hangs THEN @ ELSE "closed"]
    /\ UNCHANGED <<setup, left, totalMessages, rtts, samples, ages, stop,
                   bench>>

\* node-redis: the routine ends as soon as its subscription was tried.
SubscriberReturns(r) ==
    /\ Alive
    /\ ~Publishing
    /\ Library = "node-redis"
    /\ routine[r] \in {"working", "idle"}
    /\ routine' = [routine EXCEPT ![r] = "settled"]
    /\ UNCHANGED <<setup, conn, left, totalMessages, rtts, samples, ages, stop,
                   bench>>

-----------------------------------------------------------------------------
(* updateCLI.                                                              *)

TimePasses ==
    /\ Alive
    /\ sinceStart' = Older(sinceStart)
    /\ sinceFirst' = IF totalMessages = 0 THEN 0 ELSE Older(sinceFirst)
    /\ UNCHANGED <<setup, routines, totalMessages, rtts, samples, stop, bench>>

\* MUTANT: startTime is never moved.
StartAgeNeverMoved == sinceStart

\* startTime moves to now in the first tick that sees a message.
StartAge ==
    IF prevMessageCount = 0 /\ totalMessages # 0 THEN 0 ELSE sinceStart

\* MUTANT: the rate forgets to subtract the previous count.
NewSinceStart == totalMessages

\* The numerator of messageRate.
NewMessages == totalMessages - prevMessageCount

\* Lines 72-85: a rate is pushed once there are messages.
SampleRate ==
    /\ sampled' = IF totalMessages # 0 THEN sampled + NewMessages ELSE sampled
    /\ prevMessageCount' = totalMessages

\* MUTANT: the accumulator is not reset after its average was printed.
AccumulatorKept == accCount

AccumulatorReset == 0

\* Lines 97-106: the average of the tick is shown and the accumulator reset.
ShowRtt ==
    IF MeasureRTT
       THEN shown' = shown + accCount /\ accCount' = AccumulatorReset
       ELSE UNCHANGED <<shown, accCount>>

LimitReached == MessageLimit > 0 /\ totalMessages >= MessageLimit

TimeReached == TestTime > 0 /\ StartAge >= TestTime /\ totalMessages # 0

\* shouldStop, lines 117-126.
StopIfDue ==
    IF LimitReached \/ TimeReached
       THEN /\ stoppedBy' = IF LimitReached THEN "limit" ELSE "time"
            /\ stopTotal' = totalMessages
            /\ isRunning' = FALSE
       ELSE UNCHANGED stop

\* One callback of setInterval.
Tick ==
    /\ Alive
    /\ stoppedBy = "none"
    /\ sinceStart' = StartAge
    /\ SampleRate
    /\ ShowRtt
    /\ StopIfDue
    /\ UNCHANGED <<setup, routines, totalMessages, histCount, sinceFirst,
                   bench>>

\* The SIGINT handler; once updateCLI is resolved it does nothing.
Sigint ==
    /\ Alive
    /\ stoppedBy = "none"
    /\ stoppedBy' = "sigint"
    /\ stopTotal' = totalMessages
    /\ isRunning' = FALSE
    /\ UNCHANGED <<setup, routines, totalMessages, rtts, samples, ages, bench>>

-----------------------------------------------------------------------------
(* runBenchmark after updateCLI.                                           *)

AwaitRoutines ==
    /\ Alive
    /\ phase = "cli"
    /\ stoppedBy # "none"
    /\ phase' = "waiting"
    /\ UNCHANGED <<setup, routines, totalMessages, rtts, samples, ages, stop,
                   result, tracked, primary, crashed>>

\* All promises are settled: the results are computed from the counter and the
\* histogram as they are now, over the duration that ended with updateCLI.
WriteFinalResults ==
    /\ Alive
    /\ phase = "waiting"
    /\ \A r \in Routines : routine[r] = "settled"
    /\ result' = totalMessages
    /\ tracked' = IF MeasureRTT /\ ~Publishing THEN histCount ELSE 0
    /\ phase' = "closing"
    /\ UNCHANGED <<setup, routines, totalMessages, rtts, samples, ages, stop,
                   primary, crashed>>

\* The finally block: ioredis quits the client it created.  The loop of the
\* node-redis client is bounded by argv.client, which no option defines, so it
\* quits none.  Then process.exit(0).
CloseAndExit ==
    /\ Alive
    /\ phase = "closing"
    /\ primary' = FALSE
    /\ phase' = "exited"
    /\ UNCHANGED <<setup, routines, totalMessages, rtts, samples, ages, stop,
                   result, tracked, crashed>>

-----------------------------------------------------------------------------
Settling(r) ==
    \/ PublisherSettles(r)
    \/ \E hangs \in BOOLEAN : SubscriberShutdown(r, hangs)
    \/ SubscriberReturns(r)

Starting(r) ==
    RoutineStarts(r) \/ SubscribeFails(r) \/ PublisherConnectFails(r)

Messages(r) ==
    \/ \E usable \in BOOLEAN : IoHandleMessage(r, usable)
    \/ \E throws \in BOOLEAN : NrHandleMessage(r, throws)
    \/ BeginRound(r)
    \/ \E ok \in BOOLEAN : Publish(r, ok)

Ending == AwaitRoutines \/ WriteFinalResults \/ CloseAndExit

Next ==
    \/ \E r \in Routines : Starting(r) \/ Messages(r) \/ Settling(r)
    \/ TimePasses
    \/ Tick
    \/ Sigint
    \/ Ending

Spec == Init /\ [][Next]_vars

\* Only the ioredis client sets a commandTimeout, and only for its connections:
\* the queue of a cluster client that is not connected has none.  node-redis is
\* given no timeout for commands, redis-timeout is only logged.
CommandsEnd == Library = "ioredis" /\ ~setup.cluster

\* The event loop serves every timer and every settled promise.  An await of
\* Redis ends, in success or error, where a timeout bounds it: a routine of the
\* ioredis client starts (its duplicate is made at once, and there is none to
\* subscribe in cluster mode), and commands end under CommandsEnd.  The
\* node-redis client quits nothing before it exits.
FairSpec ==
    /\ Spec
    /\ \A r \in Routines :
          /\ WF_vars(Library = "ioredis" /\ Starting(r))
          /\ WF_vars(CommandsEnd /\ \E ok \in BOOLEAN : Publish(r, ok))
          /\ WF_vars(Settling(r))
    /\ WF_vars(TimePasses)
    /\ WF_vars(Tick)
    /\ WF_vars(AwaitRoutines \/ WriteFinalResults)
    /\ WF_vars((CommandsEnd \/ Library = "node-redis") /\ CloseAndExit)

-----------------------------------------------------------------------------
(* Properties.                                                             *)

\* The type invariant.
TypeOK ==
    /\ setup \in Setups
    /\ routine \in [Routines -> {"starting", "working", "idle", "settled"}]
    /\ conn \in [Routines -> {"closed", "open", "subscribed"}]
    /\ left \in [Routines -> 0 .. ChannelCount]
    /\ {totalMessages, accCount, histCount, shown, prevMessageCount, sampled,
        stopTotal, result, tracked} \subseteq Nat
    /\ {sinceStart, sinceFirst} \subseteq 0 .. AgeCap
    /\ {isRunning, primary, crashed} \subseteq BOOLEAN
    /\ stoppedBy \in {"none", "limit", "time", "sigint"}
    /\ phase \in {"cli", "waiting", "closing", "exited"}

\* A run that stops by --test-time has lasted that long since its first message.
\* The Go client promises the same and does not keep it (TestTimeKept of
\* UpdateCLI); here the tick that sees the first message is one callback, so
\* startTime is always moved.
TestTimeKept == stoppedBy = "time" => sinceFirst >= TestTime

Reported == phase \in {"closing", "exited"}

\* The report is read after the routines were awaited, not when the run was
\* stopped: it covers everything counted by then, a run stopped by its limit
\* reports at least the limit, and publishers, who finish the round they are in,
\* add at most one message per channel of theirs.
ReportFollowsStop ==
    Reported =>
        /\ stopTotal <= result
        /\ stoppedBy = "limit" => MessageLimit <= result
        /\ Publishing =>
              result <= stopTotal + Cardinality(Routines) * ChannelCount

\* Every recorded round-trip time is in the average of exactly one tick or waits
\* for the next one, and none is recorded without its message being counted.  A
\* time that the node-redis client cannot record is left in the accumulator
\* alone, and the process does not outlive it: the figures of a node-redis report
\* agree, where those of the Go client may differ by a message in hand
\* (RttMatchesCount of PubSubBench).
RttAccounted ==
    /\ ~crashed => histCount = shown + accCount
    /\ histCount <= totalMessages
    /\ Reported /\ MeasureRTT /\ ~Publishing =>
          /\ tracked <= result
          /\ Library = "node-redis" => tracked = result

\* A routine awaits an answer of Redis: to connect or subscribe, or to a publish.
Unanswered(r) ==
    routine[r] = "starting" \/ (routine[r] = "working" /\ left[r] > 0)

\* Once the run is told to stop, by SIGINT, limit or time, every routine settles,
\* whether or not it ever subscribed: with timeouts on commands the run exits;
\* without, it reports unless it crashed or a routine is never answered, which
\* is all that Promise.all waits for.
StopCompletes ==
    /\ (~isRunning /\ CommandsEnd) ~> phase = "exited"
    /\ [](~isRunning =>
             <>(Reported \/ crashed) \/ <>[](\E r \in Routines : Unanswered(r)))

\* updateCLI of metrics.js keeps the promise of module Meter.
M == INSTANCE Meter WITH
        total <- totalMessages,
        stopped <- Reported

MeterSpec == M!Spec

-----------------------------------------------------------------------------
(* The inductive invariant behind these properties, by concern.            *)

\* isRunning turns false with the promise of updateCLI, and the report waits.
StopInv ==
    /\ isRunning <=> stoppedBy = "none"
    /\ phase # "cli" => stoppedBy # "none"
    /\ stoppedBy # "none" => stopTotal <= totalMessages
    /\ stoppedBy = "limit" => MessageLimit <= stopTotal

\* Once a tick has seen a message, startTime is not before it.
ClockInv ==
    /\ sampled <= prevMessageCount
    /\ prevMessageCount <= totalMessages
    /\ prevMessageCount # 0 => sinceStart <= sinceFirst
    /\ stoppedBy = "time" => totalMessages # 0
    /\ TestTimeKept

\* After the stop a publisher only works off its round.
RoundInv ==
    /\ ~Publishing => \A r \in Routines : left[r] = 0
    /\ Publishing /\ ~isRunning =>
          Reported \/ totalMessages + SumFunction(left)
                         <= stopTotal + Cardinality(Routines) * ChannelCount

\* A node-redis subscriber counts a message if and only if it records its time.
RttInv ==
    /\ RttAccounted
    /\ MeasureRTT /\ ~Publishing /\ Library = "node-redis" =>
          histCount = totalMessages

IInv == TypeOK /\ StopInv /\ ClockInv /\ RoundInv /\ RttInv /\ ReportFollowsStop
=============================================================================
