---------------------------- MODULE JsBenchProofs ----------------------------
(***************************************************************************)
(* Proofs about runBenchmark of the Node.js clients, for any number of     *)
(* clients, any settings and any bound: the time and message limits are    *)
(* kept, the report follows the stop, round-trip times are accounted, and  *)
(* updateCLI of metrics.js implements the abstract meter.                  *)
(***************************************************************************)
EXTENDS JsBench, SumTheorems

\* What the settings of a run are.
LEMMA SetupFacts ==
    ASSUME setup \in Setups
    PROVE  /\ Publishing \in BOOLEAN
           /\ ChannelCount \in Nat \ {0}
           /\ MessageLimit \in Nat
           /\ TestTime \in 0 .. AgeCap
           /\ AgeCap \in Nat
BY JsConstants DEF Publishing, ChannelCount, MessageLimit, TestTime

\* The settings never change.
LEMMA SetupKept ==
    ASSUME [Next]_vars
    PROVE  /\ setup' = setup
           /\ Publishing' = Publishing /\ ChannelCount' = ChannelCount
           /\ MessageLimit' = MessageLimit /\ TestTime' = TestTime
           /\ Library' = Library
<1>1. setup' = setup
  BY DEF Next, Starting, RoutineStarts, SubscribeFails, PublisherConnectFails,
         Messages, IoHandleMessage, NrHandleMessage, BeginRound, Publish,
         Settling,
         PublisherSettles, SubscriberShutdown, SubscriberReturns, TimePasses,
         Tick, Sigint, Ending, AwaitRoutines, WriteFinalResults, CloseAndExit,
         vars
<1> QED
  BY <1>1 DEF Publishing, ChannelCount, MessageLimit, TestTime, Library

\* Older moves an age by at most one tick, in order and within the cap.
LEMMA OlderFacts ==
    ASSUME NEW a \in 0 .. AgeCap, NEW b \in 0 .. AgeCap, AgeCap \in Nat
    PROVE  /\ Older(a) \in 0 .. AgeCap
           /\ a <= Older(a)
           /\ a <= b => Older(a) <= Older(b)
BY DEF Older

\* handleMessage of either client.
HandleMessage(r) ==
    \/ \E usable \in BOOLEAN : IoHandleMessage(r, usable)
    \/ \E throws \in BOOLEAN : NrHandleMessage(r, throws)

\* What handleMessage does to the counter, and what it leaves alone.
LEMMA HandleFrame ==
    ASSUME NEW r \in Routines, HandleMessage(r), totalMessages \in Nat
    PROVE  /\ ~Publishing
           /\ totalMessages' \in {totalMessages, totalMessages + 1}
           /\ UNCHANGED <<routines, shown, samples, ages, stop, phase, result,
                          tracked, primary>>
BY DEF HandleMessage, IoHandleMessage, NrHandleMessage, Delivers, bench

\* The routines are all that changes.
RoutineStep ==
    \E r \in Routines : Starting(r) \/ BeginRound(r) \/ Settling(r)

\* What the steps of the routines leave alone.
LEMMA RoutineFrame ==
    ASSUME RoutineStep
    PROVE  /\ ~crashed
           /\ UNCHANGED <<totalMessages, rtts, samples, ages, stop, phase,
                          result, tracked>>
BY DEF RoutineStep, Alive, Starting, RoutineStarts, SubscribeFails,
       PublisherConnectFails, BeginRound, Settling, PublisherSettles,
       SubscriberShutdown, SubscriberReturns, stop, bench, rtts, samples, ages

\* A step by its kind.
LEMMA NextCases ==
    ASSUME [Next]_vars
    PROVE  \/ RoutineStep
           \/ \E r \in Routines : HandleMessage(r)
           \/ \E r \in Routines, ok \in BOOLEAN : Publish(r, ok)
           \/ TimePasses \/ Tick \/ Sigint
           \/ AwaitRoutines \/ WriteFinalResults \/ CloseAndExit
           \/ UNCHANGED vars
BY DEF Next, Messages, Ending, RoutineStep, HandleMessage

-----------------------------------------------------------------------------
LEMMA InitIInv == Init => IInv
<1> SUFFICES ASSUME Init PROVE IInv
  OBVIOUS
<1> USE DEF Init
<1>1. /\ Publishing \in BOOLEAN /\ ChannelCount \in Nat
      /\ MessageLimit \in Nat /\ AgeCap \in Nat
  BY SetupFacts
<1>2. TypeOK
  <2>1. {isRunning, primary, crashed} \subseteq BOOLEAN
    <3>1. primary \in BOOLEAN
      BY Zenon
    <3> QED
      BY <3>1
  <2> QED
    BY <1>1, <2>1 DEF TypeOK
<1>3. StopInv
  BY DEF StopInv
<1>4. ClockInv
  BY DEF ClockInv, TestTimeKept
<1>5. RoundInv
  BY DEF RoundInv
<1>6. RttInv /\ ReportFollowsStop
  BY DEF RttInv, RttAccounted, ReportFollowsStop, Reported
<1> QED
  BY <1>2, <1>3, <1>4, <1>5, <1>6 DEF IInv

LEMMA TypeStep == IInv /\ [Next]_vars => TypeOK'
<1> SUFFICES ASSUME IInv, [Next]_vars PROVE TypeOK'
  OBVIOUS
<1>1. TypeOK /\ ClockInv
  BY DEF IInv
<1>2. /\ ChannelCount \in Nat /\ ChannelCount' = ChannelCount
      /\ setup' = setup /\ AgeCap \in Nat
  BY <1>1, SetupFacts, SetupKept DEF TypeOK
<1> USE <1>1, <1>2 DEF TypeOK
<1>3. ASSUME NEW r \in Routines, Starting(r) PROVE TypeOK'
  BY <1>3 DEF Starting, RoutineStarts, SubscribeFails, PublisherConnectFails,
              routines, rtts, samples, ages, stop, bench
<1>4. ASSUME NEW r \in Routines, HandleMessage(r)
      PROVE  TypeOK'
  <2>1. accCount' \in {accCount, accCount + 1}
    BY <1>4 DEF HandleMessage, IoHandleMessage, NrHandleMessage
  <2>2. histCount' \in {histCount, histCount + 1}
    BY <1>4 DEF HandleMessage, IoHandleMessage, NrHandleMessage
  <2>3. crashed' = crashed \/ crashed' = TRUE
    BY <1>4 DEF HandleMessage, IoHandleMessage, NrHandleMessage, bench
  <2>4. crashed' \in BOOLEAN
    BY <2>3, Zenon
  <2>5. totalMessages' \in Nat
    BY <1>4, HandleFrame
  <2>6. UNCHANGED <<routines, shown, samples, ages, stop, phase, result,
                    tracked, primary>>
    BY <1>4, HandleFrame
  <2> QED
    BY <2>1, <2>2, <2>4, <2>5, <2>6 DEF routines, samples, ages, stop
<1>5. ASSUME NEW r \in Routines, BeginRound(r) PROVE TypeOK'
  BY <1>5 DEF BeginRound, rtts, samples, ages, stop, bench
<1>6. ASSUME NEW r \in Routines, NEW ok \in BOOLEAN, Publish(r, ok)
      PROVE  TypeOK'
  <2>1. left' \in [Routines -> 0 .. ChannelCount]
    BY <1>6 DEF Publish, MoreChannels
  <2>2. totalMessages' \in Nat
    BY <1>6 DEF Publish
  <2> QED
    BY <1>6, <2>1, <2>2 DEF Publish, rtts, samples, ages, stop, bench
<1>7. ASSUME NEW r \in Routines, Settling(r) PROVE TypeOK'
  BY <1>7 DEF Settling, PublisherSettles, SubscriberShutdown,
              SubscriberReturns, rtts, samples, ages, stop, bench
<1>8. CASE TimePasses
  <2>1. Older(sinceStart) \in 0 .. AgeCap /\ Older(sinceFirst) \in 0 .. AgeCap
    BY OlderFacts
  <2> QED
    BY <1>8, <2>1 DEF TimePasses, routines, rtts, samples, stop, bench
<1>9. CASE Tick
  <2>1. sampled' \in Nat /\ prevMessageCount' \in Nat
    BY <1>9 DEF Tick, SampleRate, NewMessages, ClockInv
  <2>2. shown' \in Nat /\ accCount' \in Nat
    BY <1>9 DEF Tick, ShowRtt, AccumulatorReset
  <2>3. /\ stopTotal' \in Nat /\ isRunning' \in BOOLEAN
        /\ stoppedBy' \in {"none", "limit", "time", "sigint"}
    BY <1>9 DEF Tick, StopIfDue, stop
  <2>4. sinceStart' \in 0 .. AgeCap
    BY <1>9 DEF Tick, StartAge
  <2> QED
    BY <1>9, <2>1, <2>2, <2>3, <2>4 DEF Tick, routines, bench
<1>10. CASE Sigint
  BY <1>10 DEF Sigint, routines, rtts, samples, ages, bench
<1>11. CASE AwaitRoutines \/ WriteFinalResults \/ CloseAndExit
  <2>1. CASE AwaitRoutines
    BY <2>1 DEF AwaitRoutines, routines, rtts, samples, ages, stop
  <2>2. CASE WriteFinalResults
    <3>1. result' \in Nat /\ tracked' \in Nat
      BY <2>2 DEF WriteFinalResults
    <3> QED
      BY <2>2, <3>1
         DEF WriteFinalResults, routines, rtts, samples, ages, stop
  <2>3. CASE CloseAndExit
    BY <2>3 DEF CloseAndExit, routines, rtts, samples, ages, stop
  <2> QED
    BY <1>11, <2>1, <2>2, <2>3
<1>12. CASE UNCHANGED vars
  BY <1>12 DEF vars
<1> QED
  BY <1>3, <1>4, <1>5, <1>6, <1>7, <1>8, <1>9, <1>10, <1>11, <1>12
     DEF Next, Messages, Ending, HandleMessage

\* The promise of updateCLI is resolved once; messages are only added after.
LEMMA StopStep == IInv /\ [Next]_vars => StopInv'
<1> SUFFICES ASSUME IInv, [Next]_vars PROVE StopInv'
  OBVIOUS
<1>1. /\ totalMessages \in Nat /\ stopTotal \in Nat /\ MessageLimit \in Nat
      /\ MessageLimit' = MessageLimit
      /\ StopInv
  BY SetupFacts, SetupKept DEF IInv, TypeOK
<1> USE <1>1 DEF StopInv
<1>2. CASE RoutineStep
  BY <1>2, RoutineFrame DEF stop
<1>3. ASSUME NEW r \in Routines, HandleMessage(r)
      PROVE  StopInv'
  BY <1>3, HandleFrame DEF stop
<1>4. ASSUME NEW r \in Routines, NEW ok \in BOOLEAN, Publish(r, ok)
      PROVE  StopInv'
  <2>1. totalMessages' \in Nat /\ totalMessages <= totalMessages'
    BY <1>4 DEF Publish
  <2> QED
    BY <1>4, <2>1 DEF Publish, stop, bench
<1>5. CASE TimePasses
  BY <1>5 DEF TimePasses, stop, bench
<1>6. CASE Tick
  <2>1. /\ stoppedBy = "none" /\ totalMessages' = totalMessages /\ phase' = phase
    BY <1>6 DEF Tick, bench
  <2>2. CASE LimitReached \/ TimeReached
    <3>1. /\ stoppedBy' = IF LimitReached THEN "limit" ELSE "time"
          /\ stopTotal' = totalMessages /\ isRunning' = FALSE
      BY <1>6, <2>2 DEF Tick, StopIfDue
    <3> QED
      BY <2>1, <3>1 DEF LimitReached
  <2>3. CASE ~(LimitReached \/ TimeReached)
    BY <1>6, <2>1, <2>3 DEF Tick, StopIfDue, stop
  <2> QED
    BY <2>2, <2>3
<1>7. CASE Sigint
  BY <1>7 DEF Sigint, bench
<1>8. CASE AwaitRoutines \/ WriteFinalResults \/ CloseAndExit
  BY <1>8 DEF AwaitRoutines, WriteFinalResults, CloseAndExit, stop
<1>9. CASE UNCHANGED vars
  BY <1>9 DEF vars
<1> QED
  BY <1>2, <1>3, <1>4, <1>5, <1>6, <1>7, <1>8, <1>9, NextCases

\* The tick that sees the first message moves startTime in the same callback, so
\* that the test time is never measured from before that message.
LEMMA ClockStep == IInv /\ [Next]_vars => ClockInv'
<1> SUFFICES ASSUME IInv, [Next]_vars PROVE ClockInv'
  OBVIOUS
<1>1. /\ totalMessages \in Nat /\ prevMessageCount \in Nat /\ sampled \in Nat
      /\ sinceStart \in 0 .. AgeCap /\ sinceFirst \in 0 .. AgeCap
      /\ TestTime \in 0 .. AgeCap /\ AgeCap \in Nat
      /\ TestTime' = TestTime
      /\ ClockInv
  BY SetupFacts, SetupKept DEF IInv, TypeOK
<1> USE <1>1 DEF ClockInv, TestTimeKept
<1>2. CASE RoutineStep
  BY <1>2, RoutineFrame DEF stop, samples, ages
<1>3. ASSUME NEW r \in Routines, HandleMessage(r)
      PROVE  ClockInv'
  BY <1>3, HandleFrame DEF stop, samples, ages
<1>4. ASSUME NEW r \in Routines, NEW ok \in BOOLEAN, Publish(r, ok)
      PROVE  ClockInv'
  <2>1. totalMessages' \in Nat /\ totalMessages <= totalMessages'
    BY <1>4 DEF Publish
  <2> QED
    BY <1>4, <2>1 DEF Publish, stop, samples, ages
<1>5. CASE TimePasses
  <2>1. /\ sinceFirst <= Older(sinceFirst)
        /\ sinceStart <= sinceFirst => Older(sinceStart) <= Older(sinceFirst)
        /\ Older(sinceFirst) \in 0 .. AgeCap
    BY OlderFacts
  <2>2. /\ UNCHANGED <<totalMessages, samples, stop>>
        /\ sinceStart' = Older(sinceStart)
        /\ totalMessages # 0 => sinceFirst' = Older(sinceFirst)
    BY <1>5 DEF TimePasses
  <2>3. prevMessageCount' # 0 => sinceStart' <= sinceFirst'
    BY <2>1, <2>2 DEF samples
  <2>4. TestTimeKept'
    BY <2>1, <2>2 DEF stop
  <2> QED
    BY <2>2, <2>3, <2>4 DEF samples, stop
<1>6. CASE Tick
  <2>1. /\ totalMessages' = totalMessages /\ sinceFirst' = sinceFirst
        /\ sinceStart' = StartAge
        /\ prevMessageCount' = totalMessages
        /\ sampled' = IF totalMessages # 0
                         THEN sampled + (totalMessages - prevMessageCount)
                         ELSE sampled
        /\ stoppedBy = "none"
    BY <1>6 DEF Tick, SampleRate, NewMessages
  <2>2. totalMessages # 0 => StartAge <= sinceFirst
    BY DEF StartAge
  <2>3. stoppedBy' = "time" =>
           TestTime > 0 /\ StartAge >= TestTime /\ totalMessages # 0
    BY <1>6, <2>1 DEF Tick, StopIfDue, TimeReached, stop
  <2>4. StartAge \in 0 .. AgeCap
    BY DEF StartAge
  <2>5. stoppedBy' = "time" => sinceFirst >= TestTime
    BY <2>2, <2>3, <2>4
  <2> QED
    BY <2>1, <2>2, <2>3, <2>5
<1>7. CASE Sigint
  BY <1>7 DEF Sigint, samples, ages
<1>8. CASE AwaitRoutines \/ WriteFinalResults \/ CloseAndExit
  BY <1>8 DEF AwaitRoutines, WriteFinalResults, CloseAndExit, samples, ages,
              stop
<1>9. CASE UNCHANGED vars
  BY <1>9 DEF vars
<1> QED
  BY <1>2, <1>3, <1>4, <1>5, <1>6, <1>7, <1>8, <1>9, NextCases

\* What a stopped run still adds to the counter was in a publisher's round.
LEMMA RoundStep == IInv /\ [Next]_vars => RoundInv'
<1> SUFFICES ASSUME IInv, [Next]_vars PROVE RoundInv'
  OBVIOUS
<1>1. /\ totalMessages \in Nat /\ stopTotal \in Nat
      /\ left \in [Routines -> 0 .. ChannelCount]
      /\ left \in [Routines -> Nat]
      /\ ChannelCount \in Nat
      /\ ChannelCount' = ChannelCount /\ Publishing' = Publishing
      /\ StopInv /\ RoundInv
  BY SetupFacts, SetupKept DEF IInv, TypeOK
<1>2. /\ IsFiniteSet(Routines)
      /\ SumFunction(left) \in Nat
      /\ SumFunction(left) <= Cardinality(Routines) * ChannelCount
      /\ Cardinality(Routines) * ChannelCount \in Nat
  <2>1. IsFiniteSet(Routines) /\ Cardinality(Routines) \in Nat
    BY JsConstants, FS_CardinalityType
  <2> QED
    BY <1>1, <2>1, SumType, SumBound
\* The rounds and the counter are left alone, and the run was stopped or not.
<1>3. ASSUME left' = left, UNCHANGED <<totalMessages, isRunning, stopTotal>>,
             Reported => Reported'
      PROVE  RoundInv'
  BY <1>1, <1>3 DEF RoundInv
<1>4. ASSUME NEW r \in Routines, Starting(r) PROVE RoundInv'
  BY <1>3, <1>4 DEF Starting, RoutineStarts, SubscribeFails,
                    PublisherConnectFails, routines, stop, bench, Reported
<1>5. ASSUME NEW r \in Routines, BeginRound(r) PROVE RoundInv'
  BY <1>1, <1>5 DEF BeginRound, KeepsPublishing, stop, RoundInv
<1>6. ASSUME NEW r \in Routines, Settling(r) PROVE RoundInv'
  BY <1>3, <1>6 DEF Settling, PublisherSettles, SubscriberShutdown,
                    SubscriberReturns, stop, bench, Reported
<1>7. ASSUME NEW r \in Routines, HandleMessage(r)
      PROVE  RoundInv'
  BY <1>1, <1>7, HandleFrame DEF routines, RoundInv
<1>8. ASSUME NEW r \in Routines, NEW ok \in BOOLEAN, Publish(r, ok)
      PROVE  RoundInv'
  <2>1. /\ left[r] > 0 /\ left[r] \in Nat /\ left' = [left EXCEPT ![r] = @ - 1]
        /\ totalMessages' \in Nat /\ totalMessages' <= totalMessages + 1
        /\ UNCHANGED <<isRunning, stopTotal, phase>>
    BY <1>1, <1>8 DEF Publish, MoreChannels, stop, bench
  <2>2. Publishing
    BY <1>1, <2>1 DEF RoundInv
  <2>3. /\ left' \in [Routines -> Nat]
        /\ \A q \in Routines \ {r} : left'[q] = left[q]
        /\ left'[r] = left[r] - 1
    BY <1>1, <2>1
  <2>4. SumFunction(left') = SumFunction(left) - left[r] + left'[r]
    BY <1>1, <1>2, <2>3, SumExcept
  <2>5. SumFunction(left') = SumFunction(left) - 1
    BY <1>2, <2>1, <2>3, <2>4
  <2>6. totalMessages' + SumFunction(left') <= totalMessages + SumFunction(left)
    BY <1>1, <1>2, <2>1, <2>5
  <2>7. totalMessages' + SumFunction(left') \in Int
    BY <1>2, <2>1, <2>5
  <2>8. \A m \in Int, n \in Int, b \in Int : m <= n /\ n <= b => m <= b
    OBVIOUS
  <2>9. Publishing /\ ~isRunning' =>
          Reported' \/ totalMessages' + SumFunction(left')
                          <= stopTotal' + Cardinality(Routines) * ChannelCount'
    BY <1>1, <1>2, <2>1, <2>6, <2>7, <2>8 DEF RoundInv, Reported
  <2> QED
    BY <1>1, <2>2, <2>9 DEF RoundInv
<1>9. CASE TimePasses
  BY <1>3, <1>9 DEF TimePasses, routines, stop, bench, Reported
<1>10. CASE Tick \/ Sigint
  <2>1. left' = left /\ totalMessages' = totalMessages /\ phase' = phase
    BY <1>10 DEF Tick, Sigint, routines, bench
  <2>2. \/ isRunning' = isRunning /\ stopTotal' = stopTotal
        \/ isRunning' = FALSE /\ stopTotal' = totalMessages
    BY <1>10 DEF Tick, Sigint, StopIfDue, stop
  <2>3. CASE isRunning' = isRunning /\ stopTotal' = stopTotal
    BY <1>3, <2>1, <2>3 DEF Reported
  <2>4. CASE isRunning' = FALSE /\ stopTotal' = totalMessages
    BY <1>1, <1>2, <2>1, <2>4 DEF RoundInv
  <2> QED
    BY <2>2, <2>3, <2>4
<1>11. CASE AwaitRoutines
  BY <1>3, <1>11 DEF AwaitRoutines, routines, stop, Reported
<1>12. CASE WriteFinalResults \/ CloseAndExit
  BY <1>3, <1>12
     DEF WriteFinalResults, CloseAndExit, routines, stop, Reported
<1>13. CASE UNCHANGED vars
  BY <1>3, <1>13 DEF vars, Reported
<1> QED
  BY <1>4, <1>5, <1>6, <1>7, <1>8, <1>9, <1>10, <1>11, <1>12, <1>13
     DEF Next, Messages, Ending, HandleMessage

\* A round-trip time moves from the accumulator to one printed average.
LEMMA RttStep == IInv /\ [Next]_vars => RttInv'
<1> SUFFICES ASSUME IInv, [Next]_vars PROVE RttInv'
  OBVIOUS
<1>1. /\ totalMessages \in Nat /\ accCount \in Nat /\ histCount \in Nat
      /\ shown \in Nat /\ result \in Nat /\ tracked \in Nat
      /\ Publishing' = Publishing /\ Library' = Library
      /\ RttInv /\ RoundInv
  BY SetupKept DEF IInv, TypeOK
<1> USE <1>1 DEF RttInv, RttAccounted, Reported
<1>2. CASE RoutineStep
  BY <1>2, RoutineFrame DEF rtts
<1>3. ASSUME NEW r \in Routines, HandleMessage(r)
      PROVE  RttInv'
  <2>1. ASSUME NEW usable \in BOOLEAN, IoHandleMessage(r, usable)
        PROVE  RttInv'
    BY <2>1 DEF IoHandleMessage, Delivers, bench
  <2>2. ASSUME NEW throws \in BOOLEAN, NrHandleMessage(r, throws)
        PROVE  RttInv'
    <3>1. ~crashed /\ Library = "node-redis" /\ ~Publishing
      BY <2>2 DEF NrHandleMessage, Delivers, Alive
    <3>2. UNCHANGED <<shown, phase, result, tracked>>
      BY <2>2 DEF NrHandleMessage
    <3>3. CASE throws
      BY <2>2, <3>1, <3>2, <3>3 DEF NrHandleMessage
    <3>4. CASE ~throws
      BY <2>2, <3>1, <3>2, <3>4 DEF NrHandleMessage
    <3> QED
      BY <3>3, <3>4
  <2> QED
    BY <1>3, <2>1, <2>2 DEF HandleMessage
<1>4. ASSUME NEW r \in Routines, NEW ok \in BOOLEAN, Publish(r, ok)
      PROVE  RttInv'
  <2>1. Publishing
    BY <1>4 DEF Publish, MoreChannels, RoundInv
  <2>2. totalMessages' \in Nat /\ totalMessages <= totalMessages'
    BY <1>4 DEF Publish
  <2> QED
    BY <1>4, <2>1, <2>2 DEF Publish, rtts, bench
<1>5. CASE TimePasses \/ Sigint
  BY <1>5 DEF TimePasses, Sigint, rtts, bench
<1>6. CASE Tick
  BY <1>6 DEF Tick, ShowRtt, AccumulatorReset, bench
<1>7. CASE AwaitRoutines \/ CloseAndExit
  BY <1>7 DEF AwaitRoutines, CloseAndExit, rtts
<1>8. CASE WriteFinalResults
  BY <1>8 DEF WriteFinalResults, rtts
<1>9. CASE UNCHANGED vars
  BY <1>9 DEF vars
<1> QED
  BY <1>2, <1>3, <1>4, <1>5, <1>6, <1>7, <1>8, <1>9, NextCases

\* The report is written from the counter after the routines were awaited.
LEMMA ReportStep == IInv /\ [Next]_vars => ReportFollowsStop'
<1> SUFFICES ASSUME IInv, [Next]_vars PROVE ReportFollowsStop'
  OBVIOUS
<1>1. /\ totalMessages \in Nat /\ stopTotal \in Nat /\ result \in Nat
      /\ MessageLimit \in Nat /\ ChannelCount \in Nat
      /\ left \in [Routines -> Nat]
      /\ ChannelCount' = ChannelCount /\ Publishing' = Publishing
      /\ MessageLimit' = MessageLimit
      /\ StopInv /\ RoundInv /\ ReportFollowsStop
  BY SetupFacts, SetupKept DEF IInv, TypeOK
<1>2. SumFunction(left) \in Nat /\ Cardinality(Routines) * ChannelCount \in Nat
  <2>1. IsFiniteSet(Routines) /\ Cardinality(Routines) \in Nat
    BY JsConstants, FS_CardinalityType
  <2> QED
    BY <1>1, <2>1, SumType
<1>3. ASSUME UNCHANGED <<stopTotal, stoppedBy, result>>, Reported' => Reported
      PROVE  ReportFollowsStop'
  BY <1>1, <1>3 DEF ReportFollowsStop
<1>4. CASE RoutineStep
  BY <1>3, <1>4, RoutineFrame DEF stop, Reported
<1>5. ASSUME NEW r \in Routines, HandleMessage(r)
      PROVE  ReportFollowsStop'
  BY <1>1, <1>3, <1>5, HandleFrame DEF stop, Reported
<1>6. ASSUME NEW r \in Routines, NEW ok \in BOOLEAN, Publish(r, ok)
      PROVE  ReportFollowsStop'
  BY <1>3, <1>6 DEF Publish, stop, bench, Reported
<1>7. CASE TimePasses
  BY <1>3, <1>7 DEF TimePasses, stop, bench, Reported
<1>8. CASE Tick \/ Sigint
  BY <1>1, <1>8 DEF Tick, Sigint, bench, StopInv, ReportFollowsStop, Reported
<1>9. CASE AwaitRoutines
  BY <1>3, <1>9 DEF AwaitRoutines, stop, Reported
<1>10. CASE WriteFinalResults
  <2>1. /\ phase = "waiting" /\ result' = totalMessages
        /\ UNCHANGED <<stopTotal, stoppedBy, isRunning>>
    BY <1>10 DEF WriteFinalResults, stop
  <2>2. stoppedBy # "none" /\ ~isRunning /\ ~Reported
    BY <1>1, <2>1 DEF StopInv, Reported
  <2>3. stopTotal <= totalMessages
    BY <1>1, <2>2 DEF StopInv
  <2>4. stoppedBy = "limit" => MessageLimit <= totalMessages
    BY <1>1, <2>3 DEF StopInv
  <2>5. Publishing =>
           totalMessages <= stopTotal + Cardinality(Routines) * ChannelCount
    BY <1>1, <1>2, <2>2 DEF RoundInv
  <2> QED
    BY <1>1, <2>1, <2>3, <2>4, <2>5 DEF ReportFollowsStop
<1>11. CASE CloseAndExit
  BY <1>3, <1>11 DEF CloseAndExit, stop, Reported
<1>12. CASE UNCHANGED vars
  BY <1>3, <1>12 DEF vars, Reported
<1> QED
  BY <1>4, <1>5, <1>6, <1>7, <1>8, <1>9, <1>10, <1>11, <1>12, NextCases

\* IInv is an invariant of the run.
THEOREM Inductive == Spec => []IInv
<1>1. IInv /\ [Next]_vars => IInv'
  BY TypeStep, StopStep, ClockStep, RoundStep, RttStep, ReportStep DEF IInv
<1>2. QED
  BY InitIInv, <1>1, PTL DEF Spec

-----------------------------------------------------------------------------
\* Type correctness: in particular, no publisher works past the end of a round.
THEOREM TypeCorrect == Spec => []TypeOK
<1>1. IInv => TypeOK
  BY DEF IInv
<1>2. QED
  BY <1>1, Inductive, PTL

\* A run that its --test-time stops has lasted that long since its first message
\* (metrics.js, lines 72-126), with no proviso, unlike the Go client's.
THEOREM TestTimeIsKept == Spec => []TestTimeKept
<1>1. IInv => TestTimeKept
  BY DEF IInv, ClockInv
<1>2. QED
  BY <1>1, Inductive, PTL

\* The report covers what was counted when the run was stopped, at least the
\* limit if that stopped it, and at most one message per publisher and channel
\* more, for any number of publishers and channels.
THEOREM ReportIsBounded == Spec => []ReportFollowsStop
<1>1. IInv => ReportFollowsStop
  BY DEF IInv
<1>2. QED
  BY <1>1, Inductive, PTL

\* While the process lives every recorded round-trip time is in one average or
\* waits for one, none is recorded without its message being counted, and the
\* times of a node-redis report are as many as its messages, whichever times
\* made a handler throw.
THEOREM RttIsAccounted == Spec => []RttAccounted
<1>1. IInv => RttAccounted
  BY DEF IInv, RttInv
<1>2. QED
  BY <1>1, Inductive, PTL

\* updateCLI of metrics.js implements the abstract meter, as the Go one does.
THEOREM ImplementsMeter == Spec => MeterSpec
<1>1. Init => M!Init
  BY DEF Init, M!Init, Reported
<1>2. ASSUME IInv, [Next]_vars
      PROVE  [M!Next]_(M!vars)
  <2>1. /\ totalMessages \in Nat /\ sampled \in Nat /\ prevMessageCount \in Nat
        /\ ClockInv /\ StopInv
    BY <1>2 DEF IInv, TypeOK
  <2> USE DEF M!Next, M!vars, Reported
  <2>2. CASE RoutineStep
    BY <2>2, RoutineFrame DEF samples
  <2>3. ASSUME NEW r \in Routines, HandleMessage(r)
        PROVE  [M!Next]_(M!vars)
    BY <2>1, <2>3, HandleFrame DEF samples, M!CountMessage
  <2>4. ASSUME NEW r \in Routines, NEW ok \in BOOLEAN, Publish(r, ok)
        PROVE  [M!Next]_(M!vars)
    BY <2>1, <2>4 DEF Publish, samples, bench, M!CountMessage
  <2>5. CASE Tick
    <3>1. /\ UNCHANGED <<totalMessages, phase, result>>
          /\ stoppedBy = "none"
          /\ sampled' = IF totalMessages # 0
                           THEN sampled + (totalMessages - prevMessageCount)
                           ELSE sampled
      BY <2>5 DEF Tick, SampleRate, NewMessages, bench
    <3>2. ~Reported
      BY <2>1, <3>1 DEF StopInv
    <3>3. sampled' \in sampled .. totalMessages
      BY <2>1, <3>1 DEF ClockInv
    <3> QED
      BY <3>1, <3>2, <3>3 DEF M!TakeSample
  <2>6. CASE TimePasses \/ Sigint
    BY <2>6 DEF TimePasses, Sigint, samples, bench
  <2>7. CASE AwaitRoutines \/ CloseAndExit
    BY <2>7 DEF AwaitRoutines, CloseAndExit, samples
  <2>8. CASE WriteFinalResults
    <3>1. /\ phase = "waiting" /\ phase' = "closing" /\ result' = totalMessages
          /\ UNCHANGED <<totalMessages, sampled>>
      BY <2>8 DEF WriteFinalResults, samples
    <3>2. totalMessages \in sampled .. totalMessages
      BY <2>1 DEF ClockInv
    <3> QED
      BY <3>1, <3>2 DEF M!Report
  <2>9. CASE UNCHANGED vars
    BY <2>9 DEF vars
  <2> QED
    BY <1>2, <2>2, <2>3, <2>4, <2>5, <2>6, <2>7, <2>8, <2>9, NextCases
<1>3. QED
  BY <1>1, <1>2, Inductive, PTL DEF Spec, MeterSpec, M!Spec
=============================================================================
