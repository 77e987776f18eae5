-------------------------- MODULE PubSubBenchProofs --------------------------
(***************************************************************************)
(* Proofs about the whole program in (s)subscribe mode, for any set of     *)
(* subscribers, any settings and any capacity: it implements the           *)
(* subscribers' module and updateCLI's, so that what is proved of the two  *)
(* components holds of the program, and the round-trip times match the     *)
(* messages counted.                                                       *)
(*                                                                         *)
(* PubSubBench takes its components by INSTANCE, and so does this module   *)
(* their proofs.  The definitions of SubP! are those of Sub!, the ones of  *)
(* CLIP! those of CLI!; the first section says so to the prover.           *)
(***************************************************************************)
EXTENDS PubSubBench, SumTheorems

SubP == INSTANCE SubscriberProofs

CLIP == INSTANCE UpdateCLIProofs WITH
            pc <- cliPc,
            MaxMessages <- MaxPublished * Cardinality(Subscribers)

-----------------------------------------------------------------------------
(* The proofs of the components are about the components of the program.   *)

\* The assumptions they make are among those of the program.
LEMMA SubAssumptions == SubP!SubConstants
BY BenchConstants
   DEF BenchConstants, Sub!SubConstants, SubP!SubConstants, Sub!IsFiniteSet,
       SubP!IsFiniteSet

LEMMA CLIAssumptions == CLIP!CLIConstants
BY BenchConstants DEF BenchConstants, CLI!CLIConstants, CLIP!CLIConstants

\* The constants, as the rest of the module uses them.
LEMMA Constants ==
    /\ IsFiniteSet(Subscribers)
    /\ MaxPublished \in Nat
    /\ RttCap \in Nat
BY BenchConstants
   DEF BenchConstants, Sub!SubConstants, Sub!IsFiniteSet, IsFiniteSet

LEMMA SameSum ==
    ASSUME NEW f
    PROVE  /\ Sub!SumFunction(f) = SumFunction(f)
           /\ SubP!SumFunction(f) = SumFunction(f)
BY DEF SumFunction, SumFunctionOnSet, FoldFunctionOnSet, MapThenFoldSet,
       Sub!SumFunction, Sub!SumFunctionOnSet, Sub!FoldFunctionOnSet,
       Sub!MapThenFoldSet, SubP!SumFunction, SubP!SumFunctionOnSet,
       SubP!FoldFunctionOnSet, SubP!MapThenFoldSet

LEMMA SameSubInit == Sub!Init => SubP!Init
BY DEF Sub!Init, SubP!Init

LEMMA SameSubNext == [Sub!Next]_Sub!vars => [SubP!Next]_SubP!vars
<1>1. ASSUME NEW s \in Subscribers, Sub!Routine(s)
      PROVE  SubP!Routine(s)
  BY <1>1
     DEF Sub!Routine, Sub!Resubscription, Sub!Reading, Sub!InitialSubscribe,
         Sub!TakeTick, Sub!SendRtt, Sub!Count, Sub!Exit, Sub!Unsubscribe,
         Sub!CloseOld, Sub!Resubscribe, Sub!BeginReceive, Sub!Receive,
         Sub!Redial, Sub!ReceiveCanceled, Sub!ReceiveFails, Sub!Goto,
         Sub!counters, Sub!ledger, Sub!All, Sub!Rest, Sub!Range, Sub!RestLen,
         Sub!Sharded, Sub!Reconnects, Sub!AfterReceive, Sub!RttRoom, Sub!AddOne,
         SubP!Routine, SubP!Resubscription, SubP!Reading,
         SubP!InitialSubscribe, SubP!TakeTick, SubP!SendRtt, SubP!Count,
         SubP!Exit, SubP!Unsubscribe, SubP!CloseOld, SubP!Resubscribe,
         SubP!BeginReceive, SubP!Receive, SubP!Redial, SubP!ReceiveCanceled,
         SubP!ReceiveFails, SubP!Goto, SubP!counters, SubP!ledger, SubP!All,
         SubP!Rest, SubP!Range, SubP!RestLen, SubP!Sharded, SubP!Reconnects,
         SubP!AfterReceive, SubP!RttRoom, SubP!AddOne
<1>2. Sub!Environment => SubP!Environment
  BY DEF Sub!Environment, Sub!Publish, Sub!Drop, Sub!TickFires, Sub!Cancel,
         Sub!DrainRtt, Sub!Held, Sub!counters, Sub!ledger,
         SubP!Environment, SubP!Publish, SubP!Drop, SubP!TickFires,
         SubP!Cancel, SubP!DrainRtt, SubP!Held, SubP!counters, SubP!ledger
<1> QED
  BY <1>1, <1>2 DEF Sub!Next, Sub!vars, SubP!Next, SubP!vars

LEMMA SameSubInv == Sub!IInv <=> SubP!IInv
<1>1. Sub!TypeOK <=> SubP!TypeOK
  BY DEF Sub!TypeOK, Sub!Locations, SubP!TypeOK, SubP!Locations
<1>2. Sub!ReconnectInv <=> SubP!ReconnectInv
  BY DEF Sub!ReconnectInv, SubP!ReconnectInv
<1>3. Sub!CounterInv <=> SubP!CounterInv
  BY SameSum DEF Sub!CounterInv, SubP!CounterInv
<1>4. Sub!EachCopyOnce <=> SubP!EachCopyOnce
  BY DEF Sub!EachCopyOnce, Sub!InHand, SubP!EachCopyOnce, SubP!InHand
<1>5. Sub!SubscribedSettles <=> SubP!SubscribedSettles
  BY SameSum
     DEF Sub!SubscribedSettles, Sub!Contribution, SubP!SubscribedSettles,
         SubP!Contribution
<1>6. Sub!SingleChannelKept <=> SubP!SingleChannelKept
  BY DEF Sub!SingleChannelKept, Sub!All, Sub!Range, SubP!SingleChannelKept,
         SubP!All, SubP!Range
<1> QED
  BY <1>1, <1>2, <1>3, <1>4, <1>5, <1>6 DEF Sub!IInv, SubP!IInv

LEMMA SameCLIInit == CLI!Init => CLIP!Init
BY DEF CLI!Init, CLI!LoopInit, CLIP!Init, CLIP!LoopInit

LEMMA SameCLINext == [CLI!Next]_CLI!vars => [CLIP!Next]_CLIP!vars
<1>1. CLI!Loop => CLIP!Loop
  BY DEF CLI!Loop, CLI!ReceiveRtt, CLI!RttReady, CLI!BeginTick,
         CLI!NewMessages, CLI!Interrupted, CLI!TickStep, CLI!ResetStart,
         CLI!SeesFirstMessage, CLI!AppendRate, CLI!SavePrev,
         CLI!CheckTestTime, CLI!TestTimeReached, CLI!TestTime,
         CLI!PrintAndCheckLimit, CLI!LimitReached, CLI!MessageLimit,
         CLI!Return, CLI!rtts, CLI!ages,
         CLIP!Loop, CLIP!ReceiveRtt, CLIP!RttReady, CLIP!BeginTick,
         CLIP!NewMessages, CLIP!Interrupted, CLIP!TickStep, CLIP!ResetStart,
         CLIP!SeesFirstMessage, CLIP!AppendRate, CLIP!SavePrev,
         CLIP!CheckTestTime, CLIP!TestTimeReached, CLIP!TestTime,
         CLIP!PrintAndCheckLimit, CLIP!LimitReached, CLIP!MessageLimit,
         CLIP!Return, CLIP!rtts, CLIP!ages
<1>2. CLI!Environment => CLIP!Environment
  BY DEF CLI!Environment, CLI!CountMessage, CLI!SendRtt, CLI!Elapse,
         CLI!Older, CLI!Interrupt, CLI!rtts, CLI!ages,
         CLIP!Environment, CLIP!CountMessage, CLIP!SendRtt, CLIP!Elapse,
         CLIP!Older, CLIP!Interrupt, CLIP!rtts, CLIP!ages
<1> QED
  BY <1>1, <1>2 DEF CLI!Next, CLI!vars, CLIP!Next, CLIP!vars

LEMMA SameCLIInv == CLI!IInv <=> CLIP!IInv
<1>1. CLI!TypeOK <=> CLIP!TypeOK
  BY DEF CLI!TypeOK, CLI!Locations, CLI!TickSteps, CLIP!TypeOK,
         CLIP!Locations, CLIP!TickSteps
<1>2. (CLI!SampleInv <=> CLIP!SampleInv) /\ (CLI!TimerInv <=> CLIP!TimerInv)
  BY DEF CLI!SampleInv, CLI!TimerInv, CLIP!SampleInv, CLIP!TimerInv
<1>3. CLI!StopInv <=> CLIP!StopInv
  BY DEF CLI!StopInv, CLI!LimitReported, CLI!MessageLimit, CLI!TestTime,
         CLIP!StopInv, CLIP!LimitReported, CLIP!MessageLimit, CLIP!TestTime
<1>4. CLI!RttShownOnce <=> CLIP!RttShownOnce
  BY DEF CLI!RttShownOnce, CLIP!RttShownOnce
<1> QED
  BY <1>1, <1>2, <1>3, <1>4 DEF CLI!IInv, CLIP!IInv

\* What is proved of the components, in the names of the program.
LEMMA SubInductive ==
    /\ Sub!Init => Sub!IInv
    /\ Sub!IInv /\ [Sub!Next]_Sub!vars => Sub!IInv'
<1>1. SubP!Init => SubP!IInv
  BY SubAssumptions, SubP!InitIInv
<1>2. SubP!IInv /\ [SubP!Next]_SubP!vars => SubP!IInv'
  BY SubAssumptions, SubP!StepIInv
<1>3. SubP!IInv' => Sub!IInv'
  BY SameSubInv, PTL
<1> QED
  BY <1>1, <1>2, <1>3, SameSubInit, SameSubNext, SameSubInv

LEMMA CLIInductive ==
    /\ CLI!Init => CLI!IInv
    /\ CLI!IInv /\ [CLI!Next]_CLI!vars => CLI!IInv'
<1>1. CLIP!Init => CLIP!IInv
  BY CLIAssumptions, CLIP!InitIInv
<1>2. CLIP!IInv /\ [CLIP!Next]_CLIP!vars => CLIP!IInv'
  BY CLIAssumptions, CLIP!StepIInv
<1>3. CLIP!IInv' => CLI!IInv'
  BY SameCLIInv, PTL
<1> QED
  BY <1>1, <1>2, <1>3, SameCLIInit, SameCLINext, SameCLIInv

-----------------------------------------------------------------------------
(* Main and the environment, seen by the components.                       *)

\* Every step of the program is a step of the subscribers' module or invisible
\* to it: updateCLI does nothing to it but take round-trip times.
LEMMA SubStep == [Next]_vars => [Sub!Next]_Sub!vars
<1> SUFFICES ASSUME [Next]_vars PROVE [Sub!Next]_Sub!vars
  OBVIOUS
<1> USE DEF subVars, shared
<1>1. CASE Main
  BY <1>1 DEF Main, CreateClient, SetupFails, StartCLI, ReportAndExit,
              ForwardSignal, Sub!vars
<1>2. CASE UpdateCLIStep
  <2>1. CASE CLI!ReceiveRtt
    <3>1. Sub!DrainRtt
      BY <1>2, <2>1
         DEF UpdateCLIStep, InCLI, Alive, CLI!ReceiveRtt, CLI!RttReady,
             Sub!DrainRtt, Sub!counters, Sub!ledger
    <3> QED
      BY <3>1 DEF Sub!Next, Sub!Environment
  <2>2. CASE CLI!BeginTick \/ CLI!Interrupted \/ CLI!TickStep \/ CLI!Return
    BY <1>2, <2>2
       DEF UpdateCLIStep, InCLI, CLI!BeginTick, CLI!Interrupted, CLI!TickStep,
           CLI!ResetStart, CLI!AppendRate, CLI!SavePrev, CLI!CheckTestTime,
           CLI!PrintAndCheckLimit, CLI!Return, Sub!vars
  <2> QED
    BY <1>2, <2>1, <2>2 DEF UpdateCLIStep, InCLI, CLI!Loop
<1>3. ASSUME NEW s \in Subscribers, SubscriberStep(s)
      PROVE  [Sub!Next]_Sub!vars
  BY <1>3 DEF SubscriberStep, Sub!Next
<1>4. CASE Interrupt \/ TimePasses
  BY <1>4 DEF Interrupt, TimePasses, CLI!Elapse, Sub!vars
<1>5. CASE RedisStep
  BY <1>5 DEF RedisStep, Sub!Next, Sub!Environment
<1>6. CASE UNCHANGED vars
  BY <1>6 DEF vars, Sub!vars
<1> QED
  BY <1>1, <1>2, <1>3, <1>4, <1>5, <1>6 DEF Next

\* The subscribers cannot count or time more than was published to each.
LEMMA CountBound ==
    Sub!IInv /\ MainTypeOK =>
        /\ totalMessages + Cardinality(Counting)
              <= MaxPublished * Cardinality(Subscribers)
        /\ IsFiniteSet(Counting) /\ Cardinality(Counting) \in Nat
        /\ MaxPublished * Cardinality(Subscribers) \in Nat
<1> SUFFICES ASSUME Sub!IInv, MainTypeOK
             PROVE  /\ totalMessages + Cardinality(Counting)
                          <= MaxPublished * Cardinality(Subscribers)
                    /\ IsFiniteSet(Counting) /\ Cardinality(Counting) \in Nat
                    /\ MaxPublished * Cardinality(Subscribers) \in Nat
  OBVIOUS
<1> DEFINE sent ==
      [s \in Subscribers |-> IF s \in Counting THEN counted[s] + 1
                                               ELSE counted[s]]
<1>1. Counting \in SUBSET Subscribers
  BY DEF Counting, MainTypeOK
<1>2. /\ counted \in [Subscribers -> Nat]
      /\ totalMessages = SumFunction(counted)
      /\ published <= MaxPublished /\ published \in Nat
  BY SameSum DEF Sub!IInv, Sub!TypeOK, Sub!CounterInv
<1>3. sent \in [Subscribers -> 0 .. MaxPublished]
  <2>1. ASSUME NEW s \in Subscribers
        PROVE  sent[s] \in 0 .. MaxPublished
    <3>1. /\ counted[s] \in Nat /\ dropped[s] \in Nat /\ copies[s] \in Nat
          /\ inbox[s] \in Seq(Payloads)
          /\ copies[s] <= published
          /\ copies[s] = counted[s] + Sub!InHand(s) + Len(inbox[s]) + dropped[s]
      BY DEF Sub!IInv, Sub!TypeOK, Sub!CounterInv, Sub!EachCopyOnce
    <3>2. Len(inbox[s]) \in Nat /\ Sub!InHand(s) \in {0, 1}
      BY <3>1 DEF Sub!InHand
    <3>3. s \in Counting => Sub!InHand(s) = 1
      BY DEF Counting, Sub!InHand
    <3>4. sent[s] \in Nat /\ sent[s] <= counted[s] + Sub!InHand(s)
      BY <3>1, <3>2, <3>3
    <3>5. counted[s] + Sub!InHand(s) <= copies[s]
      BY <3>1, <3>2
    <3>6. counted[s] + Sub!InHand(s) \in Nat
      BY <3>1, <3>2
    <3> HIDE DEF sent
    <3> QED
      BY <1>2, <3>1, <3>4, <3>5, <3>6, Constants
  <2> QED
    BY <2>1
<1>4. SumFunction(sent) = SumFunction(counted) + Cardinality(Counting)
  <2>1. sent \in [Subscribers -> Nat]
    BY <1>2
  <2>2. \A s \in Subscribers :
           sent[s] = IF s \in Counting THEN counted[s] + 1 ELSE counted[s]
    OBVIOUS
  <2> HIDE DEF sent
  <2> QED
    BY <1>1, <1>2, <2>1, <2>2, Constants, SumCount
<1> HIDE DEF sent
<1>5. SumFunction(sent) <= Cardinality(Subscribers) * MaxPublished
  BY <1>3, Constants, SumBound
<1>6. IsFiniteSet(Counting) /\ Cardinality(Counting) \in Nat
  BY <1>1, Constants, FS_Subset, FS_CardinalityType
<1>7. Cardinality(Subscribers) \in Nat
  BY Constants, FS_CardinalityType
<1> QED
  BY <1>2, <1>4, <1>5, <1>6, <1>7, Constants

-----------------------------------------------------------------------------
(* The invariant of the program.                                           *)

LEMMA InitIInv == Init => IInv
<1> SUFFICES ASSUME Init PROVE IInv
  OBVIOUS
<1>1. Sub!IInv /\ CLI!IInv
  <2>1. CLI!Init
    BY DEF Init, Sub!Init, CLI!Init
  <2> QED
    BY <2>1, SubInductive, CLIInductive DEF Init
<1>2. MainTypeOK
  BY DEF Init, MainTypeOK
<1>3. RttInv
  <2>1. Counting = {}
    BY DEF Init, Counting
  <2>2. totalMessages = 0 /\ rttQ = 0 /\ rttValues = 0
    BY DEF Init, Sub!Init, CLI!LoopInit
  <2>3. \A s \in Subscribers : at[s] = "start"
    BY DEF Init, Sub!Init
  <2> QED
    BY <2>1, <2>2, <2>3, FS_EmptySet DEF RttInv, RttMatchesCount
<1> QED
  BY <1>1, <1>2, <1>3 DEF IInv

LEMMA MainStep == IInv /\ [Next]_vars => MainTypeOK'
<1> SUFFICES ASSUME IInv, [Next]_vars PROVE MainTypeOK'
  OBVIOUS
<1> USE DEF IInv, MainTypeOK, mainVars
<1>1. CASE Main
  BY <1>1 DEF Main, CreateClient, SetupFails, StartCLI, ReportAndExit,
              ForwardSignal
<1>2. CASE UpdateCLIStep \/ TimePasses
  BY <1>2 DEF UpdateCLIStep, InCLI, TimePasses
<1>3. ASSUME NEW s \in Subscribers, SubscriberStep(s)
      PROVE  MainTypeOK'
  BY <1>3 DEF SubscriberStep
<1>4. CASE Interrupt
  BY <1>4 DEF Interrupt
<1>5. CASE RedisStep
  BY <1>5 DEF RedisStep
<1>6. CASE UNCHANGED vars
  BY <1>6 DEF vars
<1> QED
  BY <1>1, <1>2, <1>3, <1>4, <1>5, <1>6 DEF Next

\* A round-trip time is sent once, between the receipt of its message and the
\* increment for it, and updateCLI only moves it.
LEMMA RttStep == IInv /\ [Next]_vars => RttInv'
<1> SUFFICES ASSUME IInv, [Next]_vars PROVE RttInv'
  OBVIOUS
<1>1. /\ rttValues \in Nat /\ rttQ \in Nat /\ totalMessages \in Nat
      /\ at \in [Subscribers -> Sub!Locations]
      /\ inbox \in [Subscribers -> Seq(Payloads)]
      /\ spawned \in SUBSET Subscribers
  BY Constants DEF IInv, Sub!IInv, Sub!TypeOK, CLI!IInv, CLI!TypeOK, MainTypeOK
<1>2. IsFiniteSet(Counting) /\ Cardinality(Counting) \in Nat
  BY CountBound DEF IInv
<1>3. RttInv
  BY DEF IInv
\* Nothing is sent, counted, or ready to be counted.
<1>4. ASSUME rttValues' \in Nat, rttValues' + rttQ' = rttValues + rttQ,
             totalMessages' = totalMessages, Counting' = Counting,
             \A s \in Subscribers : at'[s] # "start" => s \in spawned'
      PROVE  RttInv'
  BY <1>3, <1>4 DEF RttInv, RttMatchesCount
\* The subscribers are left alone.
<1>5. ASSUME rttValues' \in Nat, rttValues' + rttQ' = rttValues + rttQ,
             totalMessages' = totalMessages, at' = at, spawned' = spawned
      PROVE  RttInv'
  <2>1. Counting' = Counting
    BY <1>5 DEF Counting
  <2>2. \A s \in Subscribers : at'[s] # "start" => s \in spawned'
    BY <1>3, <1>5 DEF RttInv
  <2> QED
    BY <1>4, <1>5, <2>1, <2>2
<1>6. CASE Main
  <2>1. /\ rttValues' = rttValues /\ rttQ' = rttQ /\ at' = at
        /\ totalMessages' = totalMessages
    BY <1>6 DEF Main, CreateClient, SetupFails, StartCLI, ReportAndExit,
                ForwardSignal, cliVars, shared, subVars
  <2>2. ASSUME NEW s \in Subscribers, CreateClient(s)
        PROVE  RttInv'
    <3>1. spawned' = spawned \cup {s} /\ s \notin spawned
      BY <2>2 DEF CreateClient
    <3>2. at[s] = "start"
      BY <1>3, <3>1 DEF RttInv
    <3>3. Counting' = Counting
      BY <2>1, <3>1, <3>2 DEF Counting
    <3>4. \A t \in Subscribers : at'[t] # "start" => t \in spawned'
      BY <1>3, <2>1, <3>1 DEF RttInv
    <3> QED
      BY <1>1, <1>4, <2>1, <3>3, <3>4
  <2>3. CASE SetupFails \/ StartCLI \/ ReportAndExit \/ ForwardSignal
    <3>1. spawned' = spawned
      BY <2>3 DEF SetupFails, StartCLI, ReportAndExit, ForwardSignal
    <3> QED
      BY <1>1, <1>5, <2>1, <3>1
  <2> QED
    BY <1>6, <2>2, <2>3 DEF Main
<1>7. CASE UpdateCLIStep
  <2>1. at' = at /\ spawned' = spawned
    BY <1>7 DEF UpdateCLIStep, InCLI, subVars, mainVars
  <2>2. CASE CLI!ReceiveRtt
    <3>1. /\ rttQ' = rttQ - 1 /\ rttValues' = rttValues + 1
          /\ totalMessages' = totalMessages
      BY <2>2 DEF CLI!ReceiveRtt
    <3> QED
      BY <1>1, <1>5, <2>1, <3>1
  <2>3. CASE CLI!BeginTick \/ CLI!Interrupted \/ CLI!TickStep \/ CLI!Return
    <3>1. /\ rttQ' = rttQ /\ rttValues' = rttValues
          /\ totalMessages' = totalMessages
      BY <2>3
         DEF CLI!BeginTick, CLI!Interrupted, CLI!TickStep, CLI!ResetStart,
             CLI!AppendRate, CLI!SavePrev, CLI!CheckTestTime,
             CLI!PrintAndCheckLimit, CLI!Return, CLI!rtts
    <3> QED
      BY <1>1, <1>5, <2>1, <3>1
  <2> QED
    BY <1>7, <2>2, <2>3 DEF UpdateCLIStep, InCLI, CLI!Loop
<1>8. ASSUME NEW s \in Subscribers, SubscriberStep(s)
      PROVE  RttInv'
  <2> USE DEF Sub!Goto, Sub!counters, Sub!ledger
  <2>1. rttValues' = rttValues /\ spawned' = spawned /\ s \in spawned
    BY <1>8 DEF SubscriberStep, cliVars, mainVars
  <2>2. ASSUME NEW l \in Sub!Locations, at' = [at EXCEPT ![s] = l]
        PROVE  /\ \A t \in Subscribers : at'[t] # "start" => t \in spawned'
               /\ Counting' = IF l = "count" THEN Counting \cup {s}
                                             ELSE Counting \ {s}
    BY <1>1, <1>3, <2>1, <2>2 DEF RttInv, Counting
  <2>3. CASE Sub!Count(s)
    <3>1. /\ at[s] = "count" /\ at' = [at EXCEPT ![s] = "select"]
          /\ totalMessages' = totalMessages + 1 /\ rttQ' = rttQ
      BY <2>3 DEF Sub!Count, Sub!AddOne
    <3>2. Counting' = Counting \ {s} /\ s \in Counting
      BY <2>1, <2>2, <3>1 DEF Sub!Locations, Counting
    <3>3. Cardinality(Counting') = Cardinality(Counting) - 1
      BY <1>2, <3>2, FS_RemoveElement
    <3> QED
      BY <1>1, <1>2, <1>3, <2>1, <2>2, <3>1, <3>3
         DEF RttInv, RttMatchesCount, Sub!Locations
  <2>4. CASE Sub!SendRtt(s)
    <3>1. /\ at[s] = "send" /\ at' = [at EXCEPT ![s] = "count"]
          /\ totalMessages' = totalMessages /\ rttQ' = rttQ + 1
      BY <2>4 DEF Sub!SendRtt
    <3>2. Counting' = Counting \cup {s} /\ s \notin Counting
      BY <2>2, <3>1 DEF Sub!Locations, Counting
    <3>3. Cardinality(Counting') = Cardinality(Counting) + 1
      BY <1>2, <3>2, FS_AddElement
    <3>4. \A t \in Subscribers : at'[t] # "start" => t \in spawned'
      BY <2>2, <3>1 DEF Sub!Locations
    <3>5. rttValues' + rttQ' <= totalMessages' + Cardinality(Counting')
      BY <1>1, <1>2, <1>3, <2>1, <3>1, <3>3 DEF RttInv
    <3>6. RttMatchesCount'
      BY <1>1, <1>2, <1>3, <2>1, <3>1, <3>3 DEF RttInv, RttMatchesCount
    <3> QED
      BY <1>1, <2>1, <3>4, <3>5, <3>6 DEF RttInv
  <2>5. CASE Sub!Receive(s)
    <3>1. /\ at[s] = "receive" /\ inbox[s] # <<>>
          /\ at' = [at EXCEPT ![s] = Sub!AfterReceive(s)]
          /\ totalMessages' = totalMessages /\ rttQ' = rttQ
      BY <2>5 DEF Sub!Receive
    <3>2. s \notin Counting
      BY <3>1 DEF Counting
    <3>3. CASE Sub!AfterReceive(s) = "send"
      <4>1. Counting' = Counting
        BY <2>2, <3>1, <3>2, <3>3 DEF Sub!Locations
      <4> QED
        BY <1>1, <1>4, <2>1, <2>2, <3>1, <3>3, <4>1 DEF Sub!Locations
    <3>4. CASE Sub!AfterReceive(s) = "count"
      <4>1. Counting' = Counting \cup {s}
        BY <2>2, <3>1, <3>4 DEF Sub!Locations
      <4>2. Cardinality(Counting') = Cardinality(Counting) + 1
        BY <1>2, <3>2, <4>1, FS_AddElement
      <4>3. ~(MeasureRTT /\ Payloads = {"stamped"})
        <5>1. Head(inbox[s]) \in Payloads
          BY <1>1, <3>1
        <5> QED
          BY <3>4, <5>1 DEF Sub!AfterReceive
      <4> QED
        BY <1>1, <1>2, <1>3, <2>1, <2>2, <3>1, <3>4, <4>2, <4>3
           DEF RttInv, RttMatchesCount, Sub!Locations
    <3> QED
      BY <3>3, <3>4 DEF Sub!AfterReceive
  <2>6. CASE \/ Sub!InitialSubscribe(s) \/ Sub!TakeTick(s)
             \/ Sub!Resubscription(s) \/ Sub!BeginReceive(s)
             \/ Sub!ReceiveCanceled(s) \/ Sub!Exit(s)
    <3>1. /\ s \notin Counting
          /\ totalMessages' = totalMessages /\ rttQ' = rttQ
      BY <2>6 DEF Sub!InitialSubscribe, Sub!TakeTick, Sub!Resubscription,
                  Sub!Unsubscribe, Sub!CloseOld, Sub!Resubscribe,
                  Sub!BeginReceive, Sub!ReceiveCanceled, Sub!Exit, Counting
    <3>2. \E l \in Sub!Locations \ {"count"} : at' = [at EXCEPT ![s] = l]
      BY <2>6 DEF Sub!InitialSubscribe, Sub!TakeTick, Sub!Resubscription,
                  Sub!Unsubscribe, Sub!CloseOld, Sub!Resubscribe,
                  Sub!BeginReceive, Sub!ReceiveCanceled, Sub!Exit,
                  Sub!Locations
    <3>3. /\ Counting' = Counting
          /\ \A t \in Subscribers : at'[t] # "start" => t \in spawned'
      BY <2>2, <3>1, <3>2
    <3> QED
      BY <1>1, <1>4, <2>1, <3>1, <3>3
  <2>7. CASE Sub!Redial(s) \/ Sub!ReceiveFails(s)
    <3>1. totalMessages' = totalMessages /\ rttQ' = rttQ /\ at' = at
      BY <2>7 DEF Sub!Redial, Sub!ReceiveFails
    <3> QED
      BY <1>1, <1>5, <2>1, <3>1
  <2> QED
    BY <1>8, <2>3, <2>4, <2>5, <2>6, <2>7
       DEF SubscriberStep, Sub!Routine, Sub!Reading
<1>9. CASE Interrupt \/ TimePasses
  <2>1. /\ rttQ' = rttQ /\ rttValues' = rttValues /\ at' = at
        /\ totalMessages' = totalMessages /\ spawned' = spawned
    BY <1>9 DEF Interrupt, TimePasses, CLI!Elapse, CLI!rtts, subVars, shared,
                mainVars
  <2> QED
    BY <1>1, <1>5, <2>1
<1>10. CASE RedisStep
  <2>1. /\ rttQ' = rttQ /\ rttValues' = rttValues /\ at' = at
        /\ totalMessages' = totalMessages /\ spawned' = spawned
    BY <1>10 DEF RedisStep, Sub!Publish, Sub!Drop, Sub!TickFires, Sub!counters,
                 cliVars, mainVars
  <2> QED
    BY <1>1, <1>5, <2>1
<1>11. CASE UNCHANGED vars
  <2>1. /\ rttQ' = rttQ /\ rttValues' = rttValues /\ at' = at
        /\ totalMessages' = totalMessages /\ spawned' = spawned
    BY <1>11 DEF vars, subVars, shared, cliVars, mainVars
  <2> QED
    BY <1>1, <1>5, <2>1
<1> QED
  BY <1>6, <1>7, <1>8, <1>9, <1>10, <1>11 DEF Next

\* Every step of the program is a step of updateCLI's module or invisible to it:
\* the subscribers count and send no more than its environment may.
LEMMA CLIStep ==
    ASSUME IInv, [Next]_vars, Sub!IInv', MainTypeOK', RttInv'
    PROVE  [CLI!Next]_CLI!vars
<1>1. /\ totalMessages' + Cardinality(Counting)'
            <= MaxPublished * Cardinality(Subscribers)
      /\ Cardinality(Counting)' \in Nat
  <2>1. (/\ totalMessages + Cardinality(Counting)
              <= MaxPublished * Cardinality(Subscribers)
         /\ IsFiniteSet(Counting) /\ Cardinality(Counting) \in Nat
         /\ MaxPublished * Cardinality(Subscribers) \in Nat)'
    BY CountBound, PTL
  <2> QED
    BY <2>1
<1>2. MaxPublished * Cardinality(Subscribers) \in Nat
  BY CountBound DEF IInv
<1>3. /\ rttValues \in Nat /\ rttQ \in Nat /\ totalMessages \in Nat
      /\ sigC \in BOOLEAN
  BY Constants DEF IInv, CLI!IInv, CLI!TypeOK
<1> USE DEF CLI!rtts, CLI!ages
<1>4. CASE Main
  BY <1>4 DEF Main, CreateClient, SetupFails, StartCLI, ReportAndExit,
              ForwardSignal, cliVars, shared, CLI!vars
<1>5. CASE UpdateCLIStep
  BY <1>5 DEF UpdateCLIStep, InCLI, CLI!Next
<1>6. ASSUME NEW s \in Subscribers, SubscriberStep(s)
      PROVE  [CLI!Next]_CLI!vars
  <2> USE DEF Sub!counters, Sub!ledger
  <2>1. UNCHANGED cliVars
    BY <1>6 DEF SubscriberStep
  <2>2. CASE Sub!Count(s)
    <3>1. totalMessages' = totalMessages + 1 /\ rttQ' = rttQ
      BY <2>2 DEF Sub!Count, Sub!AddOne
    <3>2. totalMessages < MaxPublished * Cardinality(Subscribers)
      BY <1>1, <1>2, <1>3, <3>1
    <3>3. CLI!CountMessage
      BY <2>1, <3>1, <3>2 DEF CLI!CountMessage, cliVars
    <3> QED
      BY <3>3 DEF CLI!Next, CLI!Environment
  <2>3. CASE Sub!SendRtt(s)
    <3>1. /\ rttQ' = rttQ + 1 /\ totalMessages' = totalMessages
          /\ rttQ < RttCap /\ MeasureRTT
      BY <2>3 DEF Sub!SendRtt, Sub!RttRoom, IInv, Sub!IInv, Sub!CounterInv
    <3>2. rttValues + rttQ < MaxPublished * Cardinality(Subscribers)
      <4>1. rttValues' = rttValues
        BY <2>1 DEF cliVars
      <4>2. rttValues' + rttQ' <= totalMessages' + Cardinality(Counting)'
        BY DEF RttInv
      <4> QED
        BY <1>1, <1>2, <1>3, <3>1, <4>1, <4>2
    <3>3. CLI!SendRtt
      BY <2>1, <3>1, <3>2 DEF CLI!SendRtt, cliVars
    <3> QED
      BY <3>3 DEF CLI!Next, CLI!Environment
  <2>4. CASE \/ Sub!InitialSubscribe(s) \/ Sub!TakeTick(s)
             \/ Sub!Resubscription(s) \/ Sub!Reading(s) \/ Sub!Exit(s)
    <3>1. totalMessages' = totalMessages /\ rttQ' = rttQ
      BY <2>4 DEF Sub!InitialSubscribe, Sub!TakeTick, Sub!Resubscription,
                  Sub!Unsubscribe, Sub!CloseOld, Sub!Resubscribe, Sub!Reading,
                  Sub!BeginReceive, Sub!Receive, Sub!Redial,
                  Sub!ReceiveCanceled, Sub!ReceiveFails, Sub!Exit
    <3> QED
      BY <2>1, <3>1 DEF cliVars, CLI!vars
  <2> QED
    BY <1>6, <2>2, <2>3, <2>4 DEF SubscriberStep, Sub!Routine
<1>7. CASE Interrupt
  <2>1. CASE phase = "cli"
    <3>1. CLI!Interrupt
      BY <1>7, <2>1 DEF Interrupt, shared, CLI!Interrupt
    <3> QED
      BY <3>1 DEF CLI!Next, CLI!Environment
  <2>2. CASE phase # "cli"
    <3>1. sigC' = sigC
      BY <1>3, <1>7, <2>2, Zenon DEF Interrupt
    <3> QED
      BY <1>7, <3>1 DEF Interrupt, shared, CLI!vars
  <2> QED
    BY <2>1, <2>2
<1>8. CASE TimePasses
  BY <1>8 DEF TimePasses, CLI!Next, CLI!Environment
<1>9. CASE RedisStep
  BY <1>9 DEF RedisStep, Sub!Publish, Sub!Drop, Sub!TickFires, Sub!counters,
              cliVars, CLI!vars
<1>10. CASE UNCHANGED vars
  BY <1>10 DEF vars, shared, cliVars, CLI!vars
<1> QED
  BY <1>4, <1>5, <1>6, <1>7, <1>8, <1>9, <1>10 DEF Next

\* The invariants of the two components, and how they share a counter and a
\* channel, are preserved together.
LEMMA StepIInv == IInv /\ [Next]_vars => IInv'
<1> SUFFICES ASSUME IInv, [Next]_vars PROVE IInv'
  OBVIOUS
<1>1. Sub!IInv'
  BY SubStep, SubInductive DEF IInv
<1>2. MainTypeOK' /\ RttInv'
  BY MainStep, RttStep
<1>3. CLI!IInv'
  BY <1>1, <1>2, CLIStep, CLIInductive DEF IInv
<1> QED
  BY <1>1, <1>2, <1>3 DEF IInv

THEOREM Inductive == Spec => []IInv
BY InitIInv, StepIInv, PTL DEF Spec

-----------------------------------------------------------------------------
\* Type correctness of the program.
THEOREM TypeCorrect == Spec => []TypeOK
<1>1. IInv => TypeOK
  BY DEF IInv, Sub!IInv, CLI!IInv, TypeOK
<1>2. QED
  BY <1>1, Inductive, PTL

\* The round-trip times of a report are those of the messages counted, up to the
\* subscribers that stand between a send and an increment (lines 228-236).
THEOREM RttMatches == Spec => []RttMatchesCount
<1>1. IInv => RttMatchesCount
  BY DEF IInv, RttInv
<1>2. QED
  BY <1>1, Inductive, PTL

\* main, updateCLI and Redis are a correct environment for the subscribers.
THEOREM SubscribersImplemented == Spec => ImplementsSubscribers
<1>1. Init => Sub!Init
  BY DEF Init
<1>2. QED
  BY <1>1, SubStep, PTL DEF Spec, ImplementsSubscribers, Sub!Spec

\* The subscribers, main and the user are a correct environment for updateCLI:
\* together they count at most MaxPublished messages per subscriber, and block on
\* the round-trip channel when it is full.
THEOREM UpdateCLIImplemented == Spec => ImplementsUpdateCLI
<1>1. Init => CLI!Init
  BY DEF Init, Sub!Init, CLI!Init
<1>2. IInv /\ [Next]_vars /\ IInv' => [CLI!Next]_CLI!vars
  BY CLIStep DEF IInv
<1>3. QED
  BY <1>1, <1>2, Inductive, PTL DEF Spec, ImplementsUpdateCLI, CLI!Spec

\* What is proved of the components holds of the program: no message is lost
\* between a connection and the counter, counted twice, or attributed to two
\* metrics lines, the subscription counter settles, and the limits are kept.
THEOREM ComponentsSafe ==
    Spec => [](/\ Sub!EachCopyOnce
               /\ Sub!SubscribedSettles
               /\ CLI!MetricsNeverOvercount
               /\ CLI!LimitReported)
<1>1. IInv => /\ Sub!EachCopyOnce
              /\ Sub!SubscribedSettles
              /\ CLI!MetricsNeverOvercount
              /\ CLI!LimitReported
  BY DEF IInv, Sub!IInv, CLI!IInv, CLI!SampleInv, CLI!StopInv,
         CLI!MetricsNeverOvercount, CLI!RatesNeverOvercount
<1>2. QED
  BY <1>1, Inductive, PTL
=============================================================================
