-------------------------- MODULE UpdateCLIProofs --------------------------
(***************************************************************************)
(* Proofs about updateCLI for every limit, test time, channel capacity and *)
(* bound.  The invariant IInv is inductive; the safety properties and the  *)
(* refinement of Meter follow from it.                                     *)
(***************************************************************************)
EXTENDS UpdateCLI, TLAPS

USE DEF CLIConstants

\* Older moves an age by at most one tick and keeps it within its cap.
LEMMA OlderFacts ==
    ASSUME NEW a \in 0 .. AgeCap, NEW b \in 0 .. AgeCap, a <= b
    PROVE  /\ Older(a) \in 0 .. AgeCap
           /\ a <= Older(a)
           /\ Older(a) <= Older(b)
BY CLIConstants DEF Older

\* The loop starts in the invariant.
LEMMA InitIInv == Init => IInv
<1> SUFFICES ASSUME Init PROVE IInv
  OBVIOUS
<1> USE DEF Init, LoopInit
<1>1. TypeOK
  <2>1. rttQ \in 0 .. RttCap
    BY CLIConstants
  <2>2. sinceStart \in 0 .. AgeCap /\ sinceFirst \in 0 .. AgeCap
    BY CLIConstants
  <2>3. tickC \in BOOLEAN /\ sigC \in BOOLEAN
    OBVIOUS
  <2> QED
    BY <2>1, <2>2, <2>3 DEF TypeOK, Locations
<1>2. SampleInv
  BY DEF SampleInv
<1>3. TimerInv
  BY DEF TimerInv
<1>4. StopInv /\ RttShownOnce
  BY DEF StopInv, LimitReported, RttShownOnce
<1> QED
  BY <1>1, <1>2, <1>3, <1>4 DEF IInv

\* Every step keeps every variable in its type.
LEMMA TypeStep == IInv /\ [Next]_vars => TypeOK'
<1> SUFFICES ASSUME IInv, [Next]_vars PROVE TypeOK'
  OBVIOUS
<1> USE CLIConstants DEF IInv, TypeOK, Locations, TickSteps
<1>1. CASE CountMessage
  BY <1>1 DEF CountMessage, rtts, ages
<1>2. CASE SendRtt
  BY <1>2 DEF SendRtt, rtts, ages
<1>3. CASE Elapse
  BY <1>3, OlderFacts DEF Elapse, rtts
<1>4. CASE Interrupt
  BY <1>4 DEF Interrupt, rtts, ages
<1>5. CASE ReceiveRtt
  BY <1>5 DEF ReceiveRtt, RttReady, ages
<1>6. CASE BeginTick
  <2>1. NewMessages \in Nat
    BY DEF SampleInv, NewMessages
  <2> QED
    BY <1>6, <2>1 DEF BeginTick, rtts, ages
<1>7. CASE Interrupted
  BY <1>7 DEF Interrupted, rtts, ages
<1>8. CASE ResetStart
  BY <1>8 DEF ResetStart, rtts
<1>9. CASE AppendRate
  BY <1>9 DEF AppendRate, rtts, ages
<1>10. CASE SavePrev
  BY <1>10 DEF SavePrev, rtts, ages
<1>11. CASE CheckTestTime
  BY <1>11 DEF CheckTestTime, rtts, ages
<1>12. CASE PrintAndCheckLimit
  BY <1>12 DEF PrintAndCheckLimit, ages
<1>13. CASE Return
  BY <1>13 DEF Return, rtts, ages
<1>14. CASE UNCHANGED vars
  BY <1>14 DEF vars
<1> QED
  BY <1>1, <1>2, <1>3, <1>4, <1>5, <1>6, <1>7, <1>8, <1>9, <1>10, <1>11,
     <1>12, <1>13, <1>14 DEF Next, Loop, TickStep, Environment

\* The samples stay behind the counter whatever is counted between two loads.
LEMMA SampleStep == IInv /\ [Next]_vars => SampleInv'
<1> SUFFICES ASSUME IInv, [Next]_vars PROVE SampleInv'
  OBVIOUS
<1> USE DEF IInv, TypeOK, SampleInv
<1>1. CASE CountMessage
  BY <1>1 DEF CountMessage
<1>2. CASE SendRtt \/ Elapse \/ Interrupt \/ ReceiveRtt
  BY <1>2 DEF SendRtt, Elapse, Interrupt, ReceiveRtt
<1>3. CASE BeginTick
  BY <1>3 DEF BeginTick, NewMessages
<1>4. CASE Interrupted
  BY <1>4 DEF Interrupted
<1>5. CASE ResetStart
  BY <1>5 DEF ResetStart
<1>6. CASE AppendRate
  BY <1>6 DEF AppendRate
<1>7. CASE SavePrev
  BY <1>7 DEF SavePrev
<1>8. CASE CheckTestTime
  BY <1>8 DEF CheckTestTime
<1>9. CASE PrintAndCheckLimit
  BY <1>9 DEF PrintAndCheckLimit
<1>10. CASE Return
  BY <1>10 DEF Return
<1>11. CASE UNCHANGED vars
  BY <1>11 DEF vars
<1> QED
  BY <1>1, <1>2, <1>3, <1>4, <1>5, <1>6, <1>7, <1>8, <1>9, <1>10, <1>11
     DEF Next, Loop, TickStep, Environment

\* A second reset is impossible, and the timer stays behind the first message.
LEMMA TimerStep == IInv /\ [Next]_vars => TimerInv'
<1> SUFFICES ASSUME IInv, [Next]_vars PROVE TimerInv'
  OBVIOUS
<1> USE DEF IInv, TypeOK, TimerInv
<1>1. CASE CountMessage
  BY <1>1 DEF CountMessage, ages
<1>2. CASE SendRtt \/ Interrupt \/ ReceiveRtt
  BY <1>2 DEF SendRtt, Interrupt, ReceiveRtt, ages
<1>3. CASE Elapse
  BY <1>3, OlderFacts DEF Elapse
<1>4. CASE BeginTick \/ Interrupted
  BY <1>4 DEF BeginTick, Interrupted, ages
<1>5. CASE ResetStart
  BY <1>5 DEF ResetStart, SeesFirstMessage
<1>6. CASE AppendRate
  BY <1>6 DEF AppendRate, ages
<1>7. CASE SavePrev
  BY <1>7 DEF SavePrev, ages
<1>8. CASE CheckTestTime \/ PrintAndCheckLimit \/ Return
  BY <1>8 DEF CheckTestTime, PrintAndCheckLimit, Return, ages
<1>9. CASE UNCHANGED vars
  BY <1>9 DEF vars
<1> QED
  BY <1>1, <1>2, <1>3, <1>4, <1>5, <1>6, <1>7, <1>8, <1>9
     DEF Next, Loop, TickStep, Environment

\* The settings are numbers and no step changes them.
LEMMA SettingsFacts ==
    ASSUME opts \in Options
    PROVE  MessageLimit \in Nat /\ TestTime \in 0 .. AgeCap
BY CLIConstants DEF MessageLimit, TestTime

LEMMA SettingsKept ==
    ASSUME [Next]_vars
    PROVE  MessageLimit' = MessageLimit /\ TestTime' = TestTime
<1>1. opts' = opts
  BY DEF Next, Loop, TickStep, Environment, CountMessage, SendRtt, Elapse,
         Interrupt, ReceiveRtt, BeginTick, Interrupted, ResetStart, AppendRate,
         SavePrev, CheckTestTime, PrintAndCheckLimit, Return, vars
<1> QED
  BY <1>1 DEF MessageLimit, TestTime

\* The condition under which the loop stopped survives until it has returned.
LEMMA StopStep == IInv /\ [Next]_vars => StopInv'
<1> SUFFICES ASSUME IInv, [Next]_vars PROVE StopInv'
  OBVIOUS
<1> USE CLIConstants, SettingsFacts, SettingsKept
    DEF IInv, TypeOK, StopInv, LimitReported
<1>1. CASE CountMessage
  BY <1>1 DEF CountMessage, ages
<1>2. CASE SendRtt \/ Interrupt \/ ReceiveRtt
  BY <1>2 DEF SendRtt, Interrupt, ReceiveRtt, ages
<1>3. CASE Elapse
  BY <1>3, OlderFacts DEF Elapse
<1>4. CASE BeginTick \/ Interrupted
  BY <1>4 DEF BeginTick, Interrupted, ages
<1>5. CASE ResetStart \/ AppendRate \/ SavePrev
  BY <1>5 DEF ResetStart, AppendRate, SavePrev, ages
<1>6. CASE CheckTestTime
  BY <1>6 DEF CheckTestTime, TestTimeReached, ages
<1>7. CASE PrintAndCheckLimit
  BY <1>7 DEF PrintAndCheckLimit, LimitReached, ages
<1>8. CASE Return
  BY <1>8 DEF Return, ages
<1>9. CASE UNCHANGED vars
  BY <1>9 DEF vars
<1> QED
  BY <1>1, <1>2, <1>3, <1>4, <1>5, <1>6, <1>7, <1>8, <1>9
     DEF Next, Loop, TickStep, Environment

\* A round-trip time moves from the tick's list to the averaged ones, once.
LEMMA RttStep == IInv /\ [Next]_vars => RttShownOnce'
<1> SUFFICES ASSUME IInv, [Next]_vars PROVE RttShownOnce'
  OBVIOUS
<1> USE DEF IInv, TypeOK, RttShownOnce
<1>1. CASE ReceiveRtt
  BY <1>1 DEF ReceiveRtt
<1>2. CASE PrintAndCheckLimit
  BY <1>2 DEF PrintAndCheckLimit
<1>3. CASE \/ CountMessage \/ SendRtt \/ Elapse \/ Interrupt
           \/ BeginTick \/ Interrupted
  BY <1>3 DEF CountMessage, SendRtt, Elapse, Interrupt, BeginTick, Interrupted,
              rtts
<1>4. CASE ResetStart \/ AppendRate \/ SavePrev \/ CheckTestTime \/ Return
  BY <1>4 DEF ResetStart, AppendRate, SavePrev, CheckTestTime, Return, rtts
<1>5. CASE UNCHANGED vars
  BY <1>5 DEF vars
<1> QED
  BY <1>1, <1>2, <1>3, <1>4, <1>5 DEF Next, Loop, TickStep, Environment

\* IInv is an invariant of the loop.
LEMMA StepIInv == IInv /\ [Next]_vars => IInv'
BY TypeStep, SampleStep, TimerStep, StopStep, RttStep DEF IInv

THEOREM Inductive == Spec => []IInv
BY InitIInv, StepIInv, PTL DEF Spec

-----------------------------------------------------------------------------
\* Type correctness of the loop, for every limit, test time and bound.
THEOREM TypeCorrect == Spec => []TypeOK
<1>1. IInv => TypeOK
  BY DEF IInv
<1>2. QED
  BY <1>1, Inductive, PTL

\* No message is attributed to two rate samples and no round-trip time to two
\* averages (lines 717-733, 759-768): the torn loads of the counter can lose a
\* message from the samples, never duplicate one.
THEOREM NeverOvercount == Spec => []MetricsNeverOvercount
<1>1. IInv => MetricsNeverOvercount
  BY DEF IInv, SampleInv, RatesNeverOvercount, MetricsNeverOvercount
<1>2. QED
  BY <1>1, Inductive, PTL

\* The timer of --test-time restarts at most once, and a run it then stops has
\* lasted that long since its first message (lines 723-727, 734-748).
THEOREM TestTimeKeptThen == Spec => []TestTimeKeptAfterReset
<1>1. IInv => TestTimeKeptAfterReset
  BY CLIConstants, SettingsFacts
     DEF IInv, TypeOK, TimerInv, StopInv, TestTimeKeptAfterReset
<1>2. QED
  BY <1>1, Inductive, PTL

\* A run stopped by its limit reports at least the limit (lines 777-778).
THEOREM LimitIsReported == Spec => []LimitReported
<1>1. IInv => LimitReported
  BY DEF IInv, StopInv
<1>2. QED
  BY <1>1, Inductive, PTL

-----------------------------------------------------------------------------
\* updateCLI implements the abstract meter: every step of the loop and of its
\* environment is a count, a sample, the report, or invisible to the meter.
THEOREM ImplementsMeter == Spec => MeterSpec
<1>1. Init => M!Init
  BY DEF Init, LoopInit, M!Init
<1>2. ASSUME IInv, [Next]_vars
      PROVE  [M!Next]_(M!vars)
  <2> USE <1>2 DEF IInv, TypeOK, M!Next, M!vars
  <2>1. CASE CountMessage
    BY <2>1 DEF CountMessage, M!CountMessage
  <2>2. CASE AppendRate
    BY <2>2 DEF AppendRate, SampleInv, M!TakeSample
  <2>3. CASE Return
    BY <2>3 DEF Return, SampleInv, M!Report
  <2>4. CASE SendRtt \/ Elapse \/ Interrupt \/ ReceiveRtt
    BY <2>4 DEF SendRtt, Elapse, Interrupt, ReceiveRtt
  <2>5. CASE BeginTick \/ Interrupted \/ ResetStart \/ SavePrev
    BY <2>5 DEF BeginTick, Interrupted, ResetStart, SavePrev
  <2>6. CASE CheckTestTime \/ PrintAndCheckLimit
    BY <2>6 DEF CheckTestTime, PrintAndCheckLimit
  <2>7. CASE UNCHANGED vars
    BY <2>7 DEF vars
  <2> QED
    BY <2>1, <2>2, <2>3, <2>4, <2>5, <2>6, <2>7
       DEF Next, Loop, TickStep, Environment
<1>3. QED
  BY <1>1, <1>2, Inductive, PTL DEF Spec, MeterSpec, M!Spec
=============================================================================
