-------------------------- MODULE SubscriberProofs --------------------------
(***************************************************************************)
(* Proofs about subscriberRoutine for any set of subscribers, any lists of *)
(* channels, both modes and every capacity: type correctness, no message   *)
(* counted twice or lost between a connection and the counter, a           *)
(* subscription counter that is the sum of what each subscriber holds, and *)
(* no reconnect for a subscriber of one channel.                           *)
(***************************************************************************)
EXTENDS SubscriberRoutine, SequenceTheorems, SumTheorems

USE DEF SubConstants

\* channels[1:] of a non-empty list names channels.
LEMMA RestFacts ==
    ASSUME TypeOK, NEW s \in Subscribers
    PROVE  /\ All(s) \subseteq Channels
           /\ Len(channels[s]) \in Nat
           /\ Len(channels[s]) > 1 => Rest(s) \subseteq Channels
<1>1. channels[s] \in Seq(Channels)
  BY SubConstants DEF TypeOK
<1>2. All(s) \subseteq Channels /\ Len(channels[s]) \in Nat
  BY <1>1 DEF All, Range
<1>3. ASSUME Len(channels[s]) > 1
      PROVE  Rest(s) \subseteq Channels
  <2>1. Tail(channels[s]) \in Seq(Channels)
    BY <1>1, <1>3
  <2> QED
    BY <2>1 DEF Rest, Range
<1> QED
  BY <1>2, <1>3

\* What the subscribers contribute, one by one.
Contributions == [s \in Subscribers |-> Contribution(s)]

LEMMA ContributionType ==
    TypeOK => Contributions \in [Subscribers -> Nat]
<1> SUFFICES ASSUME TypeOK PROVE Contributions \in [Subscribers -> Nat]
  OBVIOUS
<1>1. ASSUME NEW s \in Subscribers
      PROVE  Contribution(s) \in Nat
  <2>1. Len(channels[s]) \in Nat
    BY RestFacts
  <2> QED
    BY <2>1 DEF Contribution
<1> QED
  BY <1>1 DEF Contributions

\* The step of one goroutine changes the sum by its own contribution.
LEMMA ContributionMoves ==
    ASSUME TypeOK, TypeOK', NEW s \in Subscribers, channels' = channels,
           \A t \in Subscribers \ {s} : at'[t] = at[t]
    PROVE  /\ SumFunction(Contributions') =
                 SumFunction(Contributions) - Contribution(s) + Contribution(s)'
           /\ SumFunction(Contributions) \in Nat
           /\ Contribution(s) \in Nat /\ Contribution(s)' \in Nat
<1>1. Contributions \in [Subscribers -> Nat]
  BY ContributionType
<1>2. (Contributions \in [Subscribers -> Nat])'
  BY ContributionType, PTL
<1>3. \A t \in Subscribers \ {s} : Contributions'[t] = Contributions[t]
  BY DEF Contributions, Contribution
<1>4. IsFiniteSet(Subscribers)
  BY SubConstants
<1>5. SumFunction(Contributions') =
         SumFunction(Contributions) - Contributions[s] + Contributions'[s]
  BY <1>1, <1>2, <1>3, <1>4, SumExcept
<1>6. SumFunction(Contributions) \in Nat
  BY <1>1, <1>4, SumType
<1>7. Contributions[s] = Contribution(s) /\ Contributions'[s] = Contribution(s)'
  BY DEF Contributions
<1> QED
  BY <1>1, <1>2, <1>5, <1>6, <1>7

\* The routines start in the invariant.
LEMMA InitIInv == Init => IInv
<1> SUFFICES ASSUME Init PROVE IInv
  OBVIOUS
<1> USE DEF Init
<1>1. rttQ \in 0 .. RttCap
  BY SubConstants
<1>2. /\ tick \in [Subscribers -> BOOLEAN]
      /\ ctxDone \in BOOLEAN /\ crashed \in BOOLEAN
  BY Zenon
<1>3. inbox \in [Subscribers -> Seq(Payloads)]
  OBVIOUS
<1>4. TypeOK
  BY <1>1, <1>2, <1>3 DEF TypeOK, Locations
<1>5. ReconnectInv /\ SingleChannelKept
  BY DEF ReconnectInv, SingleChannelKept
<1>6. EachCopyOnce
  BY DEF EachCopyOnce, InHand
<1>7. SubscribedSettles
  <2>1. Contributions \in [Subscribers -> Nat]
    BY <1>4, ContributionType
  <2>2. \A s \in Subscribers : Contributions[s] = 0
    BY DEF Contributions, Contribution
  <2>3. SumFunction(Contributions) = 0
    BY <2>1, <2>2, SumZero, SubConstants
  <2> QED
    BY <2>3 DEF SubscribedSettles, Contributions
<1>8. CounterInv
  <2>1. counted \in [Subscribers -> Nat] /\ \A s \in Subscribers : counted[s] = 0
    OBVIOUS
  <2>2. SumFunction(counted) = 0
    BY <2>1, SumZero, SubConstants
  <2> QED
    BY <2>2, SubConstants DEF CounterInv
<1> QED
  BY <1>4, <1>5, <1>6, <1>7, <1>8 DEF IInv

\* Every step keeps every variable in its type.
LEMMA TypeStep == IInv /\ [Next]_vars => TypeOK'
<1> SUFFICES ASSUME IInv, [Next]_vars PROVE TypeOK'
  OBVIOUS
<1> USE SubConstants DEF IInv, TypeOK, Locations, Goto, counters, ledger
<1>1. ASSUME NEW s \in Subscribers, InitialSubscribe(s) PROVE TypeOK'
  BY <1>1, RestFacts DEF InitialSubscribe
<1>2. ASSUME NEW s \in Subscribers, TakeTick(s) PROVE TypeOK'
  BY <1>2 DEF TakeTick, Reconnects
<1>3. ASSUME NEW s \in Subscribers, Unsubscribe(s) PROVE TypeOK'
  BY <1>3 DEF Unsubscribe
<1>4. ASSUME NEW s \in Subscribers, CloseOld(s) PROVE TypeOK'
  BY <1>4, RestFacts DEF CloseOld, RestLen
<1>5. ASSUME NEW s \in Subscribers, Resubscribe(s) PROVE TypeOK'
  BY <1>5, RestFacts DEF Resubscribe, RestLen, ReconnectInv
<1>6. ASSUME NEW s \in Subscribers, BeginReceive(s) PROVE TypeOK'
  BY <1>6 DEF BeginReceive
<1>7. ASSUME NEW s \in Subscribers, Receive(s) PROVE TypeOK'
  BY <1>7 DEF Receive, AfterReceive
<1>8. ASSUME NEW s \in Subscribers,
             Redial(s) \/ ReceiveCanceled(s) \/ ReceiveFails(s)
      PROVE  TypeOK'
  BY <1>8 DEF Redial, ReceiveCanceled, ReceiveFails
<1>9. ASSUME NEW s \in Subscribers, SendRtt(s) PROVE TypeOK'
  BY <1>9 DEF SendRtt, RttRoom
<1>10. ASSUME NEW s \in Subscribers, Count(s) PROVE TypeOK'
  BY <1>10 DEF Count, AddOne
<1>11. ASSUME NEW s \in Subscribers, Exit(s) PROVE TypeOK'
  BY <1>11 DEF Exit
<1>12. ASSUME NEW ch \in Channels, NEW p \in Payloads, Publish(ch, p)
       PROVE  TypeOK'
  BY <1>12 DEF Publish
<1>13. ASSUME NEW s \in Subscribers, Drop(s) PROVE TypeOK'
  BY <1>13 DEF Drop
<1>14. ASSUME NEW s \in Subscribers, TickFires(s) PROVE TypeOK'
  <2>1. tick' \in [Subscribers -> BOOLEAN]
    BY <1>14, Zenon DEF TickFires
  <2> QED
    BY <1>14, <2>1 DEF TickFires
<1>15. CASE Cancel
  <2>1. ctxDone' \in BOOLEAN
    BY <1>15, Zenon DEF Cancel
  <2> QED
    BY <1>15, <2>1 DEF Cancel
<1>16. CASE DrainRtt
  BY <1>16 DEF DrainRtt
<1>17. CASE UNCHANGED vars
  BY <1>17 DEF vars
<1> QED
  BY <1>1, <1>2, <1>3, <1>4, <1>5, <1>6, <1>7, <1>8, <1>9, <1>10, <1>11,
     <1>12, <1>13, <1>14, <1>15, <1>16, <1>17
     DEF Next, Environment, Routine, Resubscription, Reading

\* What Len(channels[s]) > 1 excludes.
LEMMA MoreThanOne ==
    ASSUME NEW n \in Nat, n > 1
    PROVE  n # 1
OBVIOUS

\* Only a subscriber with several channels enters a reconnect, and a list never
\* changes.
LEMMA ReconnectStep == IInv /\ [Next]_vars => ReconnectInv' /\ SingleChannelKept'
<1> SUFFICES ASSUME IInv, [Next]_vars
             PROVE  ReconnectInv' /\ SingleChannelKept'
  OBVIOUS
<1> USE DEF IInv, TypeOK, ReconnectInv, SingleChannelKept, Goto, All
<1> DEFINE Kept == ReconnectInv' /\ SingleChannelKept'
<1>1. ASSUME NEW s \in Subscribers, InitialSubscribe(s) PROVE Kept
  BY <1>1 DEF InitialSubscribe
<1>2. ASSUME NEW s \in Subscribers, TakeTick(s) PROVE Kept
  BY <1>2 DEF TakeTick, Reconnects
<1>3. ASSUME NEW s \in Subscribers, Resubscription(s) PROVE Kept
  <2>1. Len(channels[s]) > 1
    BY <1>3 DEF Resubscription, Unsubscribe, CloseOld, Resubscribe
  <2>2. Len(channels[s]) # 1
    <3> HIDE DEF TypeOK, All, ReconnectInv, SingleChannelKept, IInv
    <3>1. Len(channels[s]) \in Nat
      BY RestFacts DEF IInv
    <3> QED
      BY <2>1, <3>1, MoreThanOne, Zenon
  <2>3. CASE Unsubscribe(s)
    BY <2>3, <2>1, <2>2 DEF Unsubscribe
  <2>4. CASE CloseOld(s)
    BY <2>4, <2>1, <2>2 DEF CloseOld
  <2>5. CASE Resubscribe(s)
    BY <2>5, <2>1, <2>2 DEF Resubscribe
  <2> QED
    BY <1>3, <2>3, <2>4, <2>5 DEF Resubscription
<1>4. ASSUME NEW s \in Subscribers, Reading(s) \/ SendRtt(s) \/ Count(s)
      PROVE  Kept
  BY <1>4 DEF Reading, BeginReceive, Receive, Redial, ReceiveCanceled,
              ReceiveFails, SendRtt, Count, AfterReceive
<1>5. ASSUME NEW s \in Subscribers, Exit(s) PROVE Kept
  BY <1>5 DEF Exit
<1>6. ASSUME NEW ch \in Channels, NEW p \in Payloads, Publish(ch, p) PROVE Kept
  BY <1>6 DEF Publish
<1>7. ASSUME NEW s \in Subscribers, Drop(s) \/ TickFires(s) PROVE Kept
  BY <1>7 DEF Drop, TickFires
<1>8. CASE Cancel \/ DrainRtt \/ UNCHANGED vars
  BY <1>8 DEF Cancel, DrainRtt, vars
<1> QED
  BY <1>1, <1>2, <1>3, <1>4, <1>5, <1>6, <1>7, <1>8
     DEF Next, Environment, Routine

\* A copy moves from the connection to the goroutine's hand and from there to the
\* counter, or is discarded with the connection.
LEMMA CopyStep == IInv /\ [Next]_vars => EachCopyOnce'
<1> SUFFICES ASSUME IInv, [Next]_vars, NEW t \in Subscribers
             PROVE  (copies[t] = counted[t] + InHand(t) + Len(inbox[t]) + dropped[t])'
  BY DEF EachCopyOnce
<1> USE DEF IInv, TypeOK, EachCopyOnce, InHand, Goto, counters, ledger
<1>a. Len(inbox[t]) \in Nat /\ Len(<<>>) = 0
  OBVIOUS
<1> DEFINE Kept ==
      (copies[t] = counted[t] + InHand(t) + Len(inbox[t]) + dropped[t])'
<1>1. ASSUME NEW s \in Subscribers, InitialSubscribe(s) \/ TakeTick(s) PROVE Kept
  BY <1>1 DEF InitialSubscribe, TakeTick, Reconnects
<1>2. ASSUME NEW s \in Subscribers, Unsubscribe(s) \/ Resubscribe(s) PROVE Kept
  BY <1>2 DEF Unsubscribe, Resubscribe
<1>3. ASSUME NEW s \in Subscribers, CloseOld(s) \/ Exit(s) PROVE Kept
  <2>1. CASE s = t
    <3>1. inbox'[t] = <<>> /\ dropped'[t] = dropped[t] + Len(inbox[t])
      BY <1>3, <2>1 DEF CloseOld, Exit
    <3>2. InHand(t) = 0 /\ InHand(t)' = 0
      BY <1>3, <2>1 DEF CloseOld, Exit
    <3> QED
      BY <1>3, <1>a, <3>1, <3>2 DEF CloseOld, Exit
  <2>2. CASE s # t
    BY <1>3, <2>2 DEF CloseOld, Exit
  <2> QED
    BY <2>1, <2>2
<1>4. ASSUME NEW s \in Subscribers, Receive(s) PROVE Kept
  <2>1. CASE s = t
    <3>1. Len(inbox'[t]) = Len(inbox[t]) - 1
      BY <1>4, <2>1 DEF Receive
    <3>2. InHand(t) = 0 /\ InHand(t)' = 1
      BY <1>4, <2>1 DEF Receive, AfterReceive
    <3> QED
      BY <1>4, <1>a, <3>1, <3>2 DEF Receive
  <2>2. CASE s # t
    BY <1>4, <2>2 DEF Receive
  <2> QED
    BY <2>1, <2>2
<1>5. ASSUME NEW s \in Subscribers,
             BeginReceive(s) \/ Redial(s) \/ ReceiveCanceled(s) \/ ReceiveFails(s)
      PROVE  Kept
  BY <1>5 DEF BeginReceive, Redial, ReceiveCanceled, ReceiveFails
<1>6. ASSUME NEW s \in Subscribers, SendRtt(s) PROVE Kept
  BY <1>6 DEF SendRtt
<1>7. ASSUME NEW s \in Subscribers, Count(s) PROVE Kept
  <2>1. CASE s = t
    <3>1. InHand(t) = 1 /\ InHand(t)' = 0 /\ counted'[t] = counted[t] + 1
      BY <1>7, <2>1 DEF Count
    <3> QED
      BY <1>7, <1>a, <3>1 DEF Count
  <2>2. CASE s # t
    BY <1>7, <2>2 DEF Count
  <2> QED
    BY <2>1, <2>2
<1>8. ASSUME NEW ch \in Channels, NEW p \in Payloads, Publish(ch, p) PROVE Kept
  <2>1. InHand(t)' = InHand(t)
    BY <1>8 DEF Publish
  <2>2. CASE ch \in Held(t)
    <3>1. inbox'[t] = Append(inbox[t], p) /\ copies'[t] = copies[t] + 1
      BY <1>8, <2>2 DEF Publish
    <3>2. Len(inbox'[t]) = Len(inbox[t]) + 1
      BY <3>1
    <3>3. counted'[t] = counted[t] /\ dropped'[t] = dropped[t]
      BY <1>8 DEF Publish
    <3>4. copies[t] \in Nat /\ counted[t] \in Nat /\ dropped[t] \in Nat
      OBVIOUS
    <3>5. InHand(t) \in Nat
      BY DEF InHand
    <3>6. copies[t] = counted[t] + InHand(t) + Len(inbox[t]) + dropped[t]
      BY DEF EachCopyOnce
    <3>7. InHand(t)' = InHand(t) /\ Len(inbox[t])' = Len(inbox[t]) + 1
      BY <2>1, <3>2
    <3> HIDE DEF InHand, IInv, TypeOK, EachCopyOnce
    <3>8. \A l \in Nat : copies[t] = counted[t] + InHand(t) + l + dropped[t] =>
            copies[t] + 1 = counted[t] + InHand(t) + (l + 1) + dropped[t]
      BY <3>4, <3>5
    <3>9. copies[t] + 1 = counted[t] + InHand(t) + (Len(inbox[t]) + 1) + dropped[t]
      BY <1>a, <3>6, <3>8, Zenon
    <3> QED
      BY <3>9, <1>a, <3>1, <3>3, <3>4, <3>5, <3>6, <3>7
  <2>3. CASE ch \notin Held(t)
    <3>1. inbox'[t] = inbox[t] /\ copies'[t] = copies[t]
      BY <1>8, <2>3 DEF Publish
    <3> QED
      BY <1>8, <2>1, <3>1 DEF Publish
  <2> QED
    BY <2>2, <2>3
<1>9. ASSUME NEW s \in Subscribers, Drop(s) \/ TickFires(s) PROVE Kept
  BY <1>9 DEF Drop, TickFires
<1>10. CASE Cancel \/ DrainRtt \/ UNCHANGED vars
  BY <1>10 DEF Cancel, DrainRtt, vars
<1> QED
  BY <1>1, <1>2, <1>3, <1>4, <1>5, <1>6, <1>7, <1>8, <1>9, <1>10
     DEF Next, Environment, Routine, Resubscription, Reading

\* The counter follows the goroutines: a reconnect subtracts what its next
\* addition gives back.
LEMMA SettleStep == IInv /\ [Next]_vars => SubscribedSettles'
<1> SUFFICES ASSUME IInv, [Next]_vars PROVE SubscribedSettles'
  OBVIOUS
<1>1. TypeOK /\ TypeOK' /\ ReconnectInv
  BY TypeStep DEF IInv
<1>2. totalSubscribedChannels = SumFunction(Contributions)
  BY DEF IInv, SubscribedSettles, Contributions
<1> SUFFICES totalSubscribedChannels' = SumFunction(Contributions')
  BY DEF SubscribedSettles, Contributions
<1>3. ASSUME NEW s \in Subscribers, channels' = channels,
             \A t \in Subscribers \ {s} : at'[t] = at[t],
             totalSubscribedChannels' =
                totalSubscribedChannels - Contribution(s) + Contribution(s)'
      PROVE  totalSubscribedChannels' = SumFunction(Contributions')
  BY <1>1, <1>2, <1>3, ContributionMoves
<1>4. ASSUME channels' = channels,
             \A s \in Subscribers : Contribution(s)' = Contribution(s),
             totalSubscribedChannels' = totalSubscribedChannels
      PROVE  totalSubscribedChannels' = SumFunction(Contributions')
  BY <1>2, <1>4 DEF Contributions
<1>5. \A s \in Subscribers : Len(channels[s]) \in Nat
  BY <1>1, RestFacts
<1> USE DEF Contribution, Goto, counters, ledger
<1>6. ASSUME NEW s \in Subscribers, InitialSubscribe(s)
      PROVE  totalSubscribedChannels' = SumFunction(Contributions')
  <2>1. Contribution(s) = 0 /\ Contribution(s)' = Len(channels[s])
    BY <1>1, <1>6 DEF InitialSubscribe, TypeOK
  <2>2. /\ channels' = channels
        /\ \A t \in Subscribers \ {s} : at'[t] = at[t]
        /\ totalSubscribedChannels' = totalSubscribedChannels + Len(channels[s])
    BY <1>1, <1>6 DEF InitialSubscribe, TypeOK
  <2>3. totalSubscribedChannels \in Int /\ Len(channels[s]) \in Nat
    BY <1>1, <1>5 DEF TypeOK
  <2> HIDE DEF Contribution
  <2>4. totalSubscribedChannels' =
           totalSubscribedChannels - Contribution(s) + Contribution(s)'
    BY <2>1, <2>2, <2>3
  <2> QED
    BY <1>3, <2>2, <2>4
<1>7. ASSUME NEW s \in Subscribers, CloseOld(s)
      PROVE  totalSubscribedChannels' = SumFunction(Contributions')
  <2>1. Contribution(s) = Len(channels[s]) /\ Contribution(s)' = 1
    BY <1>1, <1>7 DEF CloseOld, TypeOK
  <2>2. /\ channels' = channels
        /\ \A t \in Subscribers \ {s} : at'[t] = at[t]
        /\ totalSubscribedChannels' =
              totalSubscribedChannels - (Len(channels[s]) - 1)
    BY <1>1, <1>7 DEF CloseOld, TypeOK, RestLen
  <2>3. totalSubscribedChannels \in Int /\ Len(channels[s]) \in Nat
    BY <1>1, <1>5 DEF TypeOK
  <2> HIDE DEF Contribution
  <2>4. totalSubscribedChannels' =
           totalSubscribedChannels - Contribution(s) + Contribution(s)'
    BY <2>1, <2>2, <2>3
  <2> QED
    BY <1>3, <2>2, <2>4
<1>8. ASSUME NEW s \in Subscribers, Resubscribe(s)
      PROVE  totalSubscribedChannels' = SumFunction(Contributions')
  <2>1. Contribution(s) = 1 /\ Contribution(s)' = Len(channels[s])
    BY <1>1, <1>8 DEF Resubscribe, TypeOK
  <2>2. /\ channels' = channels
        /\ \A t \in Subscribers \ {s} : at'[t] = at[t]
        /\ totalSubscribedChannels' =
              totalSubscribedChannels + (Len(channels[s]) - 1)
    BY <1>1, <1>8 DEF Resubscribe, TypeOK, RestLen
  <2>3. totalSubscribedChannels \in Int /\ Len(channels[s]) \in Nat
    BY <1>1, <1>5 DEF TypeOK
  <2> HIDE DEF Contribution
  <2>4. totalSubscribedChannels' =
           totalSubscribedChannels - Contribution(s) + Contribution(s)'
    BY <2>1, <2>2, <2>3
  <2> QED
    BY <1>3, <2>2, <2>4
<1>9. ASSUME NEW s \in Subscribers,
             TakeTick(s) \/ Unsubscribe(s) \/ SendRtt(s) \/ Count(s) \/ Exit(s)
      PROVE  totalSubscribedChannels' = SumFunction(Contributions')
  BY <1>1, <1>4, <1>9 DEF TakeTick, Unsubscribe, SendRtt, Count, Exit, TypeOK
<1>10. ASSUME NEW s \in Subscribers, Reading(s)
       PROVE  totalSubscribedChannels' = SumFunction(Contributions')
  BY <1>1, <1>4, <1>10
     DEF Reading, BeginReceive, Receive, Redial, ReceiveCanceled, ReceiveFails,
         AfterReceive, TypeOK
<1>11. CASE Environment \/ UNCHANGED vars
  BY <1>4, <1>11
     DEF Environment, Publish, Drop, TickFires, Cancel, DrainRtt, vars
<1> QED
  BY <1>6, <1>7, <1>8, <1>9, <1>10, <1>11 DEF Next, Routine, Resubscription

\* One atomic increment per message, by one goroutine.
LEMMA CounterStep == IInv /\ [Next]_vars => CounterInv'
<1> SUFFICES ASSUME IInv, [Next]_vars PROVE CounterInv'
  OBVIOUS
<1>1. TypeOK /\ TypeOK' /\ CounterInv
  BY TypeStep DEF IInv
<1> USE DEF Goto, counters, ledger
<1>2. ASSUME NEW s \in Subscribers, Count(s)
      PROVE  CounterInv'
  <2>1. /\ counted \in [Subscribers -> Nat] /\ counted' \in [Subscribers -> Nat]
        /\ \A t \in Subscribers \ {s} : counted'[t] = counted[t]
        /\ counted'[s] = counted[s] + 1 /\ counted[s] \in Nat
    BY <1>1, <1>2 DEF Count, TypeOK
  <2>2. SumFunction(counted') = SumFunction(counted) - counted[s] + counted'[s]
    BY <2>1, SumExcept, SubConstants
  <2>3. totalMessages' = totalMessages + 1 /\ totalMessages \in Nat
    BY <1>1, <1>2 DEF Count, AddOne, TypeOK
  <2>4. totalMessages' = SumFunction(counted')
    BY <1>1, <2>1, <2>2, <2>3 DEF CounterInv
  <2> QED
    BY <1>1, <1>2, <2>4 DEF Count, CounterInv, TypeOK
<1>3. ASSUME NEW ch \in Channels, NEW p \in Payloads, Publish(ch, p)
      PROVE  CounterInv'
  <2>1. /\ \A t \in Subscribers : copies'[t] \in {copies[t], copies[t] + 1}
        /\ \A t \in Subscribers : copies[t] \in Nat
        /\ published \in Nat /\ published' = published + 1
        /\ published' <= MaxPublished
    BY <1>1, <1>3, SubConstants DEF Publish, TypeOK
  <2>2. \A t \in Subscribers : copies'[t] <= published'
    BY <1>1, <2>1 DEF CounterInv
  <2> QED
    BY <1>1, <1>3, <2>1, <2>2 DEF Publish, CounterInv
<1>4. ASSUME NEW s \in Subscribers,
             InitialSubscribe(s) \/ TakeTick(s) \/ Resubscription(s)
      PROVE  CounterInv'
  <2>1. /\ counted' = counted /\ totalMessages' = totalMessages
        /\ copies' = copies /\ published' = published
    BY <1>4 DEF InitialSubscribe, TakeTick, Resubscription, Unsubscribe,
                CloseOld, Resubscribe
  <2>2. at \in [Subscribers -> Locations]
        /\ \E l \in {"select", "unsub", "resub"} : at' = [at EXCEPT ![s] = l]
    BY <1>1, <1>4
       DEF InitialSubscribe, TakeTick, Resubscription, Unsubscribe, CloseOld,
           Resubscribe, TypeOK
  <2> QED
    BY <1>1, <2>1, <2>2 DEF CounterInv
<1>5. ASSUME NEW s \in Subscribers, Reading(s) PROVE CounterInv'
  BY <1>1, <1>5
     DEF Reading, BeginReceive, Receive, Redial, ReceiveCanceled, ReceiveFails,
         AfterReceive, CounterInv, TypeOK
<1>6. ASSUME NEW s \in Subscribers, SendRtt(s) \/ Exit(s) PROVE CounterInv'
  BY <1>1, <1>6 DEF SendRtt, Exit, CounterInv, TypeOK
<1>7. ASSUME NEW s \in Subscribers, Drop(s) \/ TickFires(s) PROVE CounterInv'
  BY <1>1, <1>7 DEF Drop, TickFires, CounterInv
<1>8. CASE Cancel \/ DrainRtt \/ UNCHANGED vars
  BY <1>1, <1>8 DEF Cancel, DrainRtt, CounterInv, vars
<1> QED
  BY <1>2, <1>3, <1>4, <1>5, <1>6, <1>7, <1>8 DEF Next, Routine, Environment

\* IInv is an invariant of the routines.
LEMMA StepIInv == IInv /\ [Next]_vars => IInv'
BY TypeStep, ReconnectStep, CopyStep, SettleStep, CounterStep DEF IInv

THEOREM Inductive == Spec => []IInv
BY InitIInv, StepIInv, PTL DEF Spec

-----------------------------------------------------------------------------
\* Type correctness, in particular: the round-trip channel never holds more than
\* its capacity, however many subscribers send to it.
THEOREM TypeCorrect == Spec => []TypeOK
<1>1. IInv => TypeOK
  BY DEF IInv
<1>2. QED
  BY <1>1, Inductive, PTL

\* No subscriber counts a message twice, and none disappears between its
\* connection and the counter except with a connection that was closed
\* (lines 147-236), for any number of subscribers.
THEOREM CopiesAccounted == Spec => []EachCopyOnce
<1>1. IInv => EachCopyOnce
  BY DEF IInv
<1>2. QED
  BY <1>1, Inductive, PTL

\* totalSubscribedChannels is the sum of what the subscribers hold, in whatever
\* order their reconnects and connection errors interleave (lines 147-165).
THEOREM SubscribedIsSum == Spec => []SubscribedSettles
<1>1. IInv => SubscribedSettles
  BY DEF IInv
<1>2. QED
  BY <1>1, Inductive, PTL

\* A reconnect interval never costs a subscriber its only channel (169-170).
THEOREM SingleKept == Spec => []SingleChannelKept
<1>1. IInv => SingleChannelKept
  BY DEF IInv
<1>2. QED
  BY <1>1, Inductive, PTL
=============================================================================
