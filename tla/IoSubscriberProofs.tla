------------------------- MODULE IoSubscriberProofs -------------------------
(***************************************************************************)
(* Proofs about the re-subscribing subscriber of the ioredis client, for   *)
(* any list of channels and any number of overlapping activations, failed  *)
(* commands and messages: the channel that is kept is heard without a gap, *)
(* every channel is heard when nothing is under way, and what the client   *)
(* reports of its subscriptions and messages is bounded by what happened.  *)
(***************************************************************************)
EXTENDS IoSubscriber, SumTheorems

\* The activations, and those that may still duplicate the client.
LEMMA CallFacts ==
    /\ IsFiniteSet(Calls) /\ IsFiniteSet(Conns)
    /\ Cardinality(Calls) = MaxCalls
    /\ 1 \in Calls /\ 1 \in Conns
<1>1. MaxCalls \in Nat /\ MaxCalls >= 1
  BY IoConstants
<1>2. IsFiniteSet(1 .. MaxCalls) /\ Cardinality(1 .. MaxCalls) = MaxCalls
  BY <1>1, CountUpTo
<1> QED
  BY <1>1, <1>2 DEF Calls, Conns

\* A list has a first channel, and channels.slice(1) names channels.
LEMMA ListFacts ==
    ASSUME list \in Lists
    PROVE  /\ list \in Seq(Nat)
           /\ Len(list) \in Nat /\ Len(list) >= 1
           /\ list[1] \in Channels
           /\ Rest \subseteq Channels
<1>1. list \in Seq(Nat) /\ list # <<>>
  BY IoConstants
<1>2. Len(list) \in Nat /\ Len(list) >= 1
  BY <1>1
<1>3. list[1] \in Channels
  BY <1>1, <1>2 DEF Channels, Range
<1>4. /\ Tail(list) \in Seq(Nat)
      /\ Len(Tail(list)) = Len(list) - 1
      /\ \A k \in 1 .. Len(list) - 1 : Tail(list)[k] = list[k + 1]
  BY <1>1, <1>2
<1>5. Rest \subseteq Channels
  BY <1>1, <1>2, <1>4 DEF Rest, Channels, Range
<1> QED
  BY <1>1, <1>2, <1>3, <1>5

\* A list maps its positions onto what it names.
LEMMA ListOnto ==
    ASSUME NEW s \in Seq(Nat)
    PROVE  /\ s \in Surjection(1 .. Len(s), Range(s))
           /\ IsFiniteSet(1 .. Len(s)) /\ Cardinality(1 .. Len(s)) = Len(s)
<1>1. DOMAIN s = 1 .. Len(s) /\ Len(s) \in Nat
  OBVIOUS
<1>2. s = [k \in 1 .. Len(s) |-> s[k]]
  OBVIOUS
<1>3. IsFiniteSet(1 .. Len(s)) /\ Cardinality(1 .. Len(s)) = Len(s)
  BY <1>1, CountUpTo
<1> DEFINE D == 1 .. Len(s)
<1> HIDE DEF D
<1>4. s = [k \in D |-> s[k]] /\ DOMAIN s = D
  BY <1>1, <1>2 DEF D
<1>5. s \in Surjection(D, Range(s))
  BY <1>4 DEF Surjection, Range
<1> QED
  BY <1>3, <1>5 DEF D

\* There are as many channels as the list is long if none is named twice, and
\* at most RestLen of them are given up.
LEMMA ChannelCount ==
    ASSUME list \in Lists
    PROVE  /\ IsFiniteSet(Channels)
           /\ Cardinality(Rest) <= RestLen
           /\ IsInjective(list) => Cardinality(Channels) = Len(list)
<1>1. /\ list \in Seq(Nat) /\ Tail(list) \in Seq(Nat)
      /\ Len(Tail(list)) = Len(list) - 1
  <2>1. list \in Seq(Nat) /\ Len(list) \in Nat /\ Len(list) >= 1
    BY ListFacts
  <2> QED
    BY <2>1
<1> DEFINE D == 1 .. Len(list)
           E == 1 .. Len(Tail(list))
<1>2. /\ IsFiniteSet(D) /\ Cardinality(D) = Len(list)
      /\ list \in Surjection(D, Channels)
  BY <1>1, ListOnto DEF Channels
<1>3. /\ IsFiniteSet(E) /\ Cardinality(E) = Len(Tail(list))
      /\ Tail(list) \in Surjection(E, Rest)
  BY <1>1, ListOnto DEF Rest
<1> HIDE DEF D, E
<1>4. /\ IsFiniteSet(Channels)
      /\ Cardinality(Channels) = Cardinality(D) <=>
            list \in Injection(D, Channels)
  BY <1>2, FS_Surjection
<1>5. Cardinality(Rest) <= Cardinality(E)
  BY <1>3, FS_Surjection
<1>6. IsInjective(list) => list \in Injection(D, Channels)
  BY <1>2 DEF Injection, Surjection
<1> QED
  BY <1>1, <1>2, <1>3, <1>4, <1>5, <1>6 DEF RestLen

-----------------------------------------------------------------------------
\* The subscriber starts in the invariant.
LEMMA InitIInv == Init => IInv
<1> SUFFICES ASSUME Init PROVE IInv
  OBVIOUS
<1> USE DEF Init
<1>1. TypeOK
  <2>1. MaxCalls \in Nat
    BY IoConstants
  <2>2. call \in [Calls -> {"idle", "unsub", "sub", "acked", "ended"}]
    OBVIOUS
  <2>3. opened \in 0 .. MaxCalls /\ {pubsub, target} \subseteq 0 .. opened
    BY <2>1
  <2>4. on \in [Calls -> 0 .. opened] /\ open \subseteq 1 .. opened
    OBVIOUS
  <2>5. subs \in [Conns -> SUBSET Channels] /\ handlers \in [Conns -> Nat]
    OBVIOUS
  <2>6. {timer, isRunning, resolved} \subseteq BOOLEAN
    BY Zenon
  <2>7. /\ totalSubscribed \in Int
        /\ {totalConnects, totalMessages, failures, published} \subseteq Nat
    OBVIOUS
  <2> QED
    BY <2>2, <2>3, <2>4, <2>5, <2>6, <2>7 DEF TypeOK
<1>2. StartInv
  BY CallFacts DEF StartInv
<1>3. OwnerInv
  <2> DEFINE May == {i \in Calls : call[i] \in {"idle", "unsub"}}
  <2>1. May = Calls
    OBVIOUS
  <2> HIDE DEF May
  <2>2. opened + Cardinality(May) <= MaxCalls
    BY <2>1, CallFacts, IoConstants
  <2> QED
    BY <2>2 DEF OwnerInv, Pending, Subscribing, May
<1>4. SubsInv
  BY DEF SubsInv
<1>5. HandlerInv
  <2>1. handlers \in [Conns -> Nat] /\ \A c \in Conns : handlers[c] = 0
    OBVIOUS
  <2>2. SumFunction(handlers) = 0
    BY <2>1, CallFacts, SumZero
  <2> QED
    BY <2>2 DEF HandlerInv, OvercountBounded
<1>6. FirstInv
  BY CallFacts DEF FirstInv
<1>7. YoungestInv
  BY DEF YoungestInv
<1>8. BackedInv
  <2> DEFINE f == [i \in Calls |-> IF call[i] = "acked" THEN Len(list) ELSE 0]
             g == [c \in Conns |-> Cardinality(subs[c])]
  <2>1. f \in [Calls -> Nat] /\ \A i \in Calls : f[i] = 0
    OBVIOUS
  <2>2. g \in [Conns -> Nat] /\ \A c \in Conns : g[c] = 0
    BY FS_EmptySet
  <2> HIDE DEF f, g
  <2>3. SumFunction(f) = 0 /\ SumFunction(g) = 0
    BY <2>1, <2>2, CallFacts, SumZero
  <2> QED
    BY <2>3 DEF f, g, BackedInv
<1> QED
  BY <1>1, <1>2, <1>3, <1>4, <1>5, <1>6, <1>7, <1>8 DEF IInv

-----------------------------------------------------------------------------
\* What the invariant says where a client is duplicated: there is room for one
\* more connection, and nothing is known of it yet.
LEMMA Room ==
    ASSUME IInv, NEW i \in Calls, call[i] \in {"idle", "unsub"}
    PROVE  /\ opened + 1 \in Conns /\ opened + 1 <= MaxCalls
           /\ \A j \in Calls : on[j] # opened + 1
           /\ subs[opened + 1] = {}
           /\ LET May == {j \in Calls : call[j] \in {"idle", "unsub"}}
              IN  /\ Cardinality(May) \in Nat
                  /\ Cardinality(May \ {i}) = Cardinality(May) - 1
<1> DEFINE May == {j \in Calls : call[j] \in {"idle", "unsub"}}
<1>1. IsFiniteSet(May) /\ i \in May
  BY CallFacts, FS_Subset
<1> HIDE DEF May
<1>2. Cardinality(May) \in Nat /\ Cardinality(May \ {i}) = Cardinality(May) - 1
  BY <1>1, FS_CardinalityType, FS_RemoveElement
<1>3. Cardinality(May \ {i}) \in Nat
  BY <1>1, FS_Subset, FS_CardinalityType
<1>4. opened \in Nat /\ opened + Cardinality(May) <= MaxCalls
  BY DEF IInv, TypeOK, OwnerInv, May
<1>5. opened + 1 <= MaxCalls /\ opened + 1 \in Conns
  BY <1>2, <1>3, <1>4, IoConstants DEF Conns
<1>6. \A j \in Calls : on[j] # opened + 1
  BY <1>4 DEF IInv, TypeOK
<1>7. subs[opened + 1] = {}
  BY <1>4, <1>5 DEF IInv, SubsInv
<1> QED
  BY <1>2, <1>5, <1>6, <1>7 DEF May

\* The activations but the first are under way only after it has ended, when
\* there is a connection.
LEMMA AfterFirst ==
    ASSUME IInv, phase # "starting"
    PROVE  call[1] = "ended" /\ opened >= 1
BY CallFacts DEF IInv, StartInv, TypeOK

\* What is left alone by the code of an activation up to its first await.
Prelude ==
    UNCHANGED <<list, subs, handlers, endVars, counters, failures, published>>

\* An activation that duplicates the client at once, and one that first gives up
\* what the shared connection has.
Opens(i) ==
    /\ call[i] = "idle"
    /\ i = 1 <=> phase = "starting"
    /\ Duplicate(i)
    /\ Prelude

GivesUp(i) ==
    /\ call[i] = "idle"
    /\ i # 1
    /\ phase # "starting"
    /\ call' = [call EXCEPT ![i] = "unsub"]
    /\ on' = [on EXCEPT ![i] = pubsub]
    /\ Prelude
    /\ UNCHANGED <<pubsub, opened, open>>

\* Every step is one of these.
LEMMA StepCases ==
    ASSUME IInv, [Next]_vars
    PROVE  \/ \E i \in Calls : Opens(i) \/ GivesUp(i)
           \/ \E i \in Calls : Unsubscribed(i)
           \/ \E i \in Calls : Acknowledged(i)
           \/ \E i \in Calls : Subscribed(i)
           \/ \E i \in Calls : SubscribeFails(i)
           \/ \E ch \in Channels : Publish(ch)
           \/ Stop \/ BeginShutdown \/ Disconnect \/ ForcedTimeout
           \/ UNCHANGED vars
<1>1. ASSUME InitialSubscribe
      PROVE  Opens(1)
  <2>1. call[1] = "idle" /\ phase = "starting" /\ pubsub = 0
    BY <1>1 DEF InitialSubscribe, IInv, StartInv, OwnerInv
  <2> QED
    BY <1>1, <2>1 DEF InitialSubscribe, Begin, Opens, Prelude
<1>2. ASSUME ReconnectFires
      PROVE  \E i \in Calls : Opens(i) \/ GivesUp(i)
  <2>1. phase # "starting" /\ call[1] = "ended"
    BY <1>2, AfterFirst DEF ReconnectFires, IInv, StartInv
  <2>2. PICK i \in Calls : Begin(i)
    BY <1>2 DEF ReconnectFires
  <2>3. Prelude
    BY <1>2, <2>2 DEF ReconnectFires, Begin, Prelude
  <2>4. call[i] = "idle" /\ i # 1
    BY <2>1, <2>2 DEF Begin, Fresh
  <2>5. Opens(i) \/ GivesUp(i)
    BY <2>1, <2>2, <2>3, <2>4 DEF Begin, Opens, GivesUp
  <2> QED
    BY <2>5
<1> QED
  BY <1>1, <1>2, CallFacts DEF Next, Activation

\* What Settle changes.
LEMMA SettleFacts ==
    ASSUME TypeOK, NEW i, Settle(i)
    PROVE  /\ timer' \in BOOLEAN /\ isRunning' \in BOOLEAN
           /\ resolved' \in BOOLEAN
           /\ phase' \in {"starting", "checking", "unsub", "shut"}
           /\ UNCHANGED <<isRunning, target, resolved>>
           /\ phase' = IF i = 1 THEN "checking" ELSE phase
           /\ i = 1 => timer' = Reconnect
           /\ i # 1 => timer' = timer
<1>1. /\ timer \in BOOLEAN /\ isRunning \in BOOLEAN /\ resolved \in BOOLEAN
      /\ phase \in {"starting", "checking", "unsub", "shut"}
  BY DEF TypeOK
<1>2. CASE i = 1
  BY <1>1, <1>2, IoConstants DEF Settle
<1>3. CASE i # 1
  BY <1>1, <1>3 DEF Settle, endVars
<1> QED
  BY <1>2, <1>3

\* The handler goes to the youngest connection.
LEMMA Attached ==
    ASSUME IInv, NEW i \in Calls, Subscribed(i)
    PROVE  /\ opened \in Conns
           /\ handlers' \in [Conns -> Nat]
           /\ handlers'[opened] = handlers[opened] + 1
           /\ \A c \in Conns \ {opened} : handlers'[c] = handlers[c]
<1>1. handlers \in [Conns -> Nat] /\ opened \in 0 .. MaxCalls
  BY DEF IInv, TypeOK
<1>2. opened >= 1
  <2>1. on[i] \in 1 .. opened
    BY DEF Subscribed, IInv, OwnerInv, Pending
  <2> QED
    BY <1>1, <2>1, IoConstants
<1>3. opened \in Conns
  BY <1>1, <1>2, IoConstants DEF Conns
<1>4. handlers' = [handlers EXCEPT ![opened] = handlers[opened] + 1]
  BY DEF Subscribed, Attach, IInv, OwnerInv
<1> HIDE DEF Conns
<1>5. handlers[opened] + 1 \in Nat
  BY <1>1, <1>3
<1> QED
  BY <1>1, <1>3, <1>4, <1>5

\* What a failed command leaves of the subscriptions of its connection.
LEMMA FailureFacts ==
    ASSUME IInv, NEW i \in Calls, SubscribeFails(i)
    PROVE  \/ on[i] \notin open /\ UNCHANGED <<failures, subs>>
           \/ /\ on[i] \in open
              /\ failures \in Nat /\ failures' = failures + 1
              /\ \E left \in {subs[on[i]], subs[on[i]] \ Rest, Channels} :
                    /\ call[i] = "sub" => left \in {subs[on[i]], Channels}
                    /\ call[i] = "unsub" =>
                          left \in {subs[on[i]], subs[on[i]] \ Rest}
                    /\ subs' = [subs EXCEPT ![on[i]] = left]
<1>1. CASE on[i] \notin open
  BY <1>1 DEF SubscribeFails
<1>2. CASE on[i] \in open
  <2>1. /\ failures \in Nat /\ failures' = failures + 1
        /\ call[i] \in {"unsub", "sub"}
    BY <1>2 DEF SubscribeFails, IInv, TypeOK
  <2>2. PICK effect \in BOOLEAN :
           subs' = [subs EXCEPT ![on[i]] =
                       CASE ~effect -> @
                         [] effect /\ call[i] = "unsub" -> @ \ Rest
                         [] effect /\ call[i] = "sub" -> Channels]
    BY <1>2 DEF SubscribeFails
  <2>3. CASE ~effect
    <3>1. subs' = [subs EXCEPT ![on[i]] = subs[on[i]]]
      BY <2>2, <2>3
    <3> QED
      BY <1>2, <2>1, <3>1
  <2>4. CASE effect /\ call[i] = "unsub"
    <3>1. subs' = [subs EXCEPT ![on[i]] = subs[on[i]] \ Rest]
      BY <2>2, <2>4
    <3> QED
      BY <1>2, <2>1, <2>4, <3>1
  <2>5. CASE effect /\ call[i] = "sub"
    <3>1. subs' = [subs EXCEPT ![on[i]] = Channels]
      BY <2>2, <2>5
    <3> QED
      BY <1>2, <2>1, <2>5, <3>1
  <2> QED
    BY <2>1, <2>3, <2>4, <2>5
<1> QED
  BY <1>1, <1>2

-----------------------------------------------------------------------------
\* Every step keeps every variable in its type.
LEMMA TypeStep == IInv /\ [Next]_vars => TypeOK'
<1> SUFFICES ASSUME IInv, [Next]_vars PROVE TypeOK'
  OBVIOUS
<1> USE DEF TypeOK, endVars, connVars, counters, Prelude
<1>0. /\ TypeOK /\ pubsub = opened /\ MaxCalls \in Nat
      /\ Len(list) \in Nat /\ Rest \subseteq Channels
  BY ListFacts, IoConstants DEF IInv, OwnerInv
<1>1. ASSUME NEW i \in Calls, Opens(i) PROVE TypeOK'
  <2>1. opened + 1 <= MaxCalls
    BY <1>1, Room DEF Opens
  <2> QED
    BY <1>0, <1>1, <2>1 DEF Opens, Duplicate, NewConn, Channels
<1>2. ASSUME NEW i \in Calls, GivesUp(i) PROVE TypeOK'
  BY <1>0, <1>2 DEF GivesUp, Channels
<1>3. ASSUME NEW i \in Calls, Unsubscribed(i) PROVE TypeOK'
  <2>1. opened + 1 <= MaxCalls
    BY <1>3, Room DEF Unsubscribed
  <2>2. subs' \in [Conns -> SUBSET Channels]
    BY <1>0, <1>3 DEF Unsubscribed
  <2> QED
    BY <1>0, <1>3, <2>1, <2>2 DEF Unsubscribed, Duplicate, NewConn, RestLen,
                                  Channels
<1>4. ASSUME NEW i \in Calls, Acknowledged(i) PROVE TypeOK'
  BY <1>0, <1>4 DEF Acknowledged, Channels
<1>5. ASSUME NEW i \in Calls, Subscribed(i) PROVE TypeOK'
  <2>1. /\ timer' \in BOOLEAN /\ isRunning' \in BOOLEAN /\ resolved' \in BOOLEAN
        /\ target' = target
        /\ phase' \in {"starting", "checking", "unsub", "shut"}
    <3>1. Settle(i) /\ TypeOK
      BY <1>0, <1>5 DEF Subscribed
    <3> QED
      BY <3>1, SettleFacts
  <2>2. handlers' \in [Conns -> Nat]
    BY <1>0, <1>5, Attached
  <2> QED
    BY <1>0, <1>5, <2>1, <2>2 DEF Subscribed, Channels
<1>6. ASSUME NEW i \in Calls, SubscribeFails(i) PROVE TypeOK'
  <2>1. /\ timer' \in BOOLEAN /\ isRunning' \in BOOLEAN /\ resolved' \in BOOLEAN
        /\ target' = target
        /\ phase' \in {"starting", "checking", "unsub", "shut"}
    <3>1. Settle(i) /\ TypeOK
      BY <1>0, <1>6 DEF SubscribeFails
    <3> QED
      BY <3>1, SettleFacts
  <2>2. subs' \in [Conns -> SUBSET Channels] /\ failures' \in Nat
    <3>1. subs \in [Conns -> SUBSET Channels] /\ failures \in Nat
      BY <1>0
    <3>2. CASE UNCHANGED <<failures, subs>>
      BY <3>1, <3>2, <1>0, <1>6 DEF SubscribeFails
    <3>3. CASE /\ failures' = failures + 1
               /\ \E left \in {subs[on[i]], subs[on[i]] \ Rest, Channels} :
                     subs' = [subs EXCEPT ![on[i]] = left]
      <4>1. PICK left \in {subs[on[i]], subs[on[i]] \ Rest, Channels} :
               subs' = [subs EXCEPT ![on[i]] = left]
        BY <3>3
      <4>2. on[i] \in Conns => left \subseteq Channels
        BY <3>1, <4>1, <1>0
      <4>3. subs' \in [Conns -> SUBSET Channels]
        BY <3>1, <4>1, <4>2
      <4> QED
        BY <3>1, <3>3, <4>3
    <3> QED
      BY <1>6, <3>2, <3>3, FailureFacts
  <2> QED
    BY <1>0, <1>6, <2>1, <2>2 DEF SubscribeFails, Channels
<1>7. ASSUME NEW ch \in Channels, Publish(ch) PROVE TypeOK'
  <2>1. SumFunction([c \in {c \in open : ch \in subs[c]} |-> handlers[c]]) \in Nat
    <3> DEFINE T == {c \in open : ch \in subs[c]}
    <3>1. open \subseteq Conns
      <4>1. open \subseteq 1 .. opened /\ opened \in 0 .. MaxCalls
        BY <1>0
      <4> QED
        BY <1>0, <4>1 DEF Conns
    <3>2. IsFiniteSet(T)
      BY <3>1, CallFacts, FS_Subset
    <3>3. [c \in T |-> handlers[c]] \in [T -> Nat]
      BY <1>0, <3>1
    <3> HIDE DEF T
    <3> QED
      BY <3>2, <3>3, SumType DEF T
  <2> QED
    BY <1>0, <1>7, <2>1 DEF Publish, Channels
<1>8. CASE Stop
  BY <1>0, <1>8 DEF Stop, Channels
<1>9. CASE BeginShutdown
  BY <1>0, <1>9 DEF BeginShutdown, Channels
<1>10. CASE Disconnect
  BY <1>0, <1>10 DEF Disconnect, Channels
<1>11. CASE ForcedTimeout
  BY <1>0, <1>11 DEF ForcedTimeout, Channels
<1>12. CASE UNCHANGED vars
  BY <1>0, <1>12 DEF vars, Channels
<1> QED
  BY <1>1, <1>2, <1>3, <1>4, <1>5, <1>6, <1>7, <1>8, <1>9, <1>10, <1>11,
     <1>12, StepCases

-----------------------------------------------------------------------------
\* The initial subscription stays alone until it ends.
LEMMA StartStep == IInv /\ [Next]_vars => StartInv'
<1> SUFFICES ASSUME IInv, [Next]_vars PROVE StartInv'
  OBVIOUS
<1>1. /\ StartInv /\ 1 \in Calls /\ opened \in Nat
      /\ call \in [Calls -> {"idle", "unsub", "sub", "acked", "ended"}]
  BY CallFacts DEF IInv, TypeOK
<1>2. ASSUME NEW i \in Calls, Opens(i) PROVE StartInv'
  BY <1>1, <1>2, AfterFirst
     DEF Opens, Duplicate, NewConn, Prelude, endVars, StartInv
<1>3. ASSUME NEW i \in Calls, GivesUp(i) PROVE StartInv'
  BY <1>1, <1>3 DEF GivesUp, Prelude, endVars, StartInv
<1>4. ASSUME NEW i \in Calls, Unsubscribed(i) PROVE StartInv'
  <2>1. phase # "starting" /\ i # 1
    BY <1>1, <1>4 DEF Unsubscribed, StartInv
  <2>2. call[1] = "ended" /\ opened >= 1
    BY <2>1, AfterFirst
  <2> QED
    BY <1>1, <1>4, <2>1, <2>2
       DEF Unsubscribed, Duplicate, NewConn, endVars, StartInv
<1>5. ASSUME NEW i \in Calls, Acknowledged(i) PROVE StartInv'
  BY <1>1, <1>5 DEF Acknowledged, endVars, StartInv
\* What ends is the initial subscription, or a later one in a later phase.
<1>6. ASSUME NEW i \in Calls, Settle(i), UNCHANGED opened,
             call' = [call EXCEPT ![i] = "ended"],
             call[i] \in {"unsub", "sub", "acked"}
      PROVE  StartInv'
  <2>1. phase' = IF i = 1 THEN "checking" ELSE phase
    BY <1>6, SettleFacts DEF IInv
  <2>2. i # 1 => phase # "starting"
    BY <1>1, <1>6 DEF StartInv
  <2>3. phase' # "starting" /\ call'[1] = "ended"
    BY <1>1, <1>6, <2>1, <2>2 DEF StartInv
  <2>4. opened # 0
    BY <1>1, <1>6, <2>2 DEF StartInv
  <2> QED
    BY <1>6, <2>3, <2>4 DEF StartInv
<1>7. ASSUME NEW i \in Calls, Subscribed(i) PROVE StartInv'
  BY <1>6, <1>7 DEF Subscribed
<1>8. ASSUME NEW i \in Calls, SubscribeFails(i) PROVE StartInv'
  BY <1>6, <1>8 DEF SubscribeFails
<1>9. ASSUME NEW ch \in Channels, Publish(ch) PROVE StartInv'
  BY <1>1, <1>9 DEF Publish, connVars, endVars, StartInv
<1>10. CASE Stop \/ BeginShutdown \/ Disconnect \/ ForcedTimeout
  BY <1>1, <1>10 DEF Stop, BeginShutdown, Disconnect, ForcedTimeout, connVars,
                     StartInv
<1>11. CASE UNCHANGED vars
  BY <1>1, <1>11 DEF vars, StartInv
<1> QED
  BY <1>2, <1>3, <1>4, <1>5, <1>7, <1>8, <1>9, <1>10, <1>11, StepCases

-----------------------------------------------------------------------------
\* The activation that duplicates owns the new connection.
LEMMA OwnerDuplicate ==
    ASSUME IInv, NEW i \in Calls, call[i] \in {"idle", "unsub"}, Duplicate(i),
           UNCHANGED phase, i = 1 \/ phase # "starting"
    PROVE  OwnerInv'
<1>1. /\ OwnerInv /\ opened \in Nat /\ on \in [Calls -> 0 .. opened]
      /\ call \in [Calls -> {"idle", "unsub", "sub", "acked", "ended"}]
  BY DEF IInv, TypeOK
<1>2. /\ opened' = opened + 1 /\ pubsub' = opened + 1
      /\ open' = open \cup {opened + 1}
      /\ on' = [on EXCEPT ![i] = opened + 1]
      /\ call' = [call EXCEPT ![i] = "sub"]
  BY DEF Duplicate, NewConn
<1>3. opened' + Cardinality({j \in Calls : call'[j] \in {"idle", "unsub"}})
         <= MaxCalls
  <2> DEFINE May == {j \in Calls : call[j] \in {"idle", "unsub"}}
             May2 == {j \in Calls : call'[j] \in {"idle", "unsub"}}
  <2>1. May2 = May \ {i}
    BY <1>1, <1>2
  <2>2. Cardinality(May) \in Nat /\ Cardinality(May \ {i}) = Cardinality(May) - 1
    BY Room
  <2>3. opened + Cardinality(May) <= MaxCalls
    BY <1>1 DEF OwnerInv
  <2> HIDE DEF May, May2
  <2>4. opened' + Cardinality(May2) <= MaxCalls
    BY <1>1, <1>2, <2>1, <2>2, <2>3, IoConstants
  <2> QED
    BY <2>4 DEF May2
<1>4. phase' # "shut" => open' = 1 .. opened'
  BY <1>1, <1>2 DEF OwnerInv
<1>5. \A j \in Pending' : on'[j] \in 1 .. opened'
  BY <1>1, <1>2 DEF OwnerInv, Pending
<1>6. \A j \in Calls \ {1} : Subscribing(j)' => on'[j] > 1
  <2>1. i # 1 => opened >= 1
    BY AfterFirst
  <2> QED
    BY <1>1, <1>2, <2>1 DEF OwnerInv, Subscribing
<1>7. \A j, k \in Calls :
         Subscribing(j)' /\ Subscribing(k)' /\ on'[j] = on'[k] => j = k
  BY <1>1, <1>2, Room DEF OwnerInv, Subscribing
<1> QED
  BY <1>2, <1>3, <1>4, <1>5, <1>6, <1>7 DEF OwnerInv

\* Connections keep their owners.
LEMMA OwnerStep == IInv /\ [Next]_vars => OwnerInv'
<1> SUFFICES ASSUME IInv, [Next]_vars PROVE OwnerInv'
  OBVIOUS
<1>1. /\ OwnerInv /\ opened \in Nat /\ on \in [Calls -> 0 .. opened]
      /\ call \in [Calls -> {"idle", "unsub", "sub", "acked", "ended"}]
  BY DEF IInv, TypeOK
<1>2. ASSUME NEW i \in Calls, Opens(i) PROVE OwnerInv'
  BY <1>2, OwnerDuplicate DEF Opens, Prelude, endVars
<1>3. ASSUME NEW i \in Calls, Unsubscribed(i) PROVE OwnerInv'
  <2>1. i = 1 \/ phase # "starting"
    BY <1>3 DEF Unsubscribed, IInv, StartInv
  <2> QED
    BY <1>3, <2>1, OwnerDuplicate DEF Unsubscribed, endVars
\* No connection is opened, and an activation that may still open one or has a
\* command pending was one of these before.
<1>4. ASSUME UNCHANGED <<pubsub, opened>>, open' = open \/ phase' = "shut",
             phase = "shut" => phase' = "shut",
             \A j \in Calls :
                /\ call'[j] \in {"idle", "unsub"} =>
                      call[j] \in {"idle", "unsub"}
                /\ Subscribing(j)' => Subscribing(j) /\ on'[j] = on[j]
                /\ call'[j] = "unsub" =>
                      \/ call[j] = "unsub" /\ on'[j] = on[j]
                      \/ on'[j] = opened /\ opened >= 1
      PROVE  OwnerInv'
  <2> DEFINE May == {j \in Calls : call[j] \in {"idle", "unsub"}}
             May2 == {j \in Calls : call'[j] \in {"idle", "unsub"}}
  <2>1. May2 \subseteq May /\ May \subseteq Calls
    BY <1>4
  <2>2. opened + Cardinality(May) <= MaxCalls
    BY <1>1 DEF OwnerInv
  <2> HIDE DEF May, May2
  <2>3. IsFiniteSet(May)
    BY <2>1, CallFacts, FS_Subset
  <2>4. /\ Cardinality(May2) <= Cardinality(May)
        /\ Cardinality(May) \in Nat /\ Cardinality(May2) \in Nat
    BY <2>1, <2>3, FS_Subset, FS_CardinalityType
  <2>5. opened' + Cardinality(May2) <= MaxCalls
    BY <1>1, <1>4, <2>2, <2>4, IoConstants
  <2>6. \A j \in Pending' : on'[j] \in 1 .. opened'
    <3> SUFFICES ASSUME NEW j \in Calls, j \in Pending'
                 PROVE  on'[j] \in 1 .. opened
      BY <1>4 DEF Pending
    <3>1. CASE Subscribing(j)'
      BY <1>1, <1>4, <3>1 DEF OwnerInv, Pending, Subscribing
    <3>2. CASE call'[j] = "unsub"
      BY <1>1, <1>4, <3>2 DEF OwnerInv, Pending
    <3> QED
      BY <3>1, <3>2 DEF Pending, Subscribing
  <2>7. \A j \in Calls \ {1} : Subscribing(j)' => on'[j] > 1
    BY <1>1, <1>4 DEF OwnerInv
  <2>8. \A j, k \in Calls :
           Subscribing(j)' /\ Subscribing(k)' /\ on'[j] = on'[k] => j = k
    BY <1>1, <1>4 DEF OwnerInv
  <2>9. pubsub' = opened' /\ (phase' # "shut" => open' = 1 .. opened')
    BY <1>1, <1>4 DEF OwnerInv
  <2> QED
    BY <2>5, <2>6, <2>7, <2>8, <2>9 DEF OwnerInv, May2
<1>5. ASSUME NEW i \in Calls, GivesUp(i) PROVE OwnerInv'
  <2>1. opened >= 1 /\ pubsub = opened
    BY <1>1, <1>5, AfterFirst DEF GivesUp, OwnerInv
  <2> QED
    BY <1>1, <1>4, <1>5, <2>1 DEF GivesUp, Prelude, endVars, Subscribing
<1>6. ASSUME NEW i \in Calls, Acknowledged(i) PROVE OwnerInv'
  BY <1>1, <1>4, <1>6 DEF Acknowledged, endVars, Subscribing
<1>7. ASSUME NEW i \in Calls, UNCHANGED <<on, pubsub, opened, open>>,
             Settle(i), call' = [call EXCEPT ![i] = "ended"],
             call[i] \in {"unsub", "sub", "acked"}
      PROVE  OwnerInv'
  <2>1. phase = "shut" => phase' = "shut"
    <3>1. phase' = IF i = 1 THEN "checking" ELSE phase
      BY <1>7, SettleFacts DEF IInv
    <3>2. phase # "starting" => i # 1
      BY <1>7, AfterFirst
    <3> QED
      BY <3>1, <3>2
  <2> QED
    BY <1>1, <1>4, <1>7, <2>1 DEF Subscribing
<1>8. ASSUME NEW i \in Calls, Subscribed(i) PROVE OwnerInv'
  BY <1>7, <1>8 DEF Subscribed
<1>9. ASSUME NEW i \in Calls, SubscribeFails(i) PROVE OwnerInv'
  BY <1>7, <1>9 DEF SubscribeFails
<1>10. ASSUME NEW ch \in Channels, Publish(ch) PROVE OwnerInv'
  BY <1>4, <1>10 DEF Publish, connVars, endVars, Subscribing
<1>11. CASE Stop \/ BeginShutdown \/ Disconnect \/ ForcedTimeout
  BY <1>4, <1>11 DEF Stop, BeginShutdown, Disconnect, ForcedTimeout, connVars,
                     Subscribing
<1>12. CASE UNCHANGED vars
  BY <1>4, <1>12 DEF vars, Subscribing
<1> QED
  BY <1>2, <1>3, <1>5, <1>6, <1>8, <1>9, <1>10, <1>11, <1>12, StepCases

-----------------------------------------------------------------------------
\* What is open or was duplicated.
LEMMA ConnFacts ==
    ASSUME IInv
    PROVE  /\ opened \in Nat /\ opened <= MaxCalls /\ pubsub = opened
           /\ on \in [Calls -> 0 .. opened]
           /\ call \in [Calls -> {"idle", "unsub", "sub", "acked", "ended"}]
           /\ subs \in [Conns -> SUBSET Channels]
           /\ 1 .. opened \subseteq Conns
           /\ \A i \in Pending : on[i] \in Conns /\ on[i] <= opened
<1>1. opened \in Nat /\ opened <= MaxCalls
  BY IoConstants DEF IInv, TypeOK
<1>2. 1 .. opened \subseteq Conns
  BY <1>1, IoConstants DEF Conns
<1>3. \A i \in Pending : on[i] \in 1 .. opened
  BY DEF IInv, OwnerInv
<1>4. \A i \in Pending : on[i] \in Conns /\ on[i] <= opened
  BY <1>1, <1>2, <1>3
<1> QED
  BY <1>1, <1>2, <1>4 DEF IInv, TypeOK, OwnerInv

\* What was not yet acknowledged stays unsubscribed.
LEMMA SubsStep == IInv /\ [Next]_vars => SubsInv'
<1> SUFFICES ASSUME IInv, [Next]_vars PROVE SubsInv'
  OBVIOUS
<1>1. /\ SubsInv
      /\ opened \in Nat /\ on \in [Calls -> 0 .. opened]
      /\ call \in [Calls -> {"idle", "unsub", "sub", "acked", "ended"}]
      /\ subs \in [Conns -> SUBSET Channels]
      /\ \A i \in Pending : on[i] \in Conns /\ on[i] <= opened
  BY ConnFacts DEF IInv
<1>2. Conns \subseteq Nat
  BY DEF Conns
\* Subscriptions are only given up, and the client may be duplicated.
<1>3. ASSUME \A c \in Conns : subs'[c] \subseteq subs[c],
             NEW i \in Calls, call[i] \in {"idle", "unsub"}, Duplicate(i)
      PROVE  SubsInv'
  <2>1. opened' = opened + 1 /\ opened + 1 \in Conns /\ subs[opened + 1] = {}
    <3>1. opened + 1 \in Conns /\ subs[opened + 1] = {}
      BY <1>3, Room
    <3> QED
      BY <1>3, <3>1 DEF Duplicate, NewConn
  <2>2. ASSUME NEW c \in Conns, c > opened'
        PROVE  subs'[c] = {}
    <3>1. c > opened
      BY <1>1, <1>2, <2>1, <2>2
    <3>2. subs[c] = {} /\ subs'[c] \subseteq subs[c]
      BY <1>1, <1>3, <3>1 DEF SubsInv
    <3> QED
      BY <3>2
  <2>3. ASSUME NEW j \in Calls, call'[j] = "sub"
        PROVE  subs'[on'[j]] = {}
    <3>1. CASE j = i
      BY <1>1, <1>3, <2>1, <3>1 DEF Duplicate, NewConn
    <3>2. CASE j # i
      <4>1. call[j] = "sub" /\ on'[j] = on[j]
        BY <1>1, <1>3, <2>3, <3>2 DEF Duplicate
      <4> QED
        BY <1>1, <1>3, <4>1 DEF SubsInv, Pending
    <3> QED
      BY <3>1, <3>2
  <2> QED
    BY <2>2, <2>3 DEF SubsInv
<1>4. ASSUME NEW i \in Calls, Opens(i) PROVE SubsInv'
  BY <1>3, <1>4 DEF Opens, Prelude
<1>5. ASSUME NEW i \in Calls, Unsubscribed(i) PROVE SubsInv'
  <2>1. \A c \in Conns : subs'[c] \subseteq subs[c]
    BY <1>1, <1>5 DEF Unsubscribed
  <2> QED
    BY <1>3, <1>5, <2>1 DEF Unsubscribed
<1>6. ASSUME NEW i \in Calls, GivesUp(i) PROVE SubsInv'
  BY <1>1, <1>6 DEF GivesUp, Prelude, SubsInv
\* An activation whose connection may be subscribed has no command pending.
<1>7. ASSUME NEW i \in Calls, call[i] \in {"unsub", "sub"}, call'[i] # "sub",
             \A j \in Calls \ {i} : call'[j] = call[j],
             UNCHANGED <<on, opened>>, subs' \in [Conns -> SUBSET Channels],
             \A c \in Conns \ {on[i]} : subs'[c] = subs[c],
             call[i] = "sub" \/ subs'[on[i]] \subseteq subs[on[i]]
      PROVE  SubsInv'
  <2>1. on[i] \in Conns /\ on[i] <= opened
    BY <1>1, <1>7 DEF Pending
  <2>2. \A c \in Conns : c > opened' => subs'[c] = {}
    BY <1>1, <1>2, <1>7, <2>1 DEF SubsInv
  <2>3. ASSUME NEW j \in Calls, call'[j] = "sub"
        PROVE  subs'[on'[j]] = {}
    <3>1. j # i /\ call[j] = "sub" /\ subs[on[j]] = {} /\ on[j] \in Conns
      BY <1>1, <1>7, <2>3 DEF SubsInv, Pending
    <3>2. on[j] # on[i] \/ subs'[on[i]] \subseteq subs[on[i]]
      BY <1>7, <3>1 DEF IInv, OwnerInv, Subscribing
    <3> QED
      BY <1>7, <3>1, <3>2
  <2> QED
    BY <2>2, <2>3 DEF SubsInv
<1>8. ASSUME NEW i \in Calls, Acknowledged(i) PROVE SubsInv'
  <2>1. subs' \in [Conns -> SUBSET Channels]
    BY <1>1, <1>8 DEF Acknowledged
  <2> QED
    BY <1>1, <1>7, <1>8, <2>1 DEF Acknowledged
<1>9. ASSUME NEW i \in Calls, Subscribed(i) PROVE SubsInv'
  BY <1>1, <1>9 DEF Subscribed, SubsInv
<1>10. ASSUME NEW i \in Calls, SubscribeFails(i) PROVE SubsInv'
  <2>1. /\ call[i] \in {"unsub", "sub"} /\ UNCHANGED <<on, opened>>
        /\ call' = [call EXCEPT ![i] = "ended"]
    BY <1>10 DEF SubscribeFails
  <2>2. CASE UNCHANGED subs
    BY <1>1, <2>1, <2>2 DEF SubsInv
  <2>3. ASSUME NEW left, subs' = [subs EXCEPT ![on[i]] = left],
               left \in {subs[on[i]], subs[on[i]] \ Rest, Channels},
               call[i] = "unsub" => left \in {subs[on[i]], subs[on[i]] \ Rest}
        PROVE  SubsInv'
    <3>1. /\ left \subseteq Channels
          /\ call[i] = "sub" \/ left \subseteq subs[on[i]]
      BY <1>1, <2>1, <2>3 DEF Pending
    <3>2. subs' \in [Conns -> SUBSET Channels] /\ on[i] \in Conns
      BY <1>1, <2>1, <2>3, <3>1 DEF Pending
    <3> QED
      BY <1>1, <1>7, <2>1, <2>3, <3>1, <3>2
  <2> QED
    BY <1>10, <2>2, <2>3, FailureFacts
<1>11. ASSUME NEW ch \in Channels, Publish(ch) PROVE SubsInv'
  BY <1>1, <1>11 DEF Publish, connVars, SubsInv
<1>12. CASE Disconnect
  BY <1>1, <1>12 DEF Disconnect, SubsInv, Pending
<1>13. CASE Stop \/ BeginShutdown \/ ForcedTimeout
  BY <1>1, <1>13 DEF Stop, BeginShutdown, ForcedTimeout, connVars, SubsInv
<1>14. CASE UNCHANGED vars
  BY <1>1, <1>14 DEF vars, SubsInv
<1> QED
  BY <1>4, <1>5, <1>6, <1>8, <1>9, <1>10, <1>11, <1>12, <1>13, <1>14,
     StepCases

-----------------------------------------------------------------------------
\* The first connection is the initial subscription's, and that one is over
\* when another runs.
LEMMA FirstFacts ==
    ASSUME IInv, NEW i \in Pending
    PROVE  /\ 1 \in Conns
           /\ i # 1 => call[1] = "ended"
           /\ i = 1 => on[1] = 1 /\ opened = 1 /\ call[1] # "unsub"
           /\ i # 1 /\ Subscribing(i) => on[i] # 1 /\ opened # 1
<1>1. /\ i \in Calls /\ call[i] \in {"unsub", "sub", "acked"}
      /\ on[i] \in 1 .. opened /\ opened \in Nat
  BY DEF IInv, OwnerInv, TypeOK, Pending
<1>2. CASE i = 1
  <2>1. phase = "starting"
    BY <1>1, <1>2, AfterFirst
  <2>2. opened <= 1 /\ call[1] # "unsub"
    BY <2>1 DEF IInv, StartInv
  <2> QED
    BY <1>1, <1>2, <2>2, CallFacts
<1>3. CASE i # 1
  <2>1. phase # "starting"
    BY <1>1, <1>3 DEF IInv, StartInv
  <2>2. Subscribing(i) => on[i] > 1
    BY <1>1, <1>3 DEF IInv, OwnerInv
  <2> QED
    BY <1>1, <1>3, <2>1, <2>2, AfterFirst, CallFacts
<1> QED
  BY <1>2, <1>3

\* The first connection keeps the first channel.
LEMMA FirstStep == IInv /\ [Next]_vars => FirstInv'
<1> SUFFICES ASSUME IInv, [Next]_vars PROVE FirstInv'
  OBVIOUS
<1>1. /\ FirstInv /\ 1 \in Calls /\ 1 \in Conns
      /\ list[1] \in Channels
      /\ call \in [Calls -> {"idle", "unsub", "sub", "acked", "ended"}]
      /\ subs \in [Conns -> SUBSET Channels]
  BY ConnFacts, CallFacts, ListFacts DEF IInv, TypeOK
\* The initial subscription is not being acknowledged, no handler is attached to
\* its connection, and at most the rest of the list is given up.
<1>2. ASSUME list' = list, phase = "shut" => phase' = "shut",
             call'[1] # "acked", handlers'[1] = handlers[1],
             subs[1] \ Rest \subseteq subs'[1]
      PROVE  FirstInv'
  BY <1>1, <1>2 DEF FirstInv, Rest
\* Nothing changes for the first connection.
<1>3. ASSUME UNCHANGED <<list, subs, handlers>>,
             call'[1] = "acked" => call[1] = "acked",
             phase = "shut" => phase' = "shut"
      PROVE  FirstInv'
  BY <1>1, <1>3 DEF FirstInv, Rest, Channels
<1>4. ASSUME NEW i \in Calls, Opens(i) PROVE FirstInv'
  BY <1>1, <1>3, <1>4 DEF Opens, Duplicate, Prelude, endVars
<1>5. ASSUME NEW i \in Calls, GivesUp(i) PROVE FirstInv'
  BY <1>1, <1>3, <1>5 DEF GivesUp, Prelude, endVars
<1>6. ASSUME NEW i \in Calls, Unsubscribed(i) PROVE FirstInv'
  <2>1. i # 1 /\ call[1] = "ended"
    BY <1>6, FirstFacts DEF Unsubscribed, Pending
  <2>2. subs[1] \ Rest \subseteq subs'[1]
    BY <1>1, <1>6 DEF Unsubscribed
  <2>3. call'[1] = "ended"
    BY <1>1, <1>6, <2>1 DEF Unsubscribed, Duplicate
  <2> QED
    BY <1>2, <1>6, <2>2, <2>3 DEF Unsubscribed, endVars
<1>7. ASSUME NEW i \in Calls, Acknowledged(i) PROVE FirstInv'
  <2>1. i \in Pending /\ Subscribing(i)
    BY <1>7 DEF Acknowledged, Pending, Subscribing
  <2>2. CASE i = 1
    <3>1. subs'[1] = Channels
      BY <1>1, <1>7, <2>1, <2>2, FirstFacts DEF Acknowledged
    <3> QED
      BY <1>1, <1>7, <3>1 DEF Acknowledged, FirstInv, Channels
  <2>3. CASE i # 1
    <3>1. subs'[1] = subs[1] /\ call'[1] = "ended"
      BY <1>1, <1>7, <2>1, <2>3, FirstFacts DEF Acknowledged
    <3> QED
      BY <1>2, <1>7, <3>1 DEF Acknowledged, endVars
  <2> QED
    BY <2>2, <2>3
<1>8. ASSUME NEW i \in Calls, Subscribed(i) PROVE FirstInv'
  <2>1. /\ i \in Pending /\ Subscribing(i) /\ call'[i] = "ended"
        /\ \A j \in Calls \ {i} : call'[j] = call[j]
        /\ UNCHANGED <<list, subs>> /\ Settle(i)
    BY <1>1, <1>8 DEF Subscribed, Pending, Subscribing
  <2>2. CASE i = 1
    <3>1. subs[1] = Channels
      BY <1>1, <1>8, <2>2 DEF Subscribed, FirstInv
    <3> QED
      BY <1>1, <2>1, <2>2, <3>1 DEF FirstInv
  <2>3. CASE i # 1
    <3>1. opened # 1 /\ call'[1] = "ended"
      BY <1>1, <2>1, <2>3, FirstFacts
    <3>2. handlers'[1] = handlers[1]
      BY <1>1, <1>8, <3>1, Attached
    <3>3. phase' = phase
      BY <2>1, <2>3, SettleFacts DEF IInv
    <3> QED
      BY <1>2, <2>1, <3>1, <3>2, <3>3
  <2> QED
    BY <2>2, <2>3
<1>9. ASSUME NEW i \in Calls, SubscribeFails(i) PROVE FirstInv'
  <2>1. /\ i \in Pending /\ call'[i] = "ended"
        /\ \A j \in Calls \ {i} : call'[j] = call[j]
        /\ UNCHANGED <<list, handlers>> /\ Settle(i)
    BY <1>1, <1>9 DEF SubscribeFails, Pending
  <2>2. call'[1] = "ended"
    BY <1>1, <2>1, FirstFacts
  <2>3. phase = "shut" => phase' = "shut"
    <3>1. phase # "starting" => i # 1
      BY <2>1, AfterFirst DEF Pending
    <3>2. phase' = IF i = 1 THEN "checking" ELSE phase
      BY <2>1, SettleFacts DEF IInv
    <3> QED
      BY <3>1, <3>2
  <2>4. subs[1] \ Rest \subseteq subs'[1]
    <3>1. CASE UNCHANGED subs
      BY <3>1
    <3>2. ASSUME NEW left \in {subs[on[i]], subs[on[i]] \ Rest, Channels},
                 subs' = [subs EXCEPT ![on[i]] = left]
          PROVE  subs[1] \ Rest \subseteq subs'[1]
      <4>1. on[i] \in Conns
        BY <2>1, ConnFacts
      <4>2. subs[on[i]] \ Rest \subseteq left
        BY <1>1, <3>2, <4>1
      <4> QED
        BY <1>1, <3>2, <4>1, <4>2
    <3> QED
      BY <1>9, <3>1, <3>2, FailureFacts
  <2> QED
    BY <1>2, <2>1, <2>2, <2>3, <2>4
<1>10. ASSUME NEW ch \in Channels, Publish(ch) PROVE FirstInv'
  BY <1>3, <1>10 DEF Publish, connVars, endVars
<1>11. CASE Disconnect
  <2>1. call[1] = "ended"
    BY <1>11, AfterFirst DEF Disconnect
  <2> QED
    BY <1>11, <2>1 DEF Disconnect, FirstInv
<1>12. CASE Stop \/ BeginShutdown \/ ForcedTimeout
  BY <1>3, <1>12 DEF Stop, BeginShutdown, ForcedTimeout, connVars
<1>13. CASE UNCHANGED vars
  BY <1>3, <1>13 DEF vars
<1> QED
  BY <1>4, <1>5, <1>6, <1>7, <1>8, <1>9, <1>10, <1>11, <1>12, <1>13, StepCases

-----------------------------------------------------------------------------
\* A message reaches each handler once at most, and there are as many handlers
\* as successful subscriptions.
LEMMA HandlerStep == IInv /\ [Next]_vars => HandlerInv'
<1> SUFFICES ASSUME IInv, [Next]_vars PROVE HandlerInv'
  OBVIOUS
<1>1. /\ SumFunction(handlers) = totalConnects
      /\ totalMessages <= published * totalConnects
      /\ totalMessages \in Nat /\ totalConnects \in Nat /\ published \in Nat
      /\ handlers \in [Conns -> Nat] /\ IsFiniteSet(Conns)
      /\ published * totalConnects \in Nat
  <2>1. totalMessages \in Nat /\ totalConnects \in Nat /\ published \in Nat
    BY DEF IInv, TypeOK
  <2> QED
    BY <2>1, CallFacts DEF IInv, TypeOK, HandlerInv, OvercountBounded
<1>2. \A p, n \in Nat : /\ (p + 1) * n = p * n + n
                       /\ p * (n + 1) = p * n + p
  OBVIOUS
<1>3. ASSUME UNCHANGED <<handlers, totalConnects, totalMessages, published>>
      PROVE  HandlerInv'
  BY <1>3 DEF IInv, HandlerInv, OvercountBounded
<1>4. ASSUME NEW i \in Calls, Subscribed(i) PROVE HandlerInv'
  <2>1. /\ totalConnects' = totalConnects + 1
        /\ UNCHANGED <<totalMessages, published>>
    BY <1>4 DEF Subscribed
  <2>2. /\ opened \in Conns /\ handlers' \in [Conns -> Nat]
        /\ handlers'[opened] = handlers[opened] + 1
        /\ \A c \in Conns \ {opened} : handlers'[c] = handlers[c]
    BY <1>4, Attached
  <2>3. SumFunction(handlers') =
           SumFunction(handlers) - handlers[opened] + handlers'[opened]
    BY <1>1, <2>2, SumExcept
  <2>4. handlers[opened] \in Nat
    BY <1>1, <2>2
  <2>5. SumFunction(handlers') = totalConnects'
    BY <1>1, <2>1, <2>2, <2>3, <2>4
  <2>6. published * (totalConnects + 1) = published * totalConnects + published
    BY <1>1, <1>2
  <2>7. totalMessages' <= published' * totalConnects'
    BY <1>1, <2>1, <2>6
  <2> QED
    BY <2>5, <2>7 DEF HandlerInv, OvercountBounded
<1>5. ASSUME NEW ch \in Channels, Publish(ch) PROVE HandlerInv'
  <2> DEFINE T == {c \in open : ch \in subs[c]}
             f == [c \in T |-> handlers[c]]
  <2>1. /\ published' = published + 1
        /\ totalMessages' = totalMessages + SumFunction(f)
        /\ UNCHANGED <<handlers, totalConnects>>
    BY <1>5 DEF Publish, connVars
  <2>2. T \subseteq Conns
    <3>1. open \subseteq 1 .. opened
      BY DEF IInv, TypeOK
    <3> QED
      BY <3>1, ConnFacts
  <2>3. f \in [T -> Nat] /\ \A c \in T : f[c] <= handlers[c]
    BY <1>1, <2>2
  <2>4. IsFiniteSet(T)
    BY <1>1, <2>2, FS_Subset
  <2> HIDE DEF T, f
  <2>5. SumFunction(f) \in Nat /\ SumFunction(f) <= totalConnects
    BY <1>1, <2>2, <2>3, <2>4, SumMonotone, SumType
  <2>6. (published + 1) * totalConnects
           = published * totalConnects + totalConnects
    BY <1>1, <1>2
  <2>7. totalMessages' <= published' * totalConnects'
    BY <1>1, <2>1, <2>5, <2>6
  <2> QED
    BY <1>1, <2>1, <2>7 DEF HandlerInv, OvercountBounded
<1>6. ASSUME NEW i \in Calls, Opens(i) \/ GivesUp(i) PROVE HandlerInv'
  BY <1>3, <1>6 DEF Opens, GivesUp, Prelude, counters
<1>7. ASSUME NEW i \in Calls,
             Unsubscribed(i) \/ Acknowledged(i) \/ SubscribeFails(i)
      PROVE  HandlerInv'
  BY <1>3, <1>7 DEF Unsubscribed, Acknowledged, SubscribeFails, counters
<1>8. CASE Stop \/ BeginShutdown \/ Disconnect \/ ForcedTimeout
  BY <1>3, <1>8 DEF Stop, BeginShutdown, Disconnect, ForcedTimeout, connVars,
                    counters
<1>9. CASE UNCHANGED vars
  BY <1>3, <1>9 DEF vars
<1> QED
  BY <1>4, <1>5, <1>6, <1>7, <1>8, <1>9, StepCases

-----------------------------------------------------------------------------
\* A command fails on an open connection, or after the shutdown.
LEMMA FailureCounts ==
    ASSUME IInv, NEW i \in Calls, SubscribeFails(i)
    PROVE  failures' # 0 \/ phase' = "shut"
<1>1. CASE on[i] \in open
  <2>1. failures \in Nat /\ failures' = failures + 1
    BY <1>1, FailureFacts
  <2> QED
    BY <2>1
<1>2. CASE on[i] \notin open
  <2>1. i \in Pending /\ Settle(i)
    BY DEF SubscribeFails, Pending
  <2>2. phase = "shut"
    BY <1>2, <2>1 DEF IInv, OwnerInv
  <2>3. i # 1
    BY <2>1, <2>2, AfterFirst DEF Pending
  <2> QED
    BY <2>1, <2>2, <2>3, SettleFacts DEF IInv
<1> QED
  BY <1>1, <1>2

\* Without failures the youngest connection is heard, or on its way to be.
LEMMA YoungestStep == IInv /\ [Next]_vars => YoungestInv'
<1> SUFFICES ASSUME IInv, [Next]_vars PROVE YoungestInv'
  OBVIOUS
<1>1. /\ YoungestInv /\ opened \in Nat /\ on \in [Calls -> 0 .. opened]
      /\ call \in [Calls -> {"idle", "unsub", "sub", "acked", "ended"}]
      /\ subs \in [Conns -> SUBSET Channels]
      /\ \A i \in Pending : on[i] \in Conns
  BY ConnFacts DEF IInv
\* The youngest connection is a new one.
<1>2. ASSUME NEW i \in Calls, Duplicate(i) PROVE YoungestInv'
  <2>1. call'[i] = "sub" /\ on'[i] = opened'
    BY <1>1, <1>2 DEF Duplicate, NewConn
  <2> QED
    BY <2>1 DEF YoungestInv
\* Nothing changes for it.
<1>3. ASSUME UNCHANGED <<list, opened, subs, handlers>>,
             failures' = 0 => failures = 0,
             phase = "shut" => phase' = "shut",
             \A i \in Calls : call[i] \in {"sub", "acked"} =>
                                 call'[i] = call[i] /\ on'[i] = on[i]
      PROVE  YoungestInv'
  BY <1>1, <1>3 DEF YoungestInv, Channels
<1>4. ASSUME NEW i \in Calls, Opens(i) PROVE YoungestInv'
  BY <1>2, <1>4 DEF Opens
<1>5. ASSUME NEW i \in Calls, GivesUp(i) PROVE YoungestInv'
  BY <1>1, <1>3, <1>5 DEF GivesUp, Prelude, endVars
<1>6. ASSUME NEW i \in Calls, Unsubscribed(i) PROVE YoungestInv'
  BY <1>2, <1>6 DEF Unsubscribed
<1>7. ASSUME NEW i \in Calls, Acknowledged(i) PROVE YoungestInv'
  <2>1. /\ call[i] = "sub" /\ call' = [call EXCEPT ![i] = "acked"]
        /\ subs' = [subs EXCEPT ![on[i]] = Channels]
        /\ UNCHANGED <<list, on, opened, handlers, phase, failures>>
    BY <1>7 DEF Acknowledged, endVars
  <2>2. on[i] \in Conns /\ Channels' = Channels
    BY <1>1, <2>1 DEF Pending, Channels
  <2>3. CASE on[i] = opened
    <3>1. subs'[opened'] = Channels' /\ call'[i] = "acked" /\ on'[i] = opened'
      BY <1>1, <2>1, <2>2, <2>3
    <3> QED
      BY <3>1 DEF YoungestInv
  <2>4. CASE on[i] # opened
    <3>1. subs'[opened] = subs[opened]
      BY <1>1, <2>1, <2>4
    <3>2. \A j \in Calls : on[j] = opened => call'[j] = call[j]
      BY <1>1, <2>1, <2>4
    <3> QED
      BY <1>1, <2>1, <2>2, <3>1, <3>2 DEF YoungestInv
  <2> QED
    BY <2>3, <2>4
<1>8. ASSUME NEW i \in Calls, Subscribed(i) PROVE YoungestInv'
  <2>1. /\ call[i] = "acked" /\ call' = [call EXCEPT ![i] = "ended"]
        /\ UNCHANGED <<list, on, opened, subs, failures>> /\ Settle(i)
    BY <1>8 DEF Subscribed
  <2>2. /\ opened \in Conns /\ handlers'[opened] = handlers[opened] + 1
        /\ handlers[opened] \in Nat
    BY <1>8, Attached DEF IInv, TypeOK
  <2>3. phase = "shut" => phase' = "shut"
    <3>1. phase = "shut" => i # 1
      BY <2>1, AfterFirst
    <3>2. phase' = IF i = 1 THEN "checking" ELSE phase
      BY <2>1, SettleFacts DEF IInv
    <3> QED
      BY <3>1, <3>2
  <2>4. handlers'[opened'] > 0 /\ Channels' = Channels
    BY <2>1, <2>2 DEF Channels
  <2>5. \A j \in Calls : call[j] = "sub" => call'[j] = "sub"
    BY <1>1, <2>1
  <2> QED
    BY <1>1, <2>1, <2>3, <2>4, <2>5 DEF YoungestInv
<1>9. ASSUME NEW i \in Calls, SubscribeFails(i) PROVE YoungestInv'
  BY <1>9, FailureCounts DEF YoungestInv
<1>10. ASSUME NEW ch \in Channels, Publish(ch) PROVE YoungestInv'
  BY <1>3, <1>10 DEF Publish, connVars, endVars
<1>11. CASE Disconnect
  BY <1>11 DEF Disconnect, YoungestInv
<1>12. CASE Stop \/ BeginShutdown \/ ForcedTimeout
  BY <1>3, <1>12 DEF Stop, BeginShutdown, ForcedTimeout, connVars
<1>13. CASE UNCHANGED vars
  BY <1>3, <1>13 DEF vars
<1> QED
  BY <1>4, <1>5, <1>6, <1>7, <1>8, <1>9, <1>10, <1>11, <1>12, <1>13, StepCases

-----------------------------------------------------------------------------
\* What an acknowledged activation will add to the counter, and what the server
\* has per connection.
Owed == [i \in Calls |-> IF call[i] = "acked" THEN Len(list) ELSE 0]
Has == [c \in Conns |-> Cardinality(subs[c])]

LEMMA OwedType == TypeOK => /\ Owed \in [Calls -> Nat]
                            /\ SumFunction(Owed) \in Nat
<1> SUFFICES ASSUME TypeOK
             PROVE  Owed \in [Calls -> Nat] /\ SumFunction(Owed) \in Nat
  OBVIOUS
<1>1. Len(list) \in Nat
  BY ListFacts DEF TypeOK
<1>2. Owed \in [Calls -> Nat]
  BY <1>1 DEF Owed
<1> QED
  BY <1>2, CallFacts, SumType

LEMMA HasType == TypeOK => /\ Has \in [Conns -> Nat]
                           /\ SumFunction(Has) \in Nat
<1> SUFFICES ASSUME TypeOK
             PROVE  Has \in [Conns -> Nat] /\ SumFunction(Has) \in Nat
  OBVIOUS
<1>1. ASSUME NEW c \in Conns
      PROVE  Cardinality(subs[c]) \in Nat
  <2>1. IsFiniteSet(Channels) /\ subs[c] \in SUBSET Channels
    BY ChannelCount DEF TypeOK
  <2> QED
    BY <2>1, FS_Subset, FS_CardinalityType
<1>2. Has \in [Conns -> Nat]
  BY <1>1 DEF Has
<1> QED
  BY <1>2, CallFacts, SumType

\* The invariant in terms of these sums.
LEMMA BackedSums ==
    BackedInv <=>
        (phase # "shut" /\ failures = 0 /\ IsInjective(list) =>
            totalSubscribed + SumFunction(Owed) <= SumFunction(Has))
BY DEF BackedInv, Owed, Has

\* The counter stays backed by subscriptions.
LEMMA BackedStep == IInv /\ [Next]_vars => BackedInv'
<1> SUFFICES ASSUME IInv, [Next]_vars PROVE BackedInv'
  OBVIOUS
<1>1. /\ call \in [Calls -> {"idle", "unsub", "sub", "acked", "ended"}]
      /\ subs \in [Conns -> SUBSET Channels]
      /\ \A i \in Pending : on[i] \in Conns
      /\ IsFiniteSet(Calls) /\ IsFiniteSet(Conns)
      /\ Len(list) \in Nat
  BY ConnFacts, CallFacts, ListFacts DEF IInv, TypeOK
<1>2. /\ Owed \in [Calls -> Nat] /\ SumFunction(Owed) \in Nat
      /\ Has \in [Conns -> Nat] /\ SumFunction(Has) \in Nat
      /\ totalSubscribed \in Int
  BY OwedType, HasType DEF IInv, TypeOK
<1>3. TypeOK'
  BY TypeStep
<1>4. /\ (Owed \in [Calls -> Nat])' /\ (SumFunction(Owed) \in Nat)'
      /\ (Has \in [Conns -> Nat])' /\ (SumFunction(Has) \in Nat)'
      /\ totalSubscribed' \in Int
  <2>1. (Owed \in [Calls -> Nat] /\ SumFunction(Owed) \in Nat)'
    BY <1>3, OwedType, PTL
  <2>2. (Has \in [Conns -> Nat] /\ SumFunction(Has) \in Nat)'
    BY <1>3, HasType, PTL
  <2> QED
    BY <1>3, <2>1, <2>2 DEF TypeOK
<1>5. phase # "shut" /\ failures = 0 /\ IsInjective(list) =>
         totalSubscribed + SumFunction(Owed) <= SumFunction(Has)
  BY BackedSums DEF IInv
<1>6. BackedInv' <=>
         (phase' # "shut" /\ failures' = 0 /\ IsInjective(list') =>
             totalSubscribed' + SumFunction(Owed') <= SumFunction(Has'))
  BY DEF BackedInv, Owed, Has
\* Neither the counter nor the sums change.
<1>7. ASSUME UNCHANGED <<list, totalSubscribed, subs>>,
             failures' = 0 => failures = 0,
             phase = "shut" => phase' = "shut",
             \A i \in Calls : call'[i] = "acked" <=> call[i] = "acked"
      PROVE  BackedInv'
  <2>1. Owed' = Owed /\ Has' = Has
    BY <1>7 DEF Owed, Has
  <2> QED
    BY <1>5, <1>6, <1>7, <2>1
<1>8. ASSUME NEW i \in Calls, Opens(i) \/ GivesUp(i) PROVE BackedInv'
  BY <1>1, <1>7, <1>8 DEF Opens, GivesUp, Duplicate, Prelude, counters, endVars
<1>9. ASSUME NEW i \in Calls, Unsubscribed(i) PROVE BackedInv'
  <2>1. /\ call[i] = "unsub" /\ call' = [call EXCEPT ![i] = "sub"]
        /\ totalSubscribed' = totalSubscribed - RestLen
        /\ subs' = [subs EXCEPT ![on[i]] = subs[on[i]] \ Rest]
        /\ UNCHANGED <<list, phase, failures>>
        /\ on[i] \in Conns
    BY <1>1, <1>9 DEF Unsubscribed, Duplicate, endVars, Pending
  <2>2. Owed' = Owed
    BY <1>1, <2>1 DEF Owed
  <2>3. \A c \in Conns \ {on[i]} : Has'[c] = Has[c]
    BY <1>1, <2>1 DEF Has
  <2>4. Has[on[i]] - RestLen <= Has'[on[i]]
    <3> DEFINE A == subs[on[i]]
    <3>1. Has[on[i]] = Cardinality(A) /\ Has'[on[i]] = Cardinality(A \ Rest)
      BY <1>1, <2>1 DEF Has
    <3>2. /\ IsFiniteSet(Channels) /\ A \subseteq Channels
          /\ Rest \subseteq Channels /\ Cardinality(Rest) <= RestLen
      BY <1>1, <2>1, ChannelCount, ListFacts DEF IInv, TypeOK
    <3> HIDE DEF A
    <3>3. IsFiniteSet(A) /\ IsFiniteSet(Rest) /\ IsFiniteSet(A \ Rest)
      BY <3>2, FS_Subset
    <3>4. A \subseteq (A \ Rest) \cup Rest /\ (A \ Rest) \cap Rest = {}
      OBVIOUS
    <3>5. /\ IsFiniteSet((A \ Rest) \cup Rest)
          /\ Cardinality((A \ Rest) \cup Rest) =
                Cardinality(A \ Rest) + Cardinality(Rest) - Cardinality({})
      BY <3>3, <3>4, FS_Union
    <3>6. Cardinality(A) <= Cardinality((A \ Rest) \cup Rest)
      BY <3>4, <3>5, FS_Subset
    <3>7. /\ Cardinality(A) \in Nat /\ Cardinality(A \ Rest) \in Nat
          /\ Cardinality(Rest) \in Nat /\ Cardinality({}) = 0
      BY <3>3, FS_CardinalityType, FS_EmptySet
    <3>8. RestLen \in Int
      BY <1>1 DEF RestLen
    <3> QED
      BY <3>1, <3>2, <3>5, <3>6, <3>7, <3>8
  <2>5. SumFunction(Has') = SumFunction(Has) - Has[on[i]] + Has'[on[i]]
    <3>1. /\ IsFiniteSet(Conns) /\ on[i] \in Conns
          /\ Has \in [Conns -> Nat] /\ Has' \in [Conns -> Nat]
      BY <1>1, <1>2, <1>4, <2>1
    <3> QED
      BY <2>3, <3>1, SumExcept
  <2>6. RestLen \in Int /\ Has[on[i]] \in Nat /\ Has'[on[i]] \in Nat
    BY <1>1, <1>2, <1>4, <2>1 DEF RestLen
  <2> HIDE DEF Has, Owed
  <2> QED
    BY <1>2, <1>4, <1>5, <1>6, <2>1, <2>2, <2>4, <2>5, <2>6
<1>10. ASSUME NEW i \in Calls, Acknowledged(i) PROVE BackedInv'
  <2>1. /\ call[i] = "sub" /\ call' = [call EXCEPT ![i] = "acked"]
        /\ subs' = [subs EXCEPT ![on[i]] = Channels]
        /\ UNCHANGED <<list, phase, failures, totalSubscribed>>
        /\ on[i] \in Conns
    BY <1>1, <1>10 DEF Acknowledged, endVars, counters, Pending
  <2>2. Owed[i] = 0 /\ Owed'[i] = Len(list)
    BY <1>1, <2>1 DEF Owed
  <2>3. \A j \in Calls \ {i} : Owed'[j] = Owed[j]
    BY <1>1, <2>1 DEF Owed
  <2>4. SumFunction(Owed') = SumFunction(Owed) + Len(list)
    <3>1. SumFunction(Owed') = SumFunction(Owed) - Owed[i] + Owed'[i]
      BY <1>1, <1>2, <1>4, <2>3, SumExcept
    <3> QED
      BY <1>1, <1>2, <2>2, <3>1
  <2>5. \A c \in Conns \ {on[i]} : Has'[c] = Has[c]
    BY <1>1, <2>1 DEF Has
  <2>6. Has[on[i]] = 0 /\ (IsInjective(list) => Has'[on[i]] = Len(list))
    <3>1. subs[on[i]] = {}
      BY <2>1 DEF IInv, SubsInv
    <3>2. IsInjective(list) => Cardinality(Channels) = Len(list)
      BY ChannelCount DEF IInv, TypeOK
    <3>3. Has[on[i]] = Cardinality({}) /\ Has'[on[i]] = Cardinality(Channels)
      BY <1>1, <2>1, <3>1 DEF Has
    <3> QED
      BY <3>2, <3>3, FS_EmptySet
  <2>7. SumFunction(Has') = SumFunction(Has) - Has[on[i]] + Has'[on[i]]
    <3>1. /\ IsFiniteSet(Conns) /\ on[i] \in Conns
          /\ Has \in [Conns -> Nat] /\ Has' \in [Conns -> Nat]
      BY <1>1, <1>2, <1>4, <2>1
    <3> QED
      BY <2>5, <3>1, SumExcept
  <2> QED
    BY <1>1, <1>2, <1>4, <1>5, <1>6, <2>1, <2>4, <2>6, <2>7
<1>11. ASSUME NEW i \in Calls, Subscribed(i) PROVE BackedInv'
  <2>1. /\ call[i] = "acked" /\ call' = [call EXCEPT ![i] = "ended"]
        /\ totalSubscribed' = totalSubscribed + Len(list)
        /\ UNCHANGED <<list, subs, failures>> /\ Settle(i)
    BY <1>11 DEF Subscribed
  <2>2. phase = "shut" => phase' = "shut"
    <3>1. phase = "shut" => i # 1
      BY <2>1, AfterFirst
    <3>2. phase' = IF i = 1 THEN "checking" ELSE phase
      BY <2>1, SettleFacts DEF IInv
    <3> QED
      BY <3>1, <3>2
  <2>3. Owed[i] = Len(list) /\ Owed'[i] = 0
    BY <1>1, <2>1 DEF Owed
  <2>4. \A j \in Calls \ {i} : Owed'[j] = Owed[j]
    BY <1>1, <2>1 DEF Owed
  <2>5. SumFunction(Owed') = SumFunction(Owed) - Len(list)
    <3>1. SumFunction(Owed') = SumFunction(Owed) - Owed[i] + Owed'[i]
      BY <1>1, <1>2, <1>4, <2>4, SumExcept
    <3> QED
      BY <1>1, <1>2, <2>3, <3>1
  <2>6. Has' = Has
    BY <2>1 DEF Has
  <2> QED
    BY <1>1, <1>2, <1>4, <1>5, <1>6, <2>1, <2>2, <2>5, <2>6
<1>12. ASSUME NEW i \in Calls, SubscribeFails(i) PROVE BackedInv'
  BY <1>6, <1>12, FailureCounts
<1>13. ASSUME NEW ch \in Channels, Publish(ch) PROVE BackedInv'
  BY <1>7, <1>13 DEF Publish, connVars, endVars
<1>14. CASE Disconnect
  BY <1>6, <1>14 DEF Disconnect
<1>15. CASE Stop \/ BeginShutdown \/ ForcedTimeout
  BY <1>7, <1>15 DEF Stop, BeginShutdown, ForcedTimeout, connVars, counters
<1>16. CASE UNCHANGED vars
  BY <1>7, <1>16 DEF vars
<1> QED
  BY <1>8, <1>9, <1>10, <1>11, <1>12, <1>13, <1>14, <1>15, <1>16, StepCases

-----------------------------------------------------------------------------
\* Every step keeps the invariant.
LEMMA StepIInv == IInv /\ [Next]_vars => IInv'
BY TypeStep, StartStep, OwnerStep, SubsStep, HandlerStep, FirstStep,
   YoungestStep, BackedStep DEF IInv

\* The strengthened invariant holds in every reachable state.
THEOREM Inductive == Spec => []IInv
BY InitIInv, StepIInv, PTL DEF Spec

\* Every variable keeps its type: there are never more connections than
\* activations, and none is used that was not opened.
THEOREM TypeCorrect == Spec => []TypeOK
<1>1. IInv => TypeOK
  BY DEF IInv
<1> QED
  BY <1>1, Inductive, PTL

\* The channel that re-subscribing keeps is heard without a gap on the first
\* connection (lines 28 to 51), whatever overlaps and whatever fails.
THEOREM FirstIsHeard == Spec => []FirstChannelHeard
<1>1. ASSUME IInv, phase = "checking", handlers[1] > 0,
             list[1] \notin Range(Tail(list))
      PROVE  Heard(list[1])
  <2>1. list[1] \in subs[1]
    BY <1>1 DEF IInv, FirstInv, Rest
  <2>2. 1 \in open
    <3>1. opened >= 1 /\ opened \in Nat
      BY <1>1, AfterFirst, ConnFacts
    <3>2. open = 1 .. opened
      BY <1>1 DEF IInv, OwnerInv
    <3> QED
      BY <3>1, <3>2
  <2> QED
    BY <1>1, <2>1, <2>2 DEF Heard
<1>2. IInv => FirstChannelHeard
  BY <1>1 DEF FirstChannelHeard
<1> QED
  BY <1>2, Inductive, PTL

\* With nothing under way and nothing failed every channel is heard on the
\* youngest connection, wherever the handlers of line 51 went.
THEOREM QuietIsCovered == Spec => []QuietCoverage
<1>1. ASSUME IInv, phase = "checking", Pending = {}, failures = 0,
             NEW ch \in Channels
      PROVE  Heard(ch)
  <2>1. opened >= 1 /\ opened \in Nat
    BY <1>1, AfterFirst, ConnFacts
  <2>2. opened \in open
    <3>1. open = 1 .. opened
      BY <1>1 DEF IInv, OwnerInv
    <3> QED
      BY <2>1, <3>1
  <2>3. \A i \in Calls : call[i] # "sub" /\ call[i] # "acked"
    BY <1>1 DEF Pending
  <2>4. subs[opened] = Channels /\ handlers[opened] > 0
    BY <1>1, <2>1, <2>3 DEF IInv, YoungestInv
  <2> QED
    BY <2>2, <2>4 DEF Heard
<1>2. IInv => QuietCoverage
  BY <1>1 DEF QuietCoverage
<1> QED
  BY <1>2, Inductive, PTL

\* The counter of lines 32 and 54 never shows more subscriptions than the server
\* has on the connections that are open.
THEOREM SubscriptionsBacked == Spec => []NeverOverstated
<1>1. ASSUME IInv, phase = "checking", Pending = {}, failures = 0,
             IsInjective(list)
      PROVE  totalSubscribed <= Subscriptions
  <2> DEFINE g == [c \in open |-> Cardinality(subs[c])]
  <2>1. totalSubscribed + SumFunction(Owed) <= SumFunction(Has)
    BY <1>1, BackedSums DEF IInv
  <2>2. SumFunction(Owed) = 0
    <3>1. Owed \in [Calls -> Nat] /\ \A i \in Calls : Owed[i] = 0
      BY <1>1, OwedType DEF IInv, Owed, Pending
    <3> QED
      BY <3>1, CallFacts, SumZero
  <2>3. SumFunction(g) = SumFunction(Has)
    <3>1. /\ opened \in Nat
          /\ 1 .. opened \subseteq Conns /\ Conns \subseteq Nat \ {0}
      BY <1>1, ConnFacts DEF Conns
    <3>2. open = 1 .. opened
      BY <1>1 DEF IInv, OwnerInv
    <3>3. Has \in [Conns -> Nat] /\ IsFiniteSet(Conns)
      BY <1>1, HasType, CallFacts DEF IInv
    <3>4. \A c \in open : g[c] = Has[c]
      BY <3>1, <3>2 DEF Has
    <3>5. \A c \in Conns \ open : Has[c] = 0
      <4>1. \A c \in Conns \ open : subs[c] = {}
        BY <1>1, <3>1, <3>2 DEF IInv, SubsInv
      <4> QED
        BY <4>1, FS_EmptySet DEF Has
    <3>6. g \in [open -> Nat]
      BY <3>1, <3>2, <3>3, <3>4
    <3>7. open \in SUBSET Conns
      BY <3>1, <3>2
    <3> HIDE DEF g
    <3> QED
      BY <3>3, <3>4, <3>5, <3>6, <3>7, SumRestrict
  <2>4. totalSubscribed \in Int /\ SumFunction(Has) \in Nat
    BY <1>1, HasType DEF IInv, TypeOK
  <2>5. Subscriptions = SumFunction(g)
    BY DEF Subscriptions
  <2> HIDE DEF g
  <2> QED
    BY <2>1, <2>2, <2>3, <2>4, <2>5
<1>2. IInv => NeverOverstated
  BY <1>1 DEF NeverOverstated
<1> QED
  BY <1>2, Inductive, PTL

\* Handlers that pile up on shared connections (line 51) count a message at most
\* once per successful subscription.
THEOREM OvercountIsBounded == Spec => []OvercountBounded
<1>1. IInv => OvercountBounded
  BY DEF IInv, HandlerInv
<1> QED
  BY <1>1, Inductive, PTL
=============================================================================
