-------------------------- MODULE PublisherProofs --------------------------
(***************************************************************************)
(* Proofs about publisherRoutine and its limiter for any number of         *)
(* publishers, any rate and burst and any numbers of channels: the joint   *)
(* rate and the waiting times.                                             *)
(***************************************************************************)
EXTENDS PublisherRoutine, FiniteSetTheorems, TLAPS

\* The burst is a number, and there is none without a limiter.
LEMMA BurstFacts == requestBurst \in Nat /\ (~useRateLimiter => requestBurst = 0)
BY PubConstants DEF requestBurst, useRateLimiter

LEMMA ClientsFacts ==
    /\ IsFiniteSet(Publishers)
    /\ Clients \in Nat
BY PubConstants, FS_CardinalityType DEF Clients

\* There are at most as many sleepers as publishers.
LEMMA SleepersFacts ==
    ASSUME NEW S \in SUBSET Publishers
    PROVE  /\ IsFiniteSet(S)
           /\ Cardinality(S) \in Nat
           /\ Cardinality(S) <= Clients
BY PubConstants, FS_Subset, FS_CardinalityType DEF Clients

\* The debt of a limiter is what its tokens lack, and a unit of time pays one.
LEMMA DebtFacts ==
    ASSUME NEW n \in Int
    PROVE  /\ Debt(n) \in Nat
           /\ n + Debt(n) >= 0
           /\ n < 0 => Debt(n) = -n /\ Debt(n + 1) = Debt(n) - 1
           /\ n >= 0 => Debt(n) = 0 /\ Debt(n + 1) = 0
           /\ Debt(n - 1) >= Debt(n)
           /\ Debt(n - 1) <= Debt(n) + 1
           /\ n <= 0 => Debt(n - 1) = Debt(n) + 1
BY DEF Debt

\* There are as many sleepers as there are reservations to be paid for.
LEMMA DebtorsSleep ==
    ASSUME TypeOK, DebtInv
    PROVE  Debt(tokens) <= Cardinality(Sleepers)
<1> DEFINE D == 1 .. Debt(tokens)
           f == [k \in D |-> CHOOSE p \in Publishers : delay[p] = k]
<1>1. Debt(tokens) \in Nat
  BY DebtFacts DEF TypeOK
<1>2. \A k \in D : f[k] \in Publishers /\ delay[f[k]] = k
  BY DEF DebtInv
<1>3. \A k \in D : f[k] \in Sleepers
  BY <1>1, <1>2 DEF DebtInv, Sleepers
<1>4. \A j, k \in D : f[j] = f[k] => j = k
  BY <1>2
<1>5. f \in Injection(D, Sleepers)
  BY <1>3, <1>4, Zenon DEF Injection, IsInjective
<1>6. Cardinality(D) <= Cardinality(Sleepers)
  <2>1. IsFiniteSet(Sleepers)
    BY SleepersFacts DEF Sleepers
  <2> QED
    BY <1>5, <2>1, FS_Injection
<1>7. Cardinality(D) = Debt(tokens)
  BY <1>1, FS_Interval
<1> QED
  BY <1>6, <1>7

-----------------------------------------------------------------------------
LEMMA InitIInv == Init => IInv
<1> SUFFICES ASSUME Init PROVE IInv
  OBVIOUS
<1> USE PubConstants, BurstFacts DEF Init
<1>1. TypeOK
  BY DEF TypeOK
<1>2. DebtInv
  BY DebtFacts DEF DebtInv
<1>3. RateInv
  <2>1. Sleepers = {}
    BY DEF Sleepers
  <2> QED
    BY <2>1, FS_EmptySet, ClientsFacts DEF RateInv
<1>4. RoundInv
  <2>1. \A p \in Publishers : nChannels[p] \in Nat
    OBVIOUS
  <2> QED
    BY <2>1 DEF RoundInv
<1> QED
  BY <1>1, <1>2, <1>3, <1>4 DEF IInv

\* Every step keeps every variable in its type.
LEMMA TypeStep == IInv /\ [Next]_vars => TypeOK'
<1> SUFFICES ASSUME IInv, [Next]_vars PROVE TypeOK'
  OBVIOUS
<1> USE PubConstants, BurstFacts DEF IInv, TypeOK, Goto
<1>1. ASSUME NEW p \in Publishers, BeginRound(p) PROVE TypeOK'
  BY <1>1 DEF BeginRound
<1>2. ASSUME NEW p \in Publishers, EndRound(p) PROVE TypeOK'
  BY <1>2 DEF EndRound
<1>3. ASSUME NEW p \in Publishers, Reserve(p) PROVE TypeOK'
  <2>1. tokens - 1 \in Int /\ tokens - 1 <= requestBurst
    OBVIOUS
  <2>2. tokens' \in Int /\ tokens' <= requestBurst
    BY <1>3, <2>1 DEF Reserve, Tokens
  <2>3. Debt(tokens') \in Nat
    BY <2>2, DebtFacts
  <2>4. delay' \in [Publishers -> Nat]
    BY <1>3, <2>3 DEF Reserve
  <2> QED
    BY <1>3, <2>2, <2>4 DEF Reserve
<1>4. ASSUME NEW p \in Publishers, Send(p) PROVE TypeOK'
  BY <1>4 DEF Send
<1>5. ASSUME NEW p \in Publishers, Count(p) PROVE TypeOK'
  BY <1>5 DEF Count, RoundInv
<1>6. CASE TimePasses
  BY <1>6 DEF TimePasses
<1>7. CASE UNCHANGED vars
  BY <1>7 DEF vars
<1> QED
  BY <1>1, <1>2, <1>3, <1>4, <1>5, <1>6, <1>7 DEF Next, Routine

\* A new reservation is due one unit after the last of the older ones, and a
\* unit of time brings all of them one unit closer.
LEMMA DebtStep == IInv /\ [Next]_vars => DebtInv'
<1> SUFFICES ASSUME IInv, [Next]_vars PROVE DebtInv'
  OBVIOUS
<1>t. TypeOK /\ DebtInv /\ Debt(tokens) \in Nat /\ tokens \in Int
  BY DebtFacts DEF IInv, TypeOK
<1>1. ASSUME NEW p \in Publishers, at[p] # "sleep" \/ delay[p] = 0,
             UNCHANGED <<delay, tokens>>,
             at' = at \/ \E l : at' = [at EXCEPT ![p] = l]
      PROVE  DebtInv'
  BY <1>1, <1>t DEF DebtInv, TypeOK
<1>2. ASSUME NEW p \in Publishers, BeginRound(p) PROVE DebtInv'
  BY <1>1, <1>2 DEF BeginRound, Goto
<1>3. ASSUME NEW p \in Publishers, EndRound(p) PROVE DebtInv'
  BY <1>1, <1>3 DEF EndRound, Goto
<1>4. ASSUME NEW p \in Publishers, Send(p) PROVE DebtInv'
  BY <1>1, <1>4 DEF Send, Due, Goto
<1>5. ASSUME NEW p \in Publishers, Count(p) PROVE DebtInv'
  BY <1>1, <1>5 DEF Count, Goto
<1>6. ASSUME NEW p \in Publishers, Reserve(p) PROVE DebtInv'
  <2>1. CASE ~useRateLimiter
    BY <1>1, <1>6, <2>1 DEF Reserve, Goto
  <2>2. CASE useRateLimiter
    <3> DEFINE d == Debt(tokens - 1)
    <3>1. /\ tokens' = tokens - 1
          /\ delay' = [delay EXCEPT ![p] = d]
          /\ at' = [at EXCEPT ![p] = "sleep"]
      BY <1>6, <2>2 DEF Reserve, Tokens, Goto
    <3>2. d \in Nat /\ Debt(tokens) <= d /\ (d = 0 \/ d = Debt(tokens) + 1)
      BY <1>t, DebtFacts DEF Debt
    <3>3. delay[p] = 0
      BY <1>6, <1>t DEF Reserve, DebtInv, TypeOK
    <3>4. /\ delay'[p] = d
          /\ \A q \in Publishers \ {p} : delay'[q] = delay[q]
      BY <3>1, <1>t DEF TypeOK
    <3>5. Debt(tokens)' = d
      BY <3>1
    <3> HIDE DEF d
    <3>6. \A q \in Publishers : delay'[q] <= d
      BY <3>2, <3>4, <1>t DEF DebtInv, TypeOK
    <3>7. \A q \in Publishers : delay'[q] > 0 => at'[q] = "sleep"
      BY <3>1, <3>4, <1>t DEF DebtInv, TypeOK
    <3>8. \A q \in Publishers : \A r \in Publishers \ {q} :
             delay'[q] = delay'[r] => delay'[q] = 0
      <4> SUFFICES ASSUME NEW q \in Publishers, NEW r \in Publishers \ {q},
                          delay'[q] = delay'[r]
                   PROVE  delay'[q] = 0
        OBVIOUS
      <4>1. CASE q # p /\ r # p
        BY <4>1, <3>4, <1>t DEF DebtInv
      <4>2. CASE q = p
        BY <4>2, <3>2, <3>4, <1>t DEF DebtInv, TypeOK
      <4>3. CASE r = p
        BY <4>3, <3>2, <3>4, <1>t DEF DebtInv, TypeOK
      <4> QED
        BY <4>1, <4>2, <4>3
    <3>9. \A k \in 1 .. d : \E q \in Publishers : delay'[q] = k
      <4> SUFFICES ASSUME NEW k \in 1 .. d
                   PROVE  \E q \in Publishers : delay'[q] = k
        OBVIOUS
      <4>1. CASE k = d
        BY <4>1, <3>4
      <4>2. CASE k # d
        <5>1. k \in 1 .. Debt(tokens)
          BY <4>2, <3>2, <1>t
        <5>2. PICK q \in Publishers : delay[q] = k
          BY <5>1, <1>t DEF DebtInv
        <5>3. q # p
          BY <5>1, <5>2, <3>3
        <5> QED
          BY <5>2, <5>3, <3>4
      <4> QED
        BY <4>1, <4>2
    <3> QED
      BY <3>5, <3>6, <3>7, <3>8, <3>9 DEF DebtInv
  <2> QED
    BY <2>1, <2>2
<1>7. CASE TimePasses
  <2> DEFINE D == Debt(tokens)
  <2>1. /\ delay' = [p \in Publishers |-> IF delay[p] > 0 THEN delay[p] - 1 ELSE 0]
        /\ at' = at
    BY <1>7 DEF TimePasses
  <2>2. Debt(tokens)' = IF D > 0 THEN D - 1 ELSE 0
    <3>1. CASE tokens < 0
      <4>1. tokens' = tokens + 1
        BY <1>7, <3>1, <1>t, BurstFacts DEF TimePasses
      <4> QED
        BY <4>1, <3>1, <1>t DEF Debt
    <3>2. CASE tokens >= 0
      <4>1. tokens' \in Int /\ tokens' >= 0
        BY <1>7, <3>2, <1>t DEF TimePasses
      <4>2. Debt(tokens') = 0 /\ Debt(tokens) = 0
        BY <4>1, <3>2, <1>t, DebtFacts
      <4> QED
        BY <4>2
    <3> QED
      BY <3>1, <3>2, <1>t
  <2>3. D \in Nat /\ \A p \in Publishers : delay[p] \in Nat /\ delay[p] <= D
    BY <1>t DEF DebtInv, TypeOK
  <2>4. \A p \in Publishers :
           delay'[p] = IF delay[p] > 0 THEN delay[p] - 1 ELSE 0
    BY <2>1
  <2>d. \A k \in 1 .. D : \E p \in Publishers : delay[p] = k
    BY <1>t DEF DebtInv
  <2> HIDE DEF D
  <2>5. \A p \in Publishers : /\ delay'[p] <= Debt(tokens)'
                              /\ delay'[p] > 0 => at'[p] = "sleep"
    BY <2>1, <2>2, <2>3, <2>4, <1>t DEF DebtInv
  <2>6. \A p \in Publishers : \A q \in Publishers \ {p} :
           delay'[p] = delay'[q] => delay'[p] = 0
    BY <2>3, <2>4, <1>t DEF DebtInv
  <2>7. \A k \in 1 .. Debt(tokens)' : \E p \in Publishers : delay'[p] = k
    <3> SUFFICES ASSUME NEW k \in 1 .. Debt(tokens)'
                 PROVE  \E p \in Publishers : delay'[p] = k
      OBVIOUS
    <3>1. k \in Nat /\ k + 1 \in 1 .. D
      BY <2>2, <2>3
    <3>2. PICK p \in Publishers : delay[p] = k + 1
      BY <3>1, <2>d
    <3> QED
      BY <3>1, <3>2, <2>4
  <2> QED
    BY <2>5, <2>6, <2>7 DEF DebtInv
<1>8. CASE UNCHANGED vars
  BY <1>8, <1>t DEF vars, DebtInv
<1> QED
  BY <1>2, <1>3, <1>4, <1>5, <1>6, <1>7, <1>8 DEF Next, Routine

\* A token goes from the bucket to a sleeper and from there to a message; time
\* puts one into the bucket and takes a message off the window.
LEMMA RateStep == IInv /\ [Next]_vars => RateInv'
<1> SUFFICES ASSUME IInv, [Next]_vars PROVE RateInv'
  OBVIOUS
<1>t. /\ TypeOK /\ RateInv
      /\ tokens \in Int /\ tokens <= requestBurst /\ excess \in Nat
      /\ requestBurst \in Nat /\ Clients \in Nat
      /\ IsFiniteSet(Sleepers) /\ Cardinality(Sleepers) \in Nat
      /\ Cardinality(Sleepers) <= Clients
  <2>1. Sleepers \in SUBSET Publishers
    BY DEF Sleepers
  <2> QED
    BY <2>1, BurstFacts, ClientsFacts, SleepersFacts DEF IInv, TypeOK
<1>0. ASSUME excess' = 0, tokens' \in Int, tokens' <= requestBurst
      PROVE  RateInv'
  <2>1. Sleepers' \in SUBSET Publishers
    BY DEF Sleepers
  <2>2. Cardinality(Sleepers') \in Nat /\ Cardinality(Sleepers') <= Clients
    BY <2>1, SleepersFacts
  <2> QED
    BY <1>0, <2>2, <1>t DEF RateInv, Clients
<1>1. ASSUME UNCHANGED <<excess, tokens>>, Sleepers' = Sleepers
      PROVE  RateInv'
  BY <1>1, <1>t DEF RateInv, Clients
<1>2. ASSUME NEW p \in Publishers,
             BeginRound(p) \/ EndRound(p) \/ Count(p)
      PROVE  RateInv'
  <2>1. UNCHANGED <<excess, tokens>>
    BY <1>2 DEF BeginRound, EndRound, Count
  <2>2. PICK l \in {"round", "select"} :
           at[p] # "sleep" /\ at' = [at EXCEPT ![p] = l]
    BY <1>2 DEF BeginRound, EndRound, Count, Goto
  <2>3. Sleepers' = Sleepers
    BY <2>2, <1>t DEF Sleepers, TypeOK
  <2> QED
    BY <1>1, <2>1, <2>3
<1>3. ASSUME NEW p \in Publishers, Reserve(p) PROVE RateInv'
  <2>1. at[p] = "round" /\ at' = [at EXCEPT ![p] = "sleep"] /\ excess' = excess
    BY <1>3 DEF Reserve, Goto
  <2>2. Sleepers' = Sleepers \cup {p} /\ p \notin Sleepers
    BY <2>1, <1>t DEF Sleepers, TypeOK
  <2>3. Cardinality(Sleepers') = Cardinality(Sleepers) + 1
    BY <2>2, <1>t, FS_AddElement
  <2>4. CASE useRateLimiter
    <3>1. tokens' = tokens - 1
      BY <1>3, <2>4 DEF Reserve, Tokens
    <3> QED
      BY <2>1, <2>3, <2>4, <3>1, <1>t DEF RateInv, Clients
  <2>5. CASE ~useRateLimiter
    <3>1. tokens' = tokens /\ excess' = 0
      BY <1>3, <2>1, <2>5, <1>t DEF Reserve, RateInv
    <3> QED
      BY <3>1, <1>0, <1>t
  <2> QED
    BY <2>4, <2>5
<1>4. ASSUME NEW p \in Publishers, Send(p) PROVE RateInv'
  <2>1. at[p] = "sleep" /\ at' = [at EXCEPT ![p] = "count"] /\ tokens' = tokens
    BY <1>4 DEF Send, Goto
  <2>2. Sleepers' = Sleepers \ {p} /\ p \in Sleepers
    BY <2>1, <1>t DEF Sleepers, TypeOK
  <2>3. Cardinality(Sleepers') = Cardinality(Sleepers) - 1
    BY <2>2, <1>t, FS_RemoveElement
  <2>4. CASE useRateLimiter
    <3>1. excess' = excess + 1
      BY <1>4, <2>4 DEF Send
    <3> QED
      BY <2>1, <2>3, <2>4, <3>1, <1>t DEF RateInv, Clients
  <2>5. CASE ~useRateLimiter
    <3>1. excess' = 0
      BY <1>4, <2>5, <1>t DEF Send, RateInv
    <3> QED
      BY <3>1, <2>1, <1>0, <1>t
  <2> QED
    BY <2>4, <2>5
<1>5. CASE UNCHANGED vars
  <2>1. UNCHANGED <<excess, tokens>> /\ Sleepers' = Sleepers
    BY <1>5 DEF vars, Sleepers
  <2> QED
    BY <2>1, <1>1
<1>6. CASE TimePasses
  <2>1. Sleepers' = Sleepers
    BY <1>6 DEF TimePasses, Sleepers
  <2>2. /\ tokens' = IF tokens < requestBurst THEN tokens + 1 ELSE tokens
        /\ excess' = IF excess > 0 THEN excess - 1 ELSE 0
    BY <1>6 DEF TimePasses
  <2>3. CASE excess = 0
    BY <1>0, <2>2, <2>3, <1>t
  <2>4. CASE excess > 0
    BY <2>1, <2>2, <2>4, <1>t DEF RateInv, Clients
  <2> QED
    BY <2>3, <2>4, <1>t
<1> QED
  BY <1>2, <1>3, <1>4, <1>5, <1>6 DEF Next, Routine

\* A round stays within its channels.
LEMMA RoundStep == IInv /\ [Next]_vars => RoundInv'
<1> SUFFICES ASSUME IInv, [Next]_vars PROVE RoundInv'
  OBVIOUS
<1>n. \A p \in Publishers : nChannels[p] \in Nat
  BY PubConstants DEF IInv, TypeOK
<1> USE <1>n DEF IInv, TypeOK, RoundInv, Goto
<1>1. ASSUME NEW p \in Publishers, BeginRound(p) PROVE RoundInv'
  BY <1>1 DEF BeginRound
<1>2. ASSUME NEW p \in Publishers, EndRound(p) PROVE RoundInv'
  BY <1>2 DEF EndRound
<1>3. ASSUME NEW p \in Publishers, Reserve(p) PROVE RoundInv'
  BY <1>3 DEF Reserve, MoreChannels
<1>4. ASSUME NEW p \in Publishers, Send(p) PROVE RoundInv'
  BY <1>4 DEF Send
<1>5. ASSUME NEW p \in Publishers, Count(p) PROVE RoundInv'
  BY <1>5 DEF Count
<1>6. CASE TimePasses
  BY <1>6 DEF TimePasses
<1>7. CASE UNCHANGED vars
  BY <1>7 DEF vars
<1> QED
  BY <1>1, <1>2, <1>3, <1>4, <1>5, <1>6, <1>7 DEF Next, Routine

\* IInv is an invariant of the publishers.
THEOREM Inductive == Spec => []IInv
<1>1. IInv /\ [Next]_vars => IInv'
  BY TypeStep, DebtStep, RateStep, RoundStep DEF IInv
<1>2. QED
  BY InitIInv, <1>1, PTL DEF Spec

-----------------------------------------------------------------------------
\* Type correctness; in particular the limiter never holds more than its burst.
THEOREM TypeCorrect == Spec => []TypeOK
<1>1. IInv => TypeOK
  BY DEF IInv
<1>2. QED
  BY <1>1, Inductive, PTL

\* However late the publishers wake up, in every window of time they send at most
\* one message per unit, plus the burst, plus one each (lines 100-103).
THEOREM JointRate == Spec => []RateKept
<1>1. IInv => RateKept
  <2> SUFFICES ASSUME IInv PROVE RateKept
    OBVIOUS
  <2>1. Debt(tokens) <= Cardinality(Sleepers)
    BY DebtorsSleep DEF IInv
  <2>2. Debt(tokens) \in Nat /\ tokens + Debt(tokens) >= 0
    BY DebtFacts DEF IInv, TypeOK
  <2>3. Cardinality(Sleepers) \in Nat /\ Clients \in Nat /\ requestBurst \in Nat
    <3>1. Sleepers \in SUBSET Publishers
      BY DEF Sleepers
    <3> QED
      BY <3>1, SleepersFacts, ClientsFacts, BurstFacts
  <2> QED
    BY <2>1, <2>2, <2>3 DEF IInv, TypeOK, RateInv, RateKept
<1>2. QED
  BY <1>1, Inductive, PTL

\* No reservation is due later than one unit per publisher, and no two that wait
\* are due at the same moment.
THEOREM WaitBounded == Spec => []DelayBounded
<1>1. IInv => DelayBounded
  <2> SUFFICES ASSUME IInv PROVE DelayBounded
    OBVIOUS
  <2>1. Debt(tokens) <= Cardinality(Sleepers) /\ Debt(tokens) \in Nat
    BY DebtorsSleep, DebtFacts DEF IInv, TypeOK
  <2>2. /\ Cardinality(Sleepers) \in Nat /\ Clients \in Nat
        /\ Cardinality(Sleepers) <= Clients
    <3>1. Sleepers \in SUBSET Publishers
      BY DEF Sleepers
    <3> QED
      BY <3>1, SleepersFacts, ClientsFacts
  <2> QED
    BY <2>1, <2>2 DEF IInv, TypeOK, DebtInv, DelayBounded
<1>2. QED
  BY <1>1, Inductive, PTL
=============================================================================
