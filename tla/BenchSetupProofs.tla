-------------------------- MODULE BenchSetupProofs --------------------------
(***************************************************************************)
(* Proofs about the set-up of main for any cluster, any command line and   *)
(* any number of slot moves: the goroutines of ForEachMaster keep clients  *)
(* and addresses aligned, clients are placed evenly on what was gathered,  *)
(* TLS options are kept or the run is refused, and a panic has its reason. *)
(***************************************************************************)
EXTENDS BenchSetup, FiniteSetTheorems, SequenceTheorems, TLAPS

\* What a command line is.
LEMMA RunFacts ==
    ASSUME run \in Runs
    PROVE  /\ run.tls \in SUBSET TlsFlags
           /\ run.distribute \in BOOLEAN
           /\ run.pool \in Int /\ run.tick \in Int
           /\ run.channels[1] \in Int /\ run.channels[2] \in Int
           /\ Subscriptions \in Int
<1>1. run.ids[1] \in Int /\ run.ids[2] \in Int /\ run.perChannel \in Int
  BY SetupConstants
<1>2. run.ids[2] - run.ids[1] + 1 \in Int
  BY <1>1
<1>3. \A a, b \in Int : a * b \in Int
  OBVIOUS
<1>4. Subscriptions \in Int
  BY <1>1, <1>2, <1>3 DEF Subscriptions
<1> QED
  BY <1>4, SetupConstants

\* Where main is after it connected.
LEMMA DialledFacts ==
    ASSUME NEW next, NEW size
    PROVE  \A p \in Dialled(next, size) :
              p = next \/ (p = "panicked" /\ size < 0)
BY DEF Dialled

LEMMA MastersFacts ==
    /\ Cardinality(Nodes) \in Nat
    /\ Cardinality(Nodes) # 0
BY SetupConstants, FS_CardinalityType, FS_EmptySet

\* Distinct clients of one pool are not more than there are nodes.
LEMMA DistinctBound ==
    ASSUME NEW s \in Seq(Clients), IsInjective(s), NEW p,
           \A i \in 1 .. Len(s) : s[i].pool = p
    PROVE  Len(s) <= Cardinality(Nodes)
<1> DEFINE f == [i \in 1 .. Len(s) |-> s[i].node]
<1>0. Len(s) \in Nat /\ DOMAIN s = 1 .. Len(s)
  OBVIOUS
<1>1. \A i \in 1 .. Len(s) : s[i] \in Clients
  BY <1>0, ElementOfSeq
<1>2. \A i \in 1 .. Len(s) : s[i] = [pool |-> p, node |-> s[i].node]
  BY <1>1 DEF Clients
<1>3. \A i \in 1 .. Len(s) : s[i].node \in Nodes
  BY <1>1 DEF Clients
<1>4. \A i, j \in 1 .. Len(s) : s[i].node = s[j].node => i = j
  BY <1>0, <1>2 DEF IsInjective
<1>5. f \in Injection(1 .. Len(s), Nodes)
  BY <1>3, <1>4, Zenon DEF Injection, IsInjective
<1>6. Cardinality(1 .. Len(s)) <= Cardinality(Nodes)
  BY <1>5, SetupConstants, FS_Injection
<1>7. Cardinality(1 .. Len(s)) = IF 1 > Len(s) THEN 0 ELSE Len(s) - 1 + 1
  BY <1>0, FS_Interval
<1> QED
  BY <1>0, <1>6, <1>7

\* Division with remainder.
LEMMA ModFacts ==
    ASSUME NEW a \in Nat, NEW n \in Nat, n # 0
    PROVE  /\ a % n \in 0 .. n - 1 /\ a \div n \in Nat
           /\ a = n * (a \div n) + (a % n)
<1>1. a % n \in 0 .. n - 1 /\ a \div n \in Nat
  OBVIOUS
<1>2. \A k, m \in Int : m > 0 => k = m * (k \div m) + (k % m)
  OBVIOUS
<1> QED
  BY <1>1, <1>2

LEMMA QuotFacts ==
    ASSUME NEW a \in Int, NEW n \in Nat, n # 0
    PROVE  Quot(a, n) \in Int /\ (a >= 0 => Quot(a, n) >= 0)
<1>1. CASE a >= 0
  BY <1>1, ModFacts DEF Quot
<1>2. CASE a < 0
  <2>1. -a \in Nat
    BY <1>2
  <2>2. (-a) \div n \in Nat
    BY <2>1, ModFacts
  <2> QED
    BY <1>2, <2>2 DEF Quot
<1> QED
  BY <1>1, <1>2

LEMMA Products ==
    /\ \A m \in Int, n \in Nat : m >= 1 => n * m >= n
    /\ \A a, b \in Int, n \in Nat : n * (a - b) = n * a - n * b
<1>1. \A m \in Int, n \in Nat : m >= 1 => n * m >= n
  OBVIOUS
<1>2. \A a, b \in Int, n \in Nat : n * (a - b) = n * a - n * b
  OBVIOUS
<1> QED
  BY <1>1, <1>2

\* The remainder is unique.
LEMMA Remainder ==
    ASSUME NEW n \in Nat, n # 0, NEW q \in Nat, NEW r \in 0 .. n - 1
    PROVE  (n * q + r) % n = r
<1> DEFINE k == n * q + r
           p == k \div n
<1>1. k \in Nat /\ n * q \in Nat
  OBVIOUS
<1> HIDE DEF k
<1>2. p \in Nat /\ k % n \in 0 .. n - 1 /\ k = n * p + (k % n)
  BY <1>1, ModFacts
<1>3. k = n * q + r
  BY DEF k
<1> HIDE DEF p
<1>4. /\ n * (p - q) = n * p - n * q /\ n * (q - p) = n * q - n * p
      /\ n * p \in Nat
  BY <1>2, Products
<1> SUFFICES k % n = r
  BY DEF k
<1>5. CASE p > q
  <2>1. n * (p - q) >= n
    BY <1>2, <1>5, Products
  <2> QED
    BY <1>1, <1>2, <1>3, <1>4, <2>1
<1>6. CASE p < q
  <2>1. n * (q - p) >= n
    BY <1>2, <1>6, Products
  <2> QED
    BY <1>1, <1>2, <1>3, <1>4, <2>1
<1>7. CASE p = q
  <2>1. n * p = n * q
    BY <1>7
  <2> QED
    BY <1>1, <1>2, <1>3, <2>1
<1> QED
  BY <1>2, <1>5, <1>6, <1>7

\* Between the turns of node r and those of node s lie the same number of ids,
\* and only the first turn of r may have no counterpart before it.
Lag(r, s, n) == IF r >= s THEN r - s ELSE r - s + n

LEMMA EarlierTurn ==
    ASSUME NEW n \in Nat, n # 0, NEW r \in 0 .. n - 1, NEW s \in 0 .. n - 1,
           NEW k \in Nat, k % n = r, k # r
    PROVE  /\ Lag(r, s, n) \in Nat
           /\ k - Lag(r, s, n) \in Nat \ {0}
           /\ (k - Lag(r, s, n)) % n = s
<1> DEFINE q == k \div n
<1>1. q \in Nat /\ k = n * q + r
  BY ModFacts
<1> HIDE DEF q
<1>2. q >= 1
  BY <1>1
<1>3. n * q >= n /\ n * q \in Nat /\ n * (q - 1) = n * q - n
  BY <1>1, <1>2, Products
<1>4. CASE r >= s
  <2>1. Lag(r, s, n) \in Nat /\ k - Lag(r, s, n) = n * q + s
    BY <1>1, <1>3, <1>4 DEF Lag
  <2>2. (n * q + s) % n = s
    BY <1>1, Remainder
  <2> QED
    BY <1>3, <2>1, <2>2
<1>5. CASE r < s
  <2>1. Lag(r, s, n) \in Nat /\ k - Lag(r, s, n) = n * (q - 1) + s
    BY <1>1, <1>3, <1>5 DEF Lag
  <2>2. (n * (q - 1) + s) % n = s
    BY <1>1, <1>2, Remainder
  <2>3. n * (q - 1) \in Nat
    BY <1>3
  <2> QED
    BY <1>5, <2>1, <2>2, <2>3
<1> QED
  BY <1>4, <1>5

\* Ids taken in turn are spread evenly.
LEMMA EvenTurns ==
    ASSUME NEW total \in Nat, NEW n \in Nat, n # 0,
           NEW r \in 0 .. n - 1, NEW s \in 0 .. n - 1
    PROVE  Cardinality({k \in 1 .. total : k % n = r})
              <= Cardinality({k \in 1 .. total : k % n = s}) + 1
<1> DEFINE A == {k \in 1 .. total : k % n = r}
           B == {k \in 1 .. total : k % n = s}
           back == [k \in A \ {r} |-> k - Lag(r, s, n)]
<1>1. IsFiniteSet(1 .. total) /\ A \subseteq 1 .. total /\ B \subseteq 1 .. total
  BY FS_Interval
<1>2. IsFiniteSet(A) /\ IsFiniteSet(B)
  BY <1>1, FS_Subset
<1>3. ASSUME NEW k \in A \ {r}
      PROVE  k - Lag(r, s, n) \in B /\ Lag(r, s, n) \in Nat
  <2>1. k \in Nat /\ k <= total /\ k % n = r /\ k # r
    OBVIOUS
  <2>2. /\ Lag(r, s, n) \in Nat /\ k - Lag(r, s, n) \in Nat \ {0}
        /\ (k - Lag(r, s, n)) % n = s
    BY <2>1, EarlierTurn
  <2> QED
    BY <2>1, <2>2
<1>4. back \in Injection(A \ {r}, B)
  <2>1. back \in [A \ {r} -> B]
    BY <1>3
  <2>2. \A k, l \in A \ {r} : back[k] = back[l] => k = l
    BY <1>3
  <2> QED
    BY <2>1, <2>2 DEF Injection, IsInjective
<1> HIDE DEF A, B, back
<1>5. Cardinality(A \ {r}) <= Cardinality(B)
  BY <1>2, <1>4, FS_Injection
<1>6. /\ IsFiniteSet(A \ {r})
      /\ Cardinality(A \ {r}) =
            IF r \in A THEN Cardinality(A) - 1 ELSE Cardinality(A)
  BY <1>2, FS_RemoveElement
<1>7. /\ Cardinality(A) \in Nat /\ Cardinality(A \ {r}) \in Nat
      /\ Cardinality(B) \in Nat
  BY <1>2, <1>6, FS_CardinalityType
<1>8. Cardinality(A) <= Cardinality(B) + 1
  BY <1>5, <1>6, <1>7
<1> QED
  BY <1>8 DEF A, B

-----------------------------------------------------------------------------
LEMMA InitIInv == Init => IInv
<1> SUFFICES ASSUME Init PROVE IInv
  OBVIOUS
<1> USE DEF Init
<1>1. TypeOK
  BY RunFacts, MastersFacts DEF TypeOK, Ended
<1>2. PoolInv /\ GatherInv /\ NodesAligned /\ TlsKept
  BY DEF PoolInv, GatherInv, NodesAligned, TlsKept
<1>3. LockInv
  BY DEF LockInv
<1>4. PlaceInv /\ PanicInv
  BY DEF PlaceInv, PanicInv, PanicsExplained
<1> QED
  BY <1>1, <1>2, <1>3, <1>4 DEF IInv

\* While the nodes are gathered the slices do not outgrow the masters.
LEMMA FoundBound ==
    ASSUME TypeOK, GatherInv, phase = "visiting"
    PROVE  Len(foundAddresses) <= Cardinality(Nodes)
BY MastersFacts DEF TypeOK, GatherInv

\* A client whose node is not named yet can be appended.
LEMMA AppendDistinct ==
    ASSUME NEW s \in Seq(Clients), IsInjective(s), NEW c \in Clients,
           \A i \in 1 .. Len(s) : visit[s[i].node] # "lock",
           visit[c.node] = "lock"
    PROVE  IsInjective(Append(s, c))
<1>1. \A i \in 1 .. Len(s) : s[i] # c
  OBVIOUS
<1> QED
  BY <1>1 DEF IsInjective

LEMMA AppendPool ==
    ASSUME NEW s \in Seq(Clients), NEW c \in Clients, NEW p,
           \A i \in 1 .. Len(s) : s[i].pool = p, c.pool = p
    PROVE  \A i \in 1 .. Len(Append(s, c)) : Append(s, c)[i].pool = p
OBVIOUS

\* The client of the next id is one of the gathered ones, or a master.
LEMMA ClientForType ==
    ASSUME TypeOK, NodesAligned, phase = "create", NEW ch \in Slots,
           Sharded \/ nodeCount # 0
    PROVE  ClientFor(ch) \in Clients
<1>1. CASE Sharded
  BY <1>1 DEF ClientFor, TypeOK, Clients
<1>2. CASE ~Sharded
  <2>1. Len(placed) + 1 \in Nat /\ nodeCount \in Nat /\ nodeCount # 0
    BY <1>2, MastersFacts DEF TypeOK
  <2>2. NodePos(Len(placed) + 1) \in 0 .. nodeCount - 1
    BY <2>1, ModFacts DEF NodePos
  <2>3. NodePos(Len(placed) + 1) + 1 \in 1 .. Len(nodeClients)
    BY <2>1, <2>2 DEF NodesAligned
  <2>4. nodeClients[NodePos(Len(placed) + 1) + 1] \in Clients
    BY <2>3, ElementOfSeq DEF TypeOK
  <2> QED
    BY <1>2, <2>4 DEF ClientFor
<1> QED
  BY <1>1, <1>2

\* Every step keeps every variable in its type.
LEMMA TypeStep == IInv /\ [Next]_vars => TypeOK'
<1> SUFFICES ASSUME IInv, [Next]_vars PROVE TypeOK'
  OBVIOUS
<1>t. TypeOK /\ PoolInv /\ GatherInv /\ LockInv /\ NodesAligned
  BY DEF IInv
<1>s. Seed \in Nodes /\ run.tls \in SUBSET TlsFlags /\ Subscriptions \in Int
  BY <1>t, SetupConstants, RunFacts DEF TypeOK
<1> USE <1>t, MastersFacts DEF TypeOK, Ended, found, nodes, cluster
<1>1. ASSUME NEW r \in BOOLEAN, CheckFlags(r) PROVE TypeOK'
  BY <1>s, <1>1 DEF CheckFlags
<1>2. CASE CommandFails \/ DivideByZero \/ ClientFails \/ CreatePanics
  BY <1>2 DEF CommandFails, DivideByZero, ClientFails, CreatePanics
<1>3. CASE ConnectStandalone
  <2>1. phase' \in {"size", "panicked"}
    BY <1>3, DialledFacts DEF ConnectStandalone
  <2>2. [pool |-> 0, node |-> Seed] \in Clients
    BY <1>s DEF Clients
  <2>3. /\ nodeClients' \in Seq(Clients)
        /\ nodesAddresses' \in Seq(Nodes \cup {Garbled})
        /\ nodeCount' \in 0 .. Cardinality(Nodes)
    BY <1>s, <1>3, <2>2 DEF ConnectStandalone
  <2> QED
    BY <1>3, <2>1, <2>3 DEF ConnectStandalone
<1>4. CASE ConnectCluster
  <2>1. phase' \in {"gather", "panicked"} /\ pools' = 1
    BY <1>4, DialledFacts DEF ConnectCluster, PoolInv
  <2> QED
    BY <1>4, <2>1 DEF ConnectCluster
<1>5. ASSUME NEW ok \in BOOLEAN, ForEachMaster(ok) PROVE TypeOK'
  <2>1. visit' \in [Nodes -> {"idle", "lock", "append"}]
    BY <1>5 DEF ForEachMaster
  <2>2. /\ foundClients' = <<>> /\ foundAddresses' = <<>>
        /\ phase' = "visiting"
    BY <1>5 DEF ForEachMaster, Fresh
  <2> QED
    BY <1>5, <2>1, <2>2 DEF ForEachMaster
<1>6. ASSUME NEW n \in Nodes, AppendClient(n) PROVE TypeOK'
  <2> DEFINE c == [pool |-> pools, node |-> n]
  <2>1. phase = "visiting" /\ visit[n] = "lock"
    BY <1>6 DEF AppendClient
  <2>2. c \in Clients /\ c.pool = pools /\ c.node = n
    BY DEF Clients
  <2> HIDE DEF c
  <2>3. Append(foundClients, c) \in Seq(Clients)
    BY <2>2
  <2>4. IsInjective(Append(foundClients, c))
    BY <2>1, <2>2, AppendDistinct DEF GatherInv
  <2>5. \A i \in 1 .. Len(Append(foundClients, c)) :
           Append(foundClients, c)[i].pool = pools
    <3>1. \A i \in 1 .. Len(foundClients) : foundClients[i].pool = pools
      BY <2>1 DEF GatherInv
    <3> QED
      BY <2>2, <3>1, AppendPool
  <2>6. Len(Append(foundClients, c)) <= Cardinality(Nodes)
    BY <2>3, <2>4, <2>5, DistinctBound
  <2>7. foundClients' = Append(foundClients, c)
    BY <1>6 DEF AppendClient, c
  <2> QED
    BY <1>6, <2>3, <2>6, <2>7 DEF AppendClient
<1>7. ASSUME NEW n \in Nodes, AppendAddress(n) PROVE TypeOK'
  <2>1. Cut(n) \in Nodes \cup {Garbled}
    BY DEF Cut
  <2>2. Append(foundAddresses, Cut(n)) \in Seq(Nodes \cup {Garbled})
    BY <2>1
  <2> QED
    BY <1>7, <2>2 DEF AppendAddress
<1>8. CASE GatherEnds
  BY <1>8, FoundBound DEF GatherEnds
<1>9. CASE SizePool
  <2>1. poolSize' \in Int
    <3>1. nodeCount \in Nat /\ nodeCount # 0
      BY <1>9 DEF SizePool
    <3>2. Quot(Subscriptions, nodeCount) \in Int
      BY <1>s, <3>1, QuotFacts
    <3>3. \/ poolSize' = Quot(Subscriptions, nodeCount)
          \/ poolSize' = poolSize
      BY <1>9 DEF SizePool
    <3> QED
      BY <3>2, <3>3
  <2>2. pools' \in 0 .. 2
    BY <1>9 DEF SizePool, PoolInv
  <2>3. phase' \in {"gather", "fatal", "create", "panicked"}
    BY <1>9, DialledFacts DEF SizePool
  <2> QED
    BY <1>9, <2>1, <2>2, <2>3 DEF SizePool
<1>10. ASSUME NEW n, NEW ch \in Slots, CreateClient(n, ch) PROVE TypeOK'
  <2>1. ClientFor(ch) \in Clients
    BY <1>10, ClientForType DEF CreateClient, HasNode
  <2>2. placed' \in Seq([client : Clients, first : Slots])
    BY <1>10, <2>1 DEF CreateClient
  <2> QED
    BY <1>10, <2>2 DEF CreateClient
<1>11. CASE StartBenchmark
  <2>1. phase' \in {"fatal", "panicked", "started"}
    BY <1>11 DEF StartBenchmark
  <2> QED
    BY <1>11, <2>1 DEF StartBenchmark
<1>12. CASE SlotMoves
  BY <1>12 DEF SlotMoves
<1>13. CASE UNCHANGED vars
  BY <1>13 DEF vars
<1> QED
  BY <1>1, <1>2, <1>3, <1>4, <1>5, <1>6, <1>7, <1>8, <1>9, <1>10, <1>11, <1>12,
     <1>13 DEF Next, Setup, Gather

\* One cluster client for each gathering.
LEMMA PoolStep == IInv /\ [Next]_vars => PoolInv'
<1> SUFFICES ASSUME IInv, [Next]_vars PROVE PoolInv'
  OBVIOUS
<1> USE RunFacts DEF IInv, TypeOK, PoolInv, nodes, found, cluster
<1>1. ASSUME NEW r \in BOOLEAN, CheckFlags(r) PROVE PoolInv'
  BY <1>1 DEF CheckFlags
<1>2. CASE CommandFails \/ DivideByZero \/ ClientFails \/ CreatePanics
  BY <1>2 DEF CommandFails, DivideByZero, ClientFails, CreatePanics
<1>3. CASE ConnectStandalone \/ ConnectCluster
  BY <1>3 DEF ConnectStandalone, ConnectCluster, Dialled
<1>4. ASSUME NEW ok \in BOOLEAN, ForEachMaster(ok) PROVE PoolInv'
  BY <1>4 DEF ForEachMaster
<1>5. ASSUME NEW n \in Nodes, AppendClient(n) \/ AppendAddress(n) PROVE PoolInv'
  BY <1>5 DEF AppendClient, AppendAddress
<1>6. CASE GatherEnds
  BY <1>6 DEF GatherEnds
<1>7. CASE SizePool
  BY <1>7 DEF SizePool, Dialled
<1>8. ASSUME NEW n, NEW ch \in Slots, CreateClient(n, ch) PROVE PoolInv'
  BY <1>8 DEF CreateClient
<1>9. CASE StartBenchmark
  BY <1>9 DEF StartBenchmark, Ended
<1>10. CASE SlotMoves
  BY <1>10 DEF SlotMoves
<1>11. CASE UNCHANGED vars
  BY <1>11 DEF vars
<1> QED
  BY <1>1, <1>2, <1>3, <1>4, <1>5, <1>6, <1>7, <1>8, <1>9, <1>10, <1>11
     DEF Next, Setup, Gather

\* The two steps of a goroutine take and release the lock; nobody else touches it.
LEMMA LockStep == IInv /\ [Next]_vars => LockInv'
<1> SUFFICES ASSUME IInv, [Next]_vars PROVE LockInv'
  OBVIOUS
<1> USE DEF IInv, TypeOK, LockInv, nodes, found, cluster
<1>1. ASSUME NEW r \in BOOLEAN, CheckFlags(r) PROVE LockInv'
  BY <1>1 DEF CheckFlags
<1>2. CASE CommandFails \/ DivideByZero \/ ClientFails \/ CreatePanics
  BY <1>2 DEF CommandFails, DivideByZero, ClientFails, CreatePanics
<1>3. CASE ConnectStandalone \/ ConnectCluster
  BY <1>3 DEF ConnectStandalone, ConnectCluster
<1>4. ASSUME NEW ok \in BOOLEAN, ForEachMaster(ok) PROVE LockInv'
  BY <1>4 DEF ForEachMaster
<1>5. ASSUME NEW n \in Nodes, AppendClient(n) PROVE LockInv'
  BY <1>5 DEF AppendClient, MayLock
<1>6. ASSUME NEW n \in Nodes, AppendAddress(n) PROVE LockInv'
  BY <1>6 DEF AppendAddress
<1>7. CASE GatherEnds
  BY <1>7 DEF GatherEnds
<1>8. CASE SizePool
  BY <1>8 DEF SizePool
<1>9. ASSUME NEW n, NEW ch \in Slots, CreateClient(n, ch) PROVE LockInv'
  BY <1>9 DEF CreateClient
<1>10. CASE StartBenchmark
  BY <1>10 DEF StartBenchmark, Ended
<1>11. CASE SlotMoves
  BY <1>11 DEF SlotMoves
<1>12. CASE UNCHANGED vars
  BY <1>12 DEF vars
<1> QED
  BY <1>1, <1>2, <1>3, <1>4, <1>5, <1>6, <1>7, <1>8, <1>9, <1>10, <1>11, <1>12
     DEF Next, Setup, Gather

\* The goroutine that holds the lock completes the pair it began.
LEMMA GatherStep == IInv /\ [Next]_vars => GatherInv'
<1> SUFFICES ASSUME IInv, [Next]_vars PROVE GatherInv'
  OBVIOUS
<1>t. TypeOK /\ LockInv /\ GatherInv
  BY DEF IInv
<1> USE <1>t
<1>1. ASSUME phase' # "visiting" PROVE GatherInv'
  BY <1>1 DEF GatherInv
<1>2. ASSUME UNCHANGED <<run, phase, pools, visit, clusterSlicesMu,
                         foundClients, foundAddresses>>
      PROVE  GatherInv'
  BY <1>2 DEF GatherInv, Cut
<1>3. ASSUME NEW ok \in BOOLEAN, ForEachMaster(ok) PROVE GatherInv'
  <2>1. foundClients' = <<>> /\ foundAddresses' = <<>>
    BY <1>3 DEF ForEachMaster, Fresh
  <2>2. clusterSlicesMu' = "free"
    BY <1>3 DEF ForEachMaster, LockInv, TypeOK
  <2> QED
    BY <2>1, <2>2 DEF GatherInv, IsInjective
<1>4. ASSUME NEW n \in Nodes, AppendClient(n) PROVE GatherInv'
  <2>1. phase = "visiting" /\ clusterSlicesMu = "free" /\ visit[n] = "lock"
    BY <1>4 DEF AppendClient, MayLock
  <2>2. Len(foundClients) = Len(foundAddresses) /\ Len(foundAddresses) \in Nat
    BY <2>1 DEF GatherInv, TypeOK
  <2> DEFINE c == [pool |-> pools, node |-> n]
             k == Len(foundAddresses) + 1
  <2>3. /\ foundClients' = Append(foundClients, c)
        /\ UNCHANGED <<run, foundAddresses, pools, phase>>
        /\ clusterSlicesMu' = "held"
        /\ visit' = [visit EXCEPT ![n] = "append"]
    BY <1>4 DEF AppendClient
  <2>4. c \in Clients /\ c.pool = pools /\ c.node = n
    BY DEF Clients, TypeOK
  <2> HIDE DEF c
  <2>5. /\ Len(foundClients') = k
        /\ foundClients'[k] = c
        /\ \A i \in 1 .. Len(foundAddresses) : foundClients'[i] = foundClients[i]
    BY <2>2, <2>3, <2>4 DEF TypeOK
  <2>6. IsInjective(foundClients')
    BY <2>1, <2>3, <2>4, AppendDistinct DEF GatherInv, TypeOK
  <2>7. \A i \in 1 .. Len(foundAddresses) : foundClients[i].node \in Nodes
    <3>1. \A i \in 1 .. Len(foundClients) : foundClients[i] \in Clients
      BY ElementOfSeq DEF TypeOK
    <3> QED
      BY <2>2, <3>1 DEF Clients
  <2>8. visit'[n] = "append"
    BY <2>1, <2>3 DEF TypeOK
  <2>9. \A i \in 1 .. k : /\ foundClients'[i].pool = pools
                          /\ visit'[foundClients'[i].node] # "lock"
    <3> SUFFICES ASSUME NEW i \in 1 .. k
                 PROVE  /\ foundClients'[i].pool = pools
                        /\ visit'[foundClients'[i].node] # "lock"
      OBVIOUS
    <3>1. CASE i = k
      BY <2>4, <2>5, <2>8, <3>1
    <3>2. CASE i # k
      <4>1. i \in 1 .. Len(foundAddresses)
        BY <2>2, <3>2
      <4>2. /\ foundClients[i].pool = pools
            /\ visit[foundClients[i].node] # "lock"
        BY <2>1, <2>2, <4>1 DEF GatherInv
      <4> QED
        BY <2>3, <2>5, <2>7, <4>1, <4>2 DEF TypeOK
    <3> QED
      BY <3>1, <3>2
  <2>10. \A i \in 1 .. Len(foundAddresses) :
            foundAddresses[i] = Cut(foundClients'[i].node)
    BY <2>1, <2>5 DEF GatherInv
  <2>11. \A m : Cut(m)' = Cut(m)
    BY <2>3 DEF Cut
  <2> HIDE DEF k
  <2> QED
    BY <2>1, <2>2, <2>3, <2>4, <2>5, <2>6, <2>8, <2>9, <2>10, <2>11
       DEF GatherInv, k
<1>5. ASSUME NEW n \in Nodes, AppendAddress(n) PROVE GatherInv'
  <2>1. phase = "visiting" /\ clusterSlicesMu = "held" /\ visit[n] = "append"
    BY <1>5 DEF AppendAddress, LockInv, TypeOK
  <2>2. CASE run.addresses[n] = "short"
    BY <1>1, <1>5, <2>2 DEF AppendAddress
  <2>3. CASE run.addresses[n] # "short"
    <3> DEFINE k == Len(foundAddresses) + 1
    <3>1. /\ Len(foundClients) = k /\ Len(foundAddresses) \in Nat
          /\ visit[foundClients[k].node] = "append"
      BY <2>1 DEF GatherInv, TypeOK
    <3>2. \A i \in 1 .. k : foundClients[i].node \in Nodes
      <4>1. \A i \in 1 .. k : foundClients[i] \in Clients
        BY <3>1, ElementOfSeq DEF TypeOK
      <4> QED
        BY <4>1 DEF Clients
    <3>3. foundClients[k].node = n
      BY <2>1, <3>1, <3>2 DEF LockInv
    <3>4. /\ foundAddresses' = Append(foundAddresses, Cut(n))
          /\ UNCHANGED <<run, foundClients, pools, phase>>
          /\ clusterSlicesMu' = "free"
          /\ visit' = [visit EXCEPT ![n] = "idle"]
      BY <1>5, <2>3 DEF AppendAddress
    <3>5. /\ Len(foundAddresses') = k
          /\ foundAddresses'[k] = Cut(n)
          /\ \A i \in 1 .. Len(foundAddresses) :
                foundAddresses'[i] = foundAddresses[i]
      <4>1. Cut(n) \in Nodes \cup {Garbled}
        BY DEF Cut
      <4> QED
        BY <3>4, <4>1 DEF TypeOK
    <3>6. \A i \in 1 .. k : visit'[foundClients[i].node] # "lock"
      BY <2>1, <3>1, <3>2, <3>4 DEF GatherInv, TypeOK
    <3>7. \A i \in 1 .. k : foundAddresses'[i] = Cut(foundClients[i].node)
      <4> SUFFICES ASSUME NEW i \in 1 .. k
                   PROVE  foundAddresses'[i] = Cut(foundClients[i].node)
        OBVIOUS
      <4>1. CASE i = k
        BY <3>3, <3>5, <4>1
      <4>2. CASE i # k
        <5>1. i \in 1 .. Len(foundAddresses)
          BY <3>1, <4>2
        <5> QED
          BY <2>1, <3>5, <5>1 DEF GatherInv
      <4> QED
        BY <4>1, <4>2
    <3> QED
      BY <2>1, <3>1, <3>4, <3>5, <3>6, <3>7 DEF GatherInv, Cut
  <2> QED
    BY <2>2, <2>3
<1>6. CASE \/ CommandFails \/ ConnectStandalone \/ ConnectCluster \/ GatherEnds
           \/ SizePool \/ DivideByZero \/ ClientFails \/ CreatePanics
           \/ StartBenchmark \/ \E r \in BOOLEAN : CheckFlags(r)
  BY <1>1, <1>6 DEF CommandFails, ConnectStandalone, ConnectCluster, GatherEnds,
     SizePool, DivideByZero, ClientFails, CreatePanics, StartBenchmark, CheckFlags,
     Dialled
<1>7. ASSUME NEW n, NEW ch \in Slots, CreateClient(n, ch) PROVE GatherInv'
  BY <1>2, <1>7 DEF CreateClient, found
<1>8. CASE SlotMoves
  BY <1>2, <1>8 DEF SlotMoves, found
<1>9. CASE UNCHANGED vars
  BY <1>2, <1>9 DEF vars
<1> QED
  BY <1>3, <1>4, <1>5, <1>6, <1>7, <1>8, <1>9 DEF Next, Setup, Gather

\* What was gathered is aligned when the goroutines are done, and stays so.
LEMMA AlignStep == IInv /\ [Next]_vars => NodesAligned'
<1> SUFFICES ASSUME IInv, [Next]_vars PROVE NodesAligned'
  OBVIOUS
<1>t. TypeOK /\ PoolInv /\ LockInv /\ GatherInv /\ NodesAligned
  BY DEF IInv
<1> USE <1>t
<1>1. ASSUME phase' \notin {"size", "create", "started"} PROVE NodesAligned'
  BY <1>1 DEF NodesAligned
<1>2. ASSUME UNCHANGED <<run, nodeClients, nodesAddresses, nodeCount, pools>>,
             phase \in {"size", "create", "started"}
      PROVE  NodesAligned'
  BY <1>2 DEF NodesAligned, AddressOf, Cut
<1>3. CASE ConnectStandalone
  <2>1. /\ nodeClients' = <<[pool |-> 0, node |-> Seed]>>
        /\ nodesAddresses' = <<Seed>>
        /\ nodeCount' = 1
        /\ pools' = 0
    BY <1>3 DEF ConnectStandalone, PoolInv
  <2> QED
    BY <2>1 DEF NodesAligned, IsInjective, AddressOf
<1>4. CASE GatherEnds
  <2>1. phase = "visiting" /\ \A n \in Nodes : visit[n] = "idle"
    BY <1>4 DEF GatherEnds
  <2>2. clusterSlicesMu = "free"
    BY <2>1 DEF LockInv, TypeOK
  <2>3. /\ nodeClients' = foundClients
        /\ nodesAddresses' = foundAddresses
        /\ nodeCount' = Len(foundAddresses)
        /\ UNCHANGED <<run, pools>>
    BY <1>4 DEF GatherEnds
  <2>4. pools # 0
    BY <2>1 DEF PoolInv
  <2> QED
    BY <2>1, <2>2, <2>3, <2>4 DEF GatherInv, NodesAligned, AddressOf, Cut
<1>5. CASE SizePool
  <2>1. phase = "size" /\ UNCHANGED nodes
    BY <1>5 DEF SizePool
  <2>2. CASE run.pool = 0 /\ run.distribute
    BY <1>1, <1>5, <2>2 DEF SizePool, Dialled
  <2>3. CASE ~(run.pool = 0 /\ run.distribute)
    <3>1. pools' = pools
      BY <1>5, <2>3 DEF SizePool
    <3>2. UNCHANGED <<run, nodeClients, nodesAddresses, nodeCount>>
      BY <1>5 DEF SizePool, nodes
    <3> QED
      BY <1>2, <2>1, <3>1, <3>2
  <2> QED
    BY <2>2, <2>3
<1>6. ASSUME NEW n, NEW ch \in Slots, CreateClient(n, ch) PROVE NodesAligned'
  BY <1>2, <1>6 DEF CreateClient, nodes
<1>7. CASE StartBenchmark
  BY <1>2, <1>7 DEF StartBenchmark, nodes
<1>8. CASE \/ CommandFails \/ ConnectCluster \/ DivideByZero
           \/ ClientFails \/ CreatePanics
           \/ \E r \in BOOLEAN : CheckFlags(r)
           \/ \E ok \in BOOLEAN : ForEachMaster(ok)
  BY <1>1, <1>8 DEF CommandFails, ConnectCluster, DivideByZero, ClientFails,
     CreatePanics, CheckFlags, ForEachMaster, Dialled
<1>9. ASSUME NEW n \in Nodes, AppendClient(n) \/ AppendAddress(n)
      PROVE  NodesAligned'
  <2>1. phase' \in {"visiting", "panicked"}
    BY <1>9 DEF AppendClient, AppendAddress
  <2> QED
    BY <1>1, <2>1
<1>10. CASE SlotMoves
  BY <1>10 DEF SlotMoves, nodes, NodesAligned, AddressOf, Cut
<1>11. CASE UNCHANGED vars
  BY <1>11 DEF vars, NodesAligned, AddressOf, Cut
<1> QED
  BY <1>3, <1>4, <1>5, <1>6, <1>7, <1>8, <1>9, <1>10, <1>11
     DEF Next, Setup, Gather

\* Flags are looked at once; afterwards nobody touches the TLS configuration.
LEMMA TlsStep == IInv /\ [Next]_vars => TlsKept'
<1> SUFFICES ASSUME IInv, [Next]_vars PROVE TlsKept'
  OBVIOUS
<1> USE RunFacts DEF IInv, TypeOK, TlsKept
<1>1. ASSUME NEW r \in BOOLEAN, CheckFlags(r) PROVE TlsKept'
  <2>1. CASE phase' = "fatal"
    BY <2>1
  <2>2. CASE phase' # "fatal"
    <3>1. ~TlsFilesFail(r) /\ ~Unprotected /\ run' = run
      BY <1>1, <2>2 DEF CheckFlags
    <3>2. tlsConfig' = IF "tls" \in run.tls THEN run.tls ELSE {}
      BY <1>1, <2>2 DEF CheckFlags
    <3>3. tlsConfig' = run.tls
      BY <3>1, <3>2 DEF Unprotected
    <3>4. ("tls_cert" \in run.tls) <=> ("tls_key" \in run.tls)
      BY <3>1 DEF TlsFilesFail, Unprotected
    <3> QED
      BY <3>1, <3>3, <3>4
  <2> QED
    BY <2>1, <2>2
<1>2. CASE CommandFails \/ DivideByZero \/ ClientFails \/ CreatePanics
  BY <1>2 DEF CommandFails, DivideByZero, ClientFails, CreatePanics
<1>3. CASE ConnectStandalone \/ ConnectCluster \/ GatherEnds \/ SizePool
  BY <1>3 DEF ConnectStandalone, ConnectCluster, GatherEnds, SizePool, Dialled
<1>4. ASSUME NEW ok \in BOOLEAN, ForEachMaster(ok) PROVE TlsKept'
  BY <1>4 DEF ForEachMaster
<1>5. ASSUME NEW n \in Nodes, AppendClient(n) \/ AppendAddress(n) PROVE TlsKept'
  BY <1>5 DEF AppendClient, AppendAddress
<1>6. ASSUME NEW n, NEW ch \in Slots, CreateClient(n, ch) PROVE TlsKept'
  BY <1>6 DEF CreateClient
<1>7. CASE StartBenchmark \/ SlotMoves
  BY <1>7 DEF StartBenchmark, SlotMoves, Ended
<1>8. CASE UNCHANGED vars
  BY <1>8 DEF vars
<1> QED
  BY <1>1, <1>2, <1>3, <1>4, <1>5, <1>6, <1>7, <1>8 DEF Next, Setup, Gather

\* Placing goes on in turn, and nothing else disturbs who was placed.
LEMMA PlaceStep == IInv /\ [Next]_vars => PlaceInv'
<1> SUFFICES ASSUME IInv, [Next]_vars PROVE PlaceInv'
  OBVIOUS
<1>t. TypeOK /\ NodesAligned /\ PlaceInv
  BY DEF IInv
\* Nobody was placed yet.
<1>1. ASSUME placed' = <<>> PROVE PlaceInv'
  BY <1>1 DEF PlaceInv
<1>2. ASSUME phase \notin {"create"} \cup Ended, UNCHANGED placed
      PROVE  PlaceInv'
  BY <1>t, <1>1, <1>2 DEF PlaceInv
\* Nothing that matters changes any more.
<1>3. ASSUME UNCHANGED <<run, placed, pools, nodeClients, nodeCount>>,
             phase \in {"create"} \cup Ended =>
                phase' \in {"create"} \cup Ended
      PROVE  PlaceInv'
  BY <1>t, <1>3 DEF PlaceInv, Sharded, NodePos
<1>4. ASSUME NEW n, NEW ch \in Slots, CreateClient(n, ch) PROVE PlaceInv'
  <2> DEFINE k == Len(placed) + 1
             p == [client |-> ClientFor(ch), first |-> ch]
  <2>1. /\ phase = "create"
        /\ UNCHANGED <<run, phase, pools, nodeClients, nodeCount>>
        /\ placed' = Append(placed, p)
        /\ Sharded \/ nodeCount # 0
    BY <1>4 DEF CreateClient, HasNode, nodes
  <2>2. ClientFor(ch) \in Clients
    BY <1>t, <2>1, ClientForType
  <2>3. /\ DOMAIN placed = 1 .. Len(placed) /\ Len(placed) \in Nat
        /\ DOMAIN placed' = 1 .. k /\ placed'[k] = p
        /\ \A j \in DOMAIN placed : placed'[j] = placed[j]
        /\ \A j \in 1 .. k : j # k => j \in DOMAIN placed
    BY <1>t, <2>1, <2>2 DEF TypeOK
  <2>4. p.client = ClientFor(ch) /\ p.first = ch
    OBVIOUS
  <2>5. Sharded' = Sharded
    BY <2>1 DEF Sharded
  <2>6. CASE Sharded
    <3>1. ClientFor(ch).pool = pools
      BY <2>6 DEF ClientFor
    <3>2. p.client.pool = pools
      BY <2>4, <3>1
    <3> HIDE DEF p, k
    <3> QED
      BY <1>t, <2>1, <2>3, <2>5, <2>6, <3>2 DEF PlaceInv, Ended
  <2>7. CASE ~Sharded
    <3>1. /\ nodeCount \in Nat \ {0} /\ Len(nodeClients) = nodeCount
          /\ \A i \in 1 .. nodeCount :
                nodeClients[i].pool = pools
      BY <1>t, <2>1, <2>7, MastersFacts DEF NodesAligned, TypeOK
    <3>2. IsInjective(nodeClients)
      BY <1>t, <2>1 DEF NodesAligned
    <3>3. ClientFor(ch) = nodeClients[NodePos(k) + 1]
      BY <2>7 DEF ClientFor
    <3>4. NodePos(k) + 1 \in 1 .. nodeCount
      <4>1. NodePos(k) \in 0 .. nodeCount - 1
        <5>1. k \in Nat /\ nodeCount \in Nat /\ nodeCount # 0
          BY <2>3, <3>1
        <5> HIDE DEF k
        <5> QED
          BY <5>1, ModFacts DEF NodePos
      <4> QED
        BY <3>1, <4>1
    <3>5. p.client = nodeClients[NodePos(k) + 1] /\ p.client.pool = pools
      BY <2>4, <3>1, <3>3, <3>4
    <3> HIDE DEF p, k
    <3>6. \A j : NodePos(j)' = NodePos(j)
      BY <2>1 DEF NodePos
    <3>7. \A j \in DOMAIN placed :
             /\ placed[j].client = nodeClients[NodePos(j) + 1]
             /\ placed[j].client.pool = pools
      BY <1>t, <2>3, <2>7 DEF PlaceInv
    <3> QED
      BY <2>1, <2>3, <2>5, <2>7, <3>1, <3>2, <3>5, <3>6, <3>7
         DEF PlaceInv, Ended
  <2> QED
    BY <2>6, <2>7
<1>5. CASE StartBenchmark \/ ClientFails \/ CreatePanics
  BY <1>3, <1>5 DEF StartBenchmark, ClientFails, CreatePanics, Ended, cluster,
                    nodes
<1>6. CASE \/ CommandFails \/ ConnectStandalone \/ ConnectCluster \/ GatherEnds
           \/ SizePool \/ DivideByZero
           \/ \E r \in BOOLEAN : CheckFlags(r)
           \/ \E ok \in BOOLEAN : ForEachMaster(ok)
  BY <1>2, <1>6 DEF CommandFails, ConnectStandalone, ConnectCluster, GatherEnds,
     SizePool, DivideByZero, CheckFlags, ForEachMaster, Ended
<1>7. ASSUME NEW n \in Nodes, AppendClient(n) \/ AppendAddress(n)
      PROVE  PlaceInv'
  <2>1. phase = "visiting"
    BY <1>7 DEF AppendClient, AppendAddress
  <2> QED
    BY <1>2, <1>7, <2>1 DEF AppendClient, AppendAddress, Ended
<1>8. CASE SlotMoves
  BY <1>3, <1>8 DEF SlotMoves, nodes
<1>9. CASE UNCHANGED vars
  BY <1>3, <1>9 DEF vars
<1> QED
  BY <1>4, <1>5, <1>6, <1>7, <1>8, <1>9 DEF Next, Setup, Gather

\* Each panic is one of those explained, and main divides by what it gathered last.
LEMMA PanicStep == IInv /\ [Next]_vars => PanicInv'
<1> SUFFICES ASSUME IInv, [Next]_vars PROVE PanicInv'
  OBVIOUS
<1>t. TypeOK /\ PoolInv /\ NodesAligned /\ PanicInv
  BY DEF IInv
<1>r. /\ run.channels[1] \in Int /\ run.channels[2] \in Int
      /\ run.pool \in Int /\ run.tick \in Int /\ Subscriptions \in Int
  BY <1>t, RunFacts DEF TypeOK
<1>1. ASSUME phase' \notin {"size", "create", "panicked"} PROVE PanicInv'
  BY <1>1 DEF PanicInv, PanicsExplained
\* main goes on, or stays where it is, with what it has.
<1>2. ASSUME phase' \in {"size", "create"}, phase \in {"size", "create"},
             UNCHANGED <<run, nodeClients, foundClients, nodeCount>>
      PROVE  PanicInv'
  BY <1>t, <1>2 DEF PanicInv, PanicsExplained
<1>3. CASE CommandFails \/ \E r \in BOOLEAN : CheckFlags(r)
  BY <1>1, <1>3 DEF CommandFails, CheckFlags
<1>4. CASE ConnectStandalone
  <2>1. run' = run /\ nodeCount' = 1 /\ ~run.distribute
    BY <1>4 DEF ConnectStandalone
  <2>2. phase' = "size" \/ (phase' = "panicked" /\ run.pool < 0)
    BY <1>4 DEF ConnectStandalone, Dialled
  <2> QED
    BY <2>1, <2>2 DEF PanicInv, PanicsExplained
<1>5. CASE ConnectCluster
  <2>1. run' = run /\ (phase' = "gather" \/ (phase' = "panicked" /\ run.pool < 0))
    BY <1>5 DEF ConnectCluster, Dialled
  <2> QED
    BY <2>1 DEF PanicInv, PanicsExplained
<1>6. ASSUME NEW ok \in BOOLEAN, ForEachMaster(ok) PROVE PanicInv'
  BY <1>1, <1>6 DEF ForEachMaster
<1>7. ASSUME NEW n \in Nodes, AppendClient(n) PROVE PanicInv'
  BY <1>1, <1>7 DEF AppendClient
<1>8. ASSUME NEW n \in Nodes, AppendAddress(n) PROVE PanicInv'
  <2>1. CASE run.addresses[n] = "short"
    <3>1. run.distribute
      BY <1>t, <1>8 DEF AppendAddress, PoolInv
    <3>2. run' = run /\ phase' = "panicked"
      BY <1>8, <2>1 DEF AppendAddress
    <3> QED
      BY <2>1, <3>1, <3>2 DEF PanicInv, PanicsExplained
  <2>2. CASE run.addresses[n] # "short"
    BY <1>1, <1>8, <2>2 DEF AppendAddress
  <2> QED
    BY <2>1, <2>2
<1>9. CASE GatherEnds
  <2>1. /\ run.distribute /\ run' = run
        /\ nodeClients' = foundClients /\ foundClients' = foundClients
        /\ phase' \in {"size", "create"}
    BY <1>t, <1>9 DEF GatherEnds, PoolInv, found
  <2> QED
    BY <2>1 DEF PanicInv, PanicsExplained
<1>10. CASE SizePool
  <2>1. /\ phase = "size" /\ nodeCount \in Nat /\ nodeCount # 0
        /\ UNCHANGED <<run, nodeClients, foundClients, nodeCount>>
    BY <1>t, <1>10, MastersFacts DEF SizePool, TypeOK, nodes, found
  <2>2. CASE phase' # "panicked"
    BY <1>1, <1>2, <1>10, <2>1, <2>2 DEF SizePool
  <2>3. CASE phase' = "panicked"
    <3>1. /\ run.pool = 0 /\ run.distribute
          /\ Quot(Subscriptions, nodeCount) < 0
      BY <1>10, <2>3 DEF SizePool, Dialled
    <3>2. Subscriptions < 0
      BY <1>r, <2>1, <3>1, QuotFacts
    <3>3. Subscriptions' = Subscriptions
      BY <2>1 DEF Subscriptions
    <3> QED
      BY <2>1, <2>3, <3>1, <3>2, <3>3 DEF PanicInv, PanicsExplained
  <2> QED
    BY <2>2, <2>3
<1>11. ASSUME phase \in {"size", "create"}, nodeCount = 0,
              phase' = "panicked", UNCHANGED <<run, foundClients>>
       PROVE  PanicInv'
  <2>1. run.distribute /\ nodeClients = foundClients
    BY <1>t, <1>11 DEF PanicInv
  <2>2. nodeClients = <<>>
    BY <1>t, <1>11 DEF NodesAligned, TypeOK
  <2> QED
    BY <1>11, <2>1, <2>2 DEF PanicInv, PanicsExplained
<1>12. CASE DivideByZero
  BY <1>11, <1>12 DEF DivideByZero, found
<1>13. ASSUME NEW n, NEW ch \in Slots, CreateClient(n, ch) PROVE PanicInv'
  BY <1>2, <1>13 DEF CreateClient, nodes, found
<1>14. CASE ClientFails
  BY <1>1, <1>14 DEF ClientFails
<1>15. CASE CreatePanics
  <2>1. /\ phase = "create" /\ phase' = "panicked"
        /\ UNCHANGED <<run, foundClients>>
    BY <1>15 DEF CreatePanics, found
  <2>2. CASE Inverted(run.channels)
    BY <2>1, <2>2 DEF Inverted, PanicInv, PanicsExplained
  <2>3. ASSUME NEW n \in Draw(run.channels), ~DrawsChannels(n)
        PROVE  PanicInv'
    <3>1. Inverted(run.channels) \/ Inverted(run.ids)
      BY <2>3 DEF DrawsChannels
    <3> QED
      BY <2>1, <3>1 DEF Inverted, PanicInv, PanicsExplained
  <2>4. ASSUME NEW n \in Draw(run.channels), ~HasNode(n)
        PROVE  PanicInv'
    <3>1. CASE Sharded
      <4>1. n >= run.channels[1] /\ n \in Int
        BY <1>r, <2>4 DEF Draw
      <4>2. run.channels[1] <= 0
        BY <1>r, <2>4, <3>1, <4>1 DEF HasNode
      <4>3. Sharded'
        BY <2>1, <3>1 DEF Sharded
      <4> QED
        BY <2>1, <4>2, <4>3 DEF PanicInv, PanicsExplained
    <3>2. CASE ~Sharded
      BY <1>11, <2>1, <2>4, <3>2 DEF HasNode
    <3> QED
      BY <3>1, <3>2
  <2>5. CASE Subscribing /\ Inverted(run.reconnect)
    BY <2>1, <2>5 DEF Inverted, Subscribing, PanicInv, PanicsExplained
  <2> QED
    BY <1>15, <2>2, <2>3, <2>4, <2>5 DEF CreatePanics
<1>16. CASE StartBenchmark
  <2>1. run' = run /\ phase' \in {"fatal", "panicked", "started"}
        /\ (phase' = "panicked" => run.tick <= 0)
    BY <1>16 DEF StartBenchmark
  <2> QED
    BY <2>1 DEF PanicInv, PanicsExplained
<1>17. CASE SlotMoves
  BY <1>1, <1>2, <1>17 DEF SlotMoves, Ended, nodes, found
<1>18. CASE UNCHANGED vars
  <2>1. UNCHANGED <<run, phase, nodeClients, foundClients, nodeCount>>
    BY <1>18 DEF vars
  <2> QED
    BY <1>t, <2>1 DEF PanicInv, PanicsExplained, Subscribing, Sharded,
                      Subscriptions
<1> QED
  BY <1>3, <1>4, <1>5, <1>6, <1>7, <1>8, <1>9, <1>10, <1>12, <1>13, <1>14,
     <1>15, <1>16, <1>17, <1>18 DEF Next, Setup, Gather

\* IInv is an invariant of the set-up.
THEOREM Inductive == Spec => []IInv
<1>1. IInv /\ [Next]_vars => IInv'
  BY TypeStep, PoolStep, LockStep, GatherStep, AlignStep, TlsStep, PlaceStep,
     PanicStep DEF IInv
<1>2. QED
  BY InitIInv, <1>1, PTL DEF Spec

-----------------------------------------------------------------------------
\* Type correctness; in particular the slices never outgrow the masters, and no
\* client is taken from beyond the end of one.
THEOREM TypeCorrect == Spec => []TypeOK
<1>1. IInv => TypeOK
  BY DEF IInv
<1>2. QED
  BY <1>1, Inductive, PTL

\* Clients and addresses are aligned whatever the goroutines' order, for clusters
\* of any size (lines 638-667).
THEOREM Aligned == Spec => []NodesAligned
<1>1. IInv => NodesAligned
  BY DEF IInv
<1>2. QED
  BY <1>1, Inductive, PTL

\* No command line leads to a connection without the TLS options it asks for.
THEOREM TlsNeverDropped == Spec => []TlsKept
<1>1. IInv => TlsKept
  BY DEF IInv
<1>2. QED
  BY <1>1, Inductive, PTL

\* No run panics but for the reasons listed, whatever fails on its way, however
\* many masters it meets and however slots move.
THEOREM PanicsAreExplained == Spec => []PanicsExplained
<1>1. IInv => PanicsExplained
  BY DEF IInv, PanicInv
<1>2. QED
  BY <1>1, Inductive, PTL

\* Publishers and subscribers that take nodes in turn (lines 480 and 526) sit on
\* gathered nodes and load any two of them alike but for one, whatever their
\* number and that of the nodes, and nobody uses the replaced cluster client.
THEOREM EvenlyPlaced == Spec => []DistributedEvenly
<1>1. ASSUME IInv, ~Sharded,
             NEW c \in Range(nodeClients), NEW d \in Range(nodeClients)
      PROVE  Load(c) <= Load(d) + 1
  <2>1. CASE placed = <<>>
    <3>1. Load(c) = Cardinality({}) /\ Load(d) = Cardinality({})
      BY <2>1 DEF Load
    <3> QED
      BY <3>1, FS_EmptySet
  <2>2. CASE placed # <<>>
    <3>1. /\ nodeCount \in Nat \ {0} /\ Len(nodeClients) = nodeCount
          /\ DOMAIN nodeClients = 1 .. nodeCount /\ IsInjective(nodeClients)
          /\ DOMAIN placed = 1 .. Len(placed) /\ Len(placed) \in Nat
      BY <1>1, <2>2, MastersFacts DEF IInv, TypeOK, PlaceInv
    <3>2. \A k \in DOMAIN placed :
             placed[k].client = nodeClients[NodePos(k) + 1]
      BY <1>1, <2>2 DEF IInv, PlaceInv
    \* Who is placed on a node is told by the remainder of the id.
    <3>3. ASSUME NEW e \in Range(nodeClients)
          PROVE  \E r \in 0 .. nodeCount - 1 :
                    Load(e) = Cardinality({k \in 1 .. Len(placed) :
                                              k % nodeCount = r})
      <4>1. PICK i \in 1 .. nodeCount : nodeClients[i] = e
        BY <3>1, <3>3 DEF Range
      <4>2. i - 1 \in 0 .. nodeCount - 1
        BY <3>1
      <4>3. ASSUME NEW k \in DOMAIN placed
            PROVE  placed[k].client = e <=> k % nodeCount = i - 1
        <5>1. k % nodeCount \in 0 .. nodeCount - 1
          <6>1. k \in Nat /\ nodeCount \in Nat /\ nodeCount # 0
            BY <3>1
          <6> QED
            BY <6>1, ModFacts
        <5>2. (k % nodeCount) + 1 \in 1 .. nodeCount
          BY <3>1, <5>1
        <5>3. placed[k].client = nodeClients[(k % nodeCount) + 1]
          BY <3>2 DEF NodePos
        <5>4. placed[k].client = e <=> (k % nodeCount) + 1 = i
          BY <3>1, <4>1, <5>2, <5>3 DEF IsInjective
        <5> QED
          BY <3>1, <5>1, <5>4
      <4>4. {k \in DOMAIN placed : placed[k].client = e}
               = {k \in 1 .. Len(placed) : k % nodeCount = i - 1}
        BY <3>1, <4>3
      <4> QED
        BY <4>2, <4>4 DEF Load
    <3>4. PICK r \in 0 .. nodeCount - 1 :
             Load(c) = Cardinality({k \in 1 .. Len(placed) :
                                       k % nodeCount = r})
      BY <3>3
    <3>5. PICK s \in 0 .. nodeCount - 1 :
             Load(d) = Cardinality({k \in 1 .. Len(placed) :
                                       k % nodeCount = s})
      BY <3>3
    <3> QED
      BY <3>1, <3>4, <3>5, EvenTurns
  <2> QED
    BY <2>1, <2>2
<1>2. ASSUME IInv, ~Sharded, NEW k \in DOMAIN placed
      PROVE  placed[k].client \in Range(nodeClients)
  <2>1. /\ nodeCount \in Nat /\ nodeCount # 0
        /\ DOMAIN nodeClients = 1 .. nodeCount
        /\ DOMAIN placed = 1 .. Len(placed) /\ Len(placed) \in Nat
        /\ placed # <<>>
    BY <1>2, MastersFacts DEF IInv, TypeOK, PlaceInv
  <2>k. k \in Nat
    BY <2>1
  <2>2. k % nodeCount \in 0 .. nodeCount - 1
    BY <2>1, <2>k, ModFacts
  <2>3. (k % nodeCount) + 1 \in DOMAIN nodeClients
    BY <2>1, <2>k, <2>2
  <2>4. placed[k].client = nodeClients[(k % nodeCount) + 1]
    BY <1>2, <2>1 DEF IInv, PlaceInv, NodePos
  <2> QED
    BY <2>3, <2>4 DEF Range
<1>3. IInv => DistributedEvenly
  BY <1>1, <1>2 DEF DistributedEvenly, IInv, PlaceInv
<1> QED
  BY <1>3, Inductive, PTL
=============================================================================
