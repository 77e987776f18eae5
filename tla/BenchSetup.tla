----------------------------- MODULE BenchSetup -----------------------------
(***************************************************************************)
(* The set-up of main in subscriber.go: flags are checked, a TLS           *)
(* configuration is built, the nodes are gathered (in cluster mode by one  *)
(* goroutine per master, under a mutex, and a second time with another     *)
(* cluster client when the pool size is computed), and every publisher or  *)
(* subscriber is given a client.  What the goroutines do once started is   *)
(* the subject of SubscriberRoutine and PublisherRoutine.                  *)
(*                                                                         *)
(* go-redis and the cluster are external: a command may fail,              *)
(* ForEachMaster calls its argument in a goroutine per master it knows and *)
(* waits for all, or fails without calling it, and slots move between      *)
(* masters.  A client is named by its node and by the number of the        *)
(* cluster client it belongs to (0: the standalone client).  Of a channel  *)
(* only its slot is told.  Flags are numbers that nobody checks: the       *)
(* panics they lead to are part of the model.                              *)
(***************************************************************************)
EXTENDS Integers, Sequences, FiniteSets, Functions

CONSTANTS
    Nodes,          \* masters the cluster may have
    Seed,           \* the one that --host and --port name
    Slots,          \* hash slots that channels fall into
    Garbled,        \* an address that lines 655-658 cut at the wrong place
    Runs,           \* command lines, and how the cluster they meet is addressed
    MaxChanges      \* BOUND: how often slots move during the set-up

TlsFlags == {"tls", "tls_ca", "tls_cert", "tls_key", "tls_insecure_skip_verify"}

ASSUME SetupConstants ==
    /\ IsFiniteSet(Nodes)
    /\ Seed \in Nodes
    /\ Garbled \notin Nodes
    /\ Runs \subseteq
          [limits : SUBSET {"messages", "test-time"}, tls : SUBSET TlsFlags,
           distribute : BOOLEAN, pool : Int, perChannel : Int, tick : Int,
           mode : {"subscribe", "ssubscribe", "publish", "spublish", "other"},
           placement : {"dense", "sparse"}, clients : Nat,
           ids : Int \X Int, channels : Int \X Int,
           reconnect : Int \X Int,                         \* <<min, max>>
           addresses : [Nodes -> {"plain", "garbled", "short"}]]
    /\ MaxChanges \in Nat

VARIABLES
    run,            \* the flags; they never change
    phase,          \* where main is; "fatal" and "panicked" end the process
    tlsConfig,      \* the TLS flags in effect; {} is the nil configuration
    owner,          \* the master of each slot
    changes,        \* counter for the bound
    pools,          \* cluster clients created so far
    visit,          \* ForEachMaster: per master, where its goroutine is
    clusterSlicesMu,
    foundClients, foundAddresses,   \* the slices the goroutines append to
    nodeClients, nodesAddresses, nodeCount,
    poolSize,
    placed          \* per client id: the client it uses and the slot of its
                    \* first channel, if it has channels

found == <<foundClients, foundAddresses>>
nodes == <<nodeClients, nodesAddresses, nodeCount>>
cluster == <<owner, changes>>
vars == <<run, phase, tlsConfig, owner, changes, pools, visit, clusterSlicesMu,
          foundClients, foundAddresses, nodeClients, nodesAddresses, nodeCount,
          poolSize, placed>>

Masters == Range(owner)
Clients == [pool : 0 .. 2, node : Nodes]
Ended == {"started", "fatal", "panicked"}

Publishing == run.mode \in {"publish", "spublish"}
Subscribing == run.mode \in {"subscribe", "ssubscribe"}

\* The client is the master of the first channel, else the next node in turn.
Sharded == run.mode \in {"ssubscribe", "spublish"} /\ run.distribute

-----------------------------------------------------------------------------
Init ==
    /\ run \in Runs
    /\ phase = "flags"
    /\ tlsConfig = {}
    /\ owner \in [Slots -> Nodes]
    /\ changes = 0
    /\ pools = 0
    /\ visit = [n \in Nodes |-> "idle"]
    /\ clusterSlicesMu = "free"
    /\ foundClients = <<>>
    /\ foundAddresses = <<>>
    /\ nodeClients = <<>>
    /\ nodesAddresses = <<>>
    /\ nodeCount = 0
    /\ poolSize = run.pool
    /\ placed = <<>>

-----------------------------------------------------------------------------
(* The flags.                                                              *)

\* buildTLSConfig fails on one half of a key pair, and may fail on any file.
TlsFilesFail(readable) ==
    /\ "tls" \in run.tls
    /\ \/ ("tls_cert" \in run.tls) # ("tls_key" \in run.tls)
       \/ ~readable /\ run.tls \cap {"tls_ca", "tls_cert"} # {}

\* MUTANT: TLS options without -tls are ignored.
UnprotectedNever == FALSE

\* TLS options without -tls: main refuses to fall back to plaintext.
Unprotected == "tls" \notin run.tls /\ run.tls # {}

CheckFlags(readable) ==
    /\ phase = "flags"
    /\ IF run.limits = {"messages", "test-time"} \/ TlsFilesFail(readable)
          \/ Unprotected
          THEN phase' = "fatal" /\ UNCHANGED tlsConfig
          ELSE /\ phase' = "connect"
               /\ tlsConfig' = IF "tls" \in run.tls THEN run.tls ELSE {}
    /\ UNCHANGED <<run, cluster, pools, visit, clusterSlicesMu, found, nodes,
                   poolSize, placed>>

-----------------------------------------------------------------------------
(* The nodes.                                                              *)

\* Connecting with a pool of that size, which go-redis does not check: it may
\* panic on a negative one.
Dialled(next, size) == {next} \cup (IF size < 0 THEN {"panicked"} ELSE {})

\* A ping, the slots of the cluster or the master of a key: log.Fatal if it fails.
CommandFails ==
    /\ phase \in {"connect", "gather"}
    /\ phase' = "fatal"
    /\ UNCHANGED <<run, tlsConfig, cluster, pools, visit, clusterSlicesMu,
                   found, nodes, poolSize, placed>>

ConnectStandalone ==
    /\ phase = "connect"
    /\ ~run.distribute
    /\ nodeClients' = <<[pool |-> 0, node |-> Seed]>>
    /\ nodesAddresses' = <<Seed>>
    /\ nodeCount' = 1
    /\ phase' \in Dialled("size", run.pool)
    /\ UNCHANGED <<run, tlsConfig, cluster, pools, visit, clusterSlicesMu,
                   found, poolSize, placed>>

\* NewClusterClient, ReloadState and the ping.
ConnectCluster ==
    /\ phase = "connect"
    /\ run.distribute
    /\ pools' = pools + 1
    /\ phase' \in Dialled("gather", run.pool)
    /\ UNCHANGED <<run, tlsConfig, cluster, visit, clusterSlicesMu, found,
                   nodes, poolSize, placed>>

\* MUTANT: the slices of the first gathering are appended to.
FreshKept == nodeClients

Fresh == <<>>

\* updateSecondarySlicesCluster up to ForEachMaster, whose error is ignored: it
\* has then called nobody.
ForEachMaster(ok) ==
    /\ phase = "gather"
    /\ foundClients' = Fresh
    /\ foundAddresses' = <<>>
    /\ visit' = [n \in Nodes |-> IF ok /\ n \in Masters THEN "lock" ELSE "idle"]
    /\ phase' = "visiting"
    /\ UNCHANGED <<run, tlsConfig, cluster, pools, clusterSlicesMu, nodes,
                   poolSize, placed>>

\* MUTANT: the lock is not taken.
MayLockAlways == TRUE

MayLock == clusterSlicesMu = "free"

AppendClient(n) ==
    /\ phase = "visiting"
    /\ visit[n] = "lock"
    /\ MayLock
    /\ clusterSlicesMu' = "held"
    /\ foundClients' = Append(foundClients, [pool |-> pools, node |-> n])
    /\ visit' = [visit EXCEPT ![n] = "append"]
    /\ UNCHANGED <<run, phase, tlsConfig, cluster, pools, foundAddresses, nodes,
                   poolSize, placed>>

\* The address is cut out of "Redis<host:port db:0>" at its colons: an IPv6 host
\* has more of them, and one like [::1] leaves less than is cut off.
Cut(n) == IF run.addresses[n] = "plain" THEN n ELSE Garbled

\* The slice expression of line 658 panics with the lock held, or the address
\* joins its client and the lock is released.
AppendAddress(n) ==
    /\ phase = "visiting"
    /\ visit[n] = "append"
    /\ IF run.addresses[n] = "short"
          THEN /\ phase' = "panicked"
               /\ UNCHANGED <<foundAddresses, clusterSlicesMu, visit>>
          ELSE /\ foundAddresses' = Append(foundAddresses, Cut(n))
               /\ clusterSlicesMu' = "free"
               /\ visit' = [visit EXCEPT ![n] = "idle"]
               /\ UNCHANGED phase
    /\ UNCHANGED <<run, tlsConfig, cluster, pools, foundClients, nodes, poolSize,
                   placed>>

\* ForEachMaster has waited for all its goroutines; the first gathering goes on to
\* the pool size, the second to the clients.
GatherEnds ==
    /\ phase = "visiting"
    /\ \A n \in Nodes : visit[n] = "idle"
    /\ nodeClients' = foundClients
    /\ nodesAddresses' = foundAddresses
    /\ nodeCount' = Len(foundAddresses)
    /\ phase' = IF pools = 1 THEN "size" ELSE "create"
    /\ UNCHANGED <<run, tlsConfig, cluster, pools, visit, clusterSlicesMu,
                   found, poolSize, placed>>

Subscriptions == (run.ids[2] - run.ids[1] + 1) * run.perChannel

\* Go's integer division, for a positive n.
Quot(a, n) == IF a < 0 THEN -((-a) \div n) ELSE a \div n

\* subscriptions_per_node divides by nodeCount.  A pool size of 0 is computed, and
\* in cluster mode the nodes are gathered again with a client of that size.
SizePool ==
    /\ phase = "size"
    /\ nodeCount # 0
    /\ IF run.pool = 0
          THEN /\ poolSize' = Quot(Subscriptions, nodeCount)
               /\ IF run.distribute
                     THEN /\ pools' = pools + 1
                          /\ phase' \in Dialled("gather", poolSize') \cup {"fatal"}
                     ELSE phase' = "create" /\ UNCHANGED pools
          ELSE phase' = "create" /\ UNCHANGED <<poolSize, pools>>
    /\ UNCHANGED <<run, tlsConfig, cluster, visit, clusterSlicesMu, found,
                   nodes, placed>>

DivideByZero ==
    /\ phase = "size"
    /\ nodeCount = 0
    /\ phase' = "panicked"
    /\ UNCHANGED <<run, tlsConfig, cluster, pools, visit, clusterSlicesMu,
                   found, nodes, poolSize, placed>>

-----------------------------------------------------------------------------
(* The clients.                                                            *)

\* MUTANT: equal bounds are taken for inverted ones.
InvertedOrEqual(bounds) == bounds[2] <= bounds[1]

\* What rand.Intn(max-min)+min, or max if they are equal, may yield; Intn panics
\* when the bounds are inverted.
Inverted(bounds) == bounds[2] < bounds[1]
Draw(bounds) ==
    IF bounds[1] = bounds[2] THEN {bounds[2]} ELSE bounds[1] .. bounds[2] - 1

\* Another turn of the client loop.  A subscriber loop is for "dense" only.
MoreClients ==
    /\ Len(placed) < run.clients
    /\ Publishing \/ (Subscribing /\ run.placement = "dense")

\* MUTANT: the last node is left out.
NodePosShort(id) == IF nodeCount > 1 THEN id % (nodeCount - 1) ELSE 0

NodePos(id) == id % nodeCount           \* client_id % nodeCount

\* The client of the next id, whose list starts with channel ch.
ClientFor(ch) ==
    IF Sharded THEN [pool |-> pools, node |-> owner[ch]]
               ELSE nodeClients[NodePos(Len(placed) + 1) + 1]

\* A turn draws the number of channels and an id for each of them.
DrawsChannels(n) ==
    /\ ~Inverted(run.channels)
    /\ n \in Draw(run.channels)
    /\ n > 0 => ~Inverted(run.ids)

\* channels[0] exists, or there is a node to take in turn.
HasNode(n) == IF Sharded THEN n > 0 ELSE nodeCount # 0

CreateClient(n, ch) ==
    /\ phase = "create"
    /\ MoreClients
    /\ DrawsChannels(n)
    /\ HasNode(n)
    /\ Subscribing => ~Inverted(run.reconnect)
    /\ placed' = Append(placed, [client |-> ClientFor(ch), first |-> ch])
    /\ UNCHANGED <<run, phase, tlsConfig, cluster, pools, visit,
                   clusterSlicesMu, found, nodes, poolSize>>

\* The ping or MasterForKey fails, which comes after the draw of the channels and
\* before the draw of the reconnect interval.
ClientFails ==
    /\ phase = "create"
    /\ MoreClients
    /\ \E n \in Draw(run.channels) : DrawsChannels(n) /\ HasNode(n)
    /\ phase' = "fatal"
    /\ UNCHANGED <<run, tlsConfig, cluster, pools, visit, clusterSlicesMu,
                   found, nodes, poolSize, placed>>

\* The ways a turn of the loop panics, in their order: a draw between inverted
\* bounds (460, 463; 507, 510), channels[0] of an empty list (474, 521) or a
\* remainder by no nodes (480, 527), the draw of the reconnect interval (543).
CreatePanics ==
    /\ phase = "create"
    /\ MoreClients
    /\ \/ Inverted(run.channels)
       \/ \E n \in Draw(run.channels) :
             \/ ~DrawsChannels(n)
             \/ ~HasNode(n)
             \/ Subscribing /\ Inverted(run.reconnect)
    /\ phase' = "panicked"
    /\ UNCHANGED <<run, tlsConfig, cluster, pools, visit, clusterSlicesMu,
                   found, nodes, poolSize, placed>>

\* The loop is over and main goes on to updateCLI, unless time.NewTicker panics
\* (568); an unknown mode is fatal.
StartBenchmark ==
    /\ phase = "create"
    /\ ~MoreClients
    /\ phase' = CASE ~(Publishing \/ Subscribing) -> "fatal"
                  [] run.tick <= 0 -> "panicked"
                  [] OTHER -> "started"
    /\ UNCHANGED <<run, tlsConfig, cluster, pools, visit, clusterSlicesMu,
                   found, nodes, poolSize, placed>>

-----------------------------------------------------------------------------
(* The cluster.                                                            *)

SlotMoves ==
    /\ phase \notin Ended
    /\ run.distribute
    /\ changes < MaxChanges
    /\ changes' = changes + 1
    /\ \E c \in Slots, n \in Nodes : owner' = [owner EXCEPT ![c] = n]
    /\ UNCHANGED <<run, phase, tlsConfig, pools, visit, clusterSlicesMu, found,
                   nodes, poolSize, placed>>

-----------------------------------------------------------------------------
Gather ==
    \/ \E ok \in BOOLEAN : ForEachMaster(ok)
    \/ \E n \in Nodes : AppendClient(n) \/ AppendAddress(n)
    \/ GatherEnds

Setup ==
    \/ \E readable \in BOOLEAN : CheckFlags(readable)
    \/ CommandFails
    \/ ConnectStandalone
    \/ ConnectCluster
    \/ Gather
    \/ SizePool
    \/ DivideByZero
    \/ \E n \in Draw(run.channels), ch \in Slots : CreateClient(n, ch)
    \/ ClientFails
    \/ CreatePanics
    \/ StartBenchmark

Next == Setup \/ SlotMoves

Spec == Init /\ [][Next]_vars

-----------------------------------------------------------------------------
(* Properties.                                                             *)

\* The type invariant.  The slices never hold more than the masters there may be.
TypeOK ==
    /\ run \in Runs
    /\ phase \in {"flags", "connect", "gather", "visiting", "size", "create"}
                    \cup Ended
    /\ tlsConfig \subseteq TlsFlags
    /\ owner \in [Slots -> Nodes]
    /\ changes \in Nat
    /\ pools \in 0 .. 2
    /\ visit \in [Nodes -> {"idle", "lock", "append"}]
    /\ clusterSlicesMu \in {"free", "held"}
    /\ foundClients \in Seq(Clients)
    /\ Len(foundClients) <= Cardinality(Nodes)
    /\ foundAddresses \in Seq(Nodes \cup {Garbled})
    /\ nodeClients \in Seq(Clients)
    /\ nodesAddresses \in Seq(Nodes \cup {Garbled})
    /\ nodeCount \in 0 .. Cardinality(Nodes)
    /\ poolSize \in Int
    /\ placed \in Seq([client : Clients, first : Slots])

\* The address that was recorded for a client.
AddressOf(c) == IF c.pool = 0 THEN c.node ELSE Cut(c.node)

\* The goroutines of ForEachMaster append a client and its address as one (lines
\* 653-663): afterwards the two slices have nodeCount entries each, entry by entry
\* a client and its own address, every node once and all of the cluster client in
\* use.  Lines 404-406 and 528-529 index both slices with one position.
NodesAligned ==
    phase \in {"size", "create", "started"} =>
        /\ Len(nodeClients) = nodeCount
        /\ Len(nodesAddresses) = nodeCount
        /\ IsInjective(nodeClients)
        /\ \A i \in 1 .. nodeCount :
              /\ nodeClients[i].pool = pools
              /\ nodesAddresses[i] = AddressOf(nodeClients[i])

Load(c) == Cardinality({k \in DOMAIN placed : placed[k].client = c})

\* What the help of --oss-cluster-api-distribute-subscribers promises (267): "read
\* cluster slots and distribute subscribers among them".  Clients taken in turn
\* sit on nodes that were gathered and load any two of these alike but for one,
\* and nobody uses a client of the cluster client that was replaced when the pool
\* size was computed (389, 473-485, 520-535), although masters may change between
\* the two gatherings.  That the help of --subscribers-placement-per-channel says
\* otherwise of "dense", its default, is the subject of DenseOnOneShard.
DistributedEvenly ==
    /\ \A k \in DOMAIN placed : placed[k].client.pool = pools
    /\ ~Sharded =>
          /\ \A k \in DOMAIN placed : placed[k].client \in Range(nodeClients)
          /\ \A c, d \in Range(nodeClients) : Load(c) <= Load(d) + 1

\* Whatever TLS options were given are in effect on every connection, or the run
\* was refused: no mix of them falls back to plaintext or to one half of a key
\* pair (lines 314-322 and tls_config.go).
TlsKept ==
    phase \notin {"flags", "fatal"} =>
        /\ tlsConfig = run.tls
        /\ ("tls_cert" \in tlsConfig) = ("tls_key" \in tlsConfig)

\* A panic has its reason in the flags or in the cluster: a tick that is not
\* positive, inverted bounds, no channel to shard by, a negative pool, a cluster
\* whose last gathering visited no master (375, 480, 527) or an address too short
\* to be cut (658).  No other run panics, whatever it met on its way.
PanicsExplained ==
    phase = "panicked" =>
        \/ run.tick <= 0
        \/ run.channels[2] < run.channels[1]
        \/ run.ids[2] < run.ids[1]
        \/ Subscribing /\ run.reconnect[2] < run.reconnect[1]
        \/ Sharded /\ run.channels[1] <= 0
        \/ run.pool < 0
        \/ /\ run.distribute
           /\ \/ run.pool = 0 /\ Subscriptions < 0
              \/ foundClients = <<>>
              \/ \E n \in Nodes : run.addresses[n] = "short"

\* What README.md:237 says of --subscribers-placement-per-channel sparse: "This
\* will distribute subscribers across cluster nodes in a round-robin manner".
SparseDistributes ==
    phase = "started" /\ Subscribing /\ run.placement = "sparse" =>
        Len(placed) = run.clients

\* What the help of --subscribers-placement-per-channel says (251, README.md:138):
\* "dense - Place all subscribers to channel in a specific shard", so subscribers
\* to one channel share a client.
DenseOnOneShard ==
    phase = "started" /\ Subscribing /\ run.placement = "dense" =>
        \A j, k \in DOMAIN placed :
            placed[j].first = placed[k].first =>
                placed[j].client = placed[k].client
-----------------------------------------------------------------------------
(* The inductive invariant behind these properties, by concern.            *)

\* How far the set-up got decides how many cluster clients there are.
PoolInv ==
    /\ phase \in {"flags", "connect"} => pools = 0
    /\ phase \in {"gather", "visiting"} => run.distribute /\ pools # 0
    /\ phase = "size" => pools = IF run.distribute THEN 1 ELSE 0

\* Whoever is between its two appends holds the lock.
LockInv ==
    /\ phase \notin {"visiting", "panicked"} => \A n \in Nodes : visit[n] = "idle"
    /\ clusterSlicesMu = "held" <=> \E n \in Nodes : visit[n] = "append"
    /\ \A m, n \in Nodes : visit[m] = "append" /\ visit[n] = "append" => m = n

\* The slices agree up to the client whose goroutine holds the lock, and nobody is
\* in them whose goroutine has not been there.
GatherInv ==
    phase = "visiting" =>
        /\ IsInjective(foundClients)
        /\ \A i \in 1 .. Len(foundClients) :
              /\ foundClients[i].pool = pools
              /\ visit[foundClients[i].node] # "lock"
        /\ \A i \in 1 .. Len(foundAddresses) :
              foundAddresses[i] = Cut(foundClients[i].node)
        /\ IF clusterSlicesMu = "free"
              THEN Len(foundClients) = Len(foundAddresses)
              ELSE /\ Len(foundClients) = Len(foundAddresses) + 1
                   /\ visit[foundClients[Len(foundClients)].node] = "append"

\* Whoever was placed belongs to the cluster client in use and, taken in turn, has
\* the client of its turn among nodes that are not gathered again.
PlaceInv ==
    /\ phase \notin {"create"} \cup Ended => placed = <<>>
    /\ \A k \in DOMAIN placed : placed[k].client.pool = pools
    /\ ~Sharded /\ placed # <<>> =>
          /\ nodeCount # 0
          /\ Len(nodeClients) = nodeCount
          /\ IsInjective(nodeClients)
          /\ \A k \in DOMAIN placed :
                placed[k].client = nodeClients[NodePos(k) + 1]

\* What main divides by is what the last gathering found.
PanicInv ==
    /\ PanicsExplained
    /\ phase \in {"size", "create"} =>
          IF run.distribute THEN nodeClients = foundClients ELSE nodeCount = 1

IInv ==
    /\ TypeOK
    /\ PoolInv
    /\ LockInv
    /\ GatherInv
    /\ NodesAligned
    /\ TlsKept
    /\ PlaceInv
    /\ PanicInv
=============================================================================
