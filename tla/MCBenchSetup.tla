---------------------------- MODULE MCBenchSetup ----------------------------
(* Instances of BenchSetup for TLC.                                         *)
EXTENDS BenchSetup, TLC

CONSTANTS n1, n2, n3

Three == {n1, n2, n3}
Pair == {n1, n2}

\* The default flags of three clients, of one channel each.
Default ==
    [limits |-> {}, tls |-> {}, distribute |-> FALSE, pool |-> 0,
     perChannel |-> 1, tick |-> 1, mode |-> "subscribe", placement |-> "dense",
     clients |-> 3, ids |-> <<1, 4>>, channels |-> <<1, 1>>,
     reconnect |-> <<0, 0>>, addresses |-> [n \in Nodes |-> "plain"]]

Cluster == [Default EXCEPT !.distribute = TRUE]

EveryTls == {[Default EXCEPT !.tls = t] : t \in SUBSET TlsFlags}

Standalone ==
    {[Default EXCEPT !.limits = {"messages", "test-time"}],
     [Default EXCEPT !.mode = "publish", !.channels = <<0, 2>>],
     [Default EXCEPT !.mode = "other"],
     [Default EXCEPT !.placement = "sparse"]}

Clustered ==
    {Cluster,
     [Cluster EXCEPT !.mode = "ssubscribe", !.channels = <<1, 3>>],
     [Cluster EXCEPT !.mode = "spublish", !.channels = <<0, 1>>, !.pool = 5],
     [Cluster EXCEPT !.addresses[n2] = "garbled", !.addresses[n3] = "short"]}

\* Flags that nobody checks.
Unchecked ==
    {[Default EXCEPT !.tick = 0],
     [Default EXCEPT !.pool = -1],
     [Default EXCEPT !.channels = <<0, 2>>, !.ids = <<4, 1>>],
     [Cluster EXCEPT !.reconnect = <<10, 0>>],
     [Cluster EXCEPT !.mode = "publish", !.channels = <<2, 1>>],
     [Cluster EXCEPT !.channels = <<0, 0>>, !.ids = <<4, 1>>]}

EveryRun == EveryTls \cup Standalone \cup Clustered \cup Unchecked
Sparse == {[Cluster EXCEPT !.placement = "sparse"]}
OneChannel == {[Cluster EXCEPT !.clients = 2, !.ids = <<1, 1>>]}
=============================================================================
