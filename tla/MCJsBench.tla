------------------------------ MODULE MCJsBench -----------------------------
(* Instances of JsBench for TLC.                                            *)
EXTENDS JsBench, TLC

CONSTANTS r1, r2

Two == {r1, r2}

Run(client, where, mode, channels, limit, time) ==
    [library |-> client, cluster |-> where = "cluster",
     publishing |-> mode = "publish", channels |-> channels,
     messages |-> limit, seconds |-> time]

EverySetup ==
    {Run("ioredis", "standalone", "subscribe", 1, 2, 2),
     Run("ioredis", "standalone", "publish", 1, 2, 0),
     Run("ioredis", "cluster", "subscribe", 1, 2, 0),
     Run("ioredis", "cluster", "publish", 2, 2, 0),
     Run("node-redis", "cluster", "subscribe", 1, 2, 0),
     Run("node-redis", "standalone", "publish", 1, 2, 0)}
=============================================================================
