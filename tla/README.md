# A specification of pubsub-sub-bench

TLA+ modules about the three clients of this repository: the Go program
(`subscriber.go`) and the two Node.js programs (`js/ioredis`, `js/node-redis`).
They publish to, or subscribe to, Redis channels for a while and report how many
messages went through and how long they took.

The program has no protocol of its own and stores nothing.  What can go wrong is
in its concurrency: goroutines and callbacks that share counters without locks,
a bounded channel between producers and a printer, reconnect timers that
interrupt receivers, contexts and signals, and a report that must agree with
what happened.

## 1. Inventory

### Go program

| part | lines of `subscriber.go` | state | operations | interacts with |
|---|---|---|---|---|
| globals | 40-44 | `totalMessages`, `totalSubscribedChannels`, `totalPublishers`, `totalConnects` | atomic adds; plain reads | every goroutine |
| `publisherRoutine` | 62-130 | position in its round | round over its channels, reserve, sleep, publish, count; the context it looks at is never done | shared `rate.Limiter`, `totalMessages` |
| `subscriberRoutine` | 132-239 | `pubsub`, reconnect ticker | `subscribe()` (first call, reconnect), receive, send RTT, count, exit | Redis connection, `rttLatencyChannel`, counters |
| `updateCLI` | 668-786 | `start`, `prev...`, rate samples, RTT lists | select: RTT, tick, interrupt; return | reads `totalMessages`, drains `rttLatencyChannel` |
| `main`, set-up | 241-569 | flags, TLS configuration, node slices, pool size, clients | check flags, connect, gather the nodes, size the pool, place the clients | go-redis, `updateSecondarySlicesCluster` |
| `main`, run | 408-636 | context, signal channels `cS` and `c`, wait group | start the goroutines, `updateCLI`, report, return | all of the above |
| `updateSecondarySlicesCluster` | 638-667 | node slices under a mutex | one goroutine per master appends a client and an address | `main`, before any other goroutine is started |
| TLS | `tls_config.go` | none | refuse or build a configuration | `main` |
| build info | `bin_info.go` | none | two accessors | `main` |

### Node.js programs

| part | where | state | operations |
|---|---|---|---|
| `runBenchmark` | `lib/redisManager.js` | the `...Ref` objects, the list of promises, clients by slot | make clients, start routines, await `updateCLI`, await all routines, write results, close, exit |
| `updateCLI` | `lib/metrics.js` (the same file in both) | `startTime`, `prev...`, `resolved` | interval callback, SIGINT handler |
| publisher | `lib/publisher.js` | its connection | rounds of awaited publishes while `isRunning` |
| subscriber, ioredis | `lib/subscriber.js` | `pubsub`, `reconnectTimer` | `subscribe()` on a timer, `handleMessage`, `shutdown()` with a forced timeout |
| subscriber, node-redis | `lib/subscriber.js` | none after it returned | connect, subscribe, `handleMessage` |

### What is hard

- The Go loop loads the shared counter up to eight times per tick while workers
  add to it.
- Three select statements with different fairness, one of them with a default
  case that blocks for as long as the server likes.
- The round-trip channel is bounded, and its reader also prints and stops.
- A reconnect unsubscribes, closes, dials and subscribes, adjusting counters in
  between, and it can fail at each step.
- Two signal channels, one of them connected to a context that is overwritten.
- `setInterval` with an async callback: activations of `subscribe()` overlap and
  share a variable that each reads again after its await.
- Awaited shutdowns with a forced timeout, and awaits without any.
- Flags and addresses that nobody checks before they reach `rand.Intn`, `NewTicker` or a
  slice expression.
- The nodes of a cluster are gathered by one goroutine per master, twice, with two
  cluster clients, while slots may move; everything placed later trusts the result.

PROJECT.json lists each hazard at its line, with the properties aimed at it.

## 2. Modules

    Meter                    what every updateCLI promises (abstract)
      ^            ^
    UpdateCLI    JsBench     detailed; both refine Meter (MeterSpec)
      ^
    PubSubBench              INSTANCE UpdateCLI + INSTANCE SubscriberRoutine
      v
    SubscriberRoutine        Go subscribers
    PublisherRoutine         Go publishers and their limiter
    BenchSetup               Go main up to the start of the routines
    IoSubscriber             the reconnecting subscriber of the ioredis client

    UpdateCLIProofs, SubscriberProofs, PublisherProofs, BenchSetupProofs,
    PubSubBenchProofs, JsBenchProofs, IoSubscriberProofs
                             theorems about the modules they are named for
    SumTheorems              sums of finite functions, which the proofs share
    MC...                    instances for TLC

**Meter.** Messages are counted at any time; samples account for at most what was
counted, and never for a message twice; one report lies between the two.  It does
not promise that every message reaches a sample: the Go loop can lose some (when
messages arrive between the load of line 720 and the one of line 731), the
Node.js loop cannot, because its tick is one callback.

**UpdateCLI** (lines 668-786).  One action per load of the counter: `BeginTick`
(720), `ResetStart` (724), `AppendRate` (728), `SavePrev` (731), `CheckTestTime`
(735-748), `PrintAndCheckLimit` (750-779), `Return`.  `ReceiveRtt` and `Interrupted`
are the other select cases.  The loads are plain reads of a variable others write
atomically; a build may merge two loads, which is the behaviour in which nobody
counts in between.  Loads only shown in the metrics line have no effect and are left
out.  The environment (`CountMessage`, `SendRtt`, `Elapse`, `Interrupt`) is what
PubSubBench replaces by the real one.  Time is relative: `sinceStart` and
`sinceFirst` count ticks and saturate at `AgeCap`.

**SubscriberRoutine** (132-239).  `at[s]` is the place in the code, `conn[s]` the TCP
connection (not dialled, up, lost), `wanted[s]` the channel set go-redis keeps for
the `PubSub` and restores when it dials, `inbox[s]` what arrived and was not read.
`InitialSubscribe`, `TakeTick`, `Unsubscribe`, `CloseOld`, `Resubscribe` are
`subscribe()`; `BeginReceive`, `Receive`, `Redial`, `ReceiveCanceled`, `ReceiveFails`
the default case; `SendRtt`, `Count`, `Exit` the rest.  go-redis does not report a
failed dial from `Subscribe` and does not watch the context while it reads; both are
modelled from how the code uses it.  A lost connection ends in `panic`, that is in
`crashed`, which stops every action.  `copies`, `counted` and `dropped` are history
variables for the conservation law.

**PubSubBench** (`main`, 408-636).  Clients are created one by one, each started at
once; then channel `c` is registered and `updateCLI` runs in main's goroutine; when it
returns, main prints and returns, which ends the process.  The components' actions
are used as they are, conjoined with UNCHANGED of the others; the two modules' shared
variables (`totalMessages`, `rttQ`) are one.  Payloads and channels are those of the
subscriber module, whose `Cancel` has no counterpart here: what the signal goroutine
cancels (420) is not the context main gives to a subscriber (518).

**PublisherRoutine** (62-130 and 437-496).  The time unit is 1/rps second; the limiter
is a bucket whose tokens may go negative, a reservation is due when the debt it left
is paid.  `Send` needs `delay = 0` but may come later: goroutines oversleep.  `excess`
is the number of messages sent beyond one per unit in the worst window that ends now.
main starts every publisher with `context.Background()` (472), so the first case of its
select (92) is never ready: a publisher has no end of its own, the process ends it.
`PubConstants` takes `--rps` and `--rps-burst` to be at least 0.

**BenchSetup** (292-569, 638-667 and `tls_config.go`).  `phase` is where main is: the
flags (`CheckFlags`), the connections (`ConnectStandalone`, `ConnectCluster`), the
gathering of the nodes (`ForEachMaster`, then `AppendClient` and `AppendAddress` of
each goroutine with the lock held in between, then `GatherEnds`), the pool size
(`SizePool`, which in cluster mode makes a second cluster client and gathers again),
and the client loop (`CreateClient`, `ClientFails`).  What panics in the code leads to
`"panicked"`: a division by no nodes, `rand.Intn` between inverted bounds (460, 463, 507,
510, 543), `channels[0]` of an empty list, `NewTicker` of a tick that is not positive
(568), an address too short to be cut (658, with the lock held); a negative pool size may
panic in go-redis.  A run names how each node's address reads: `"plain"`, `"garbled"` (cut
at the wrong colon, as an IPv6 host is) or `"short"`.  A client is named by its node and by the cluster client
it belongs to, so that one of the replaced cluster client can be told from a current one.
External: go-redis and the cluster.  `ForEachMaster` may fail without calling anybody
(the code ignores its error), every command may fail, and slots move (`SlotMoves`).
Abstracted: channels are their slots; of the lists of channels only the first name and
whether there is one; the numbers drawn are kept to their range.

**JsBench.**  `setup` holds what a run is: library, standalone or cluster, publishing or
subscribing, number of channels, limit and test time.  Each callback is one action
(`Tick`, `Sigint`, `IoHandleMessage`, `NrHandleMessage`), and each await of `runBenchmark` a place in `phase`.
A publisher has at least one channel: with none its loop never awaits and the event loop
is starved (a legal but useless setting of the minimum number of channels).  `HasClient`
says which subscriber finds a client: in cluster mode the ioredis client never fills
`slotClientMap`, so `subscribe()` throws, the error is logged and the routine idles until
the shutdown.  node-redis subscribers settle as soon as they tried to subscribe and go on
receiving; a rejected `connect()` of a publisher has no handler while `updateCLI` is
awaited and ends the process (`crashed`).  The message handlers of the two clients
differ: the ioredis one skips a round-trip time it cannot read or that is negative (72, 85)
and counts the message, the node-redis one adds every time to the accumulator and lets
`recordValue` throw on a negative one before the message is counted (29-33), which nobody
handles either.  (hdr-histogram-js is external: it resizes for large values, so that it
throws on negative ones only; on what is not a number it may do either.)  `conn` and `primary` follow the connections to
the end: `CloseAndExit` closes what the code closes, and `process.exit` the rest.

**IoSubscriber** (`js/ioredis/lib/subscriber.js`).  `call[i]` is the i-th activation of
`subscribe()`, suspended in the await of its unsubscribe or of its subscribe;
`Acknowledged` separates the moment the server has subscribed from the moment the
await resumes and the handler is attached.  `pubsub` is read when the code reads it.

## 3. Runs

`tlc -config <cfg> <module>`, 2 workers.  `subscribers` takes two to three minutes, `bench`
one and a half, the others less than one.

| run | shows | bounds, and why they are enough |
|---|---|---|
| `cli` | `MetricsNeverOvercount`, `LimitReported`, `TestTimeKeptAfterReset`; `StopsWhenDue`, `MeterSpec` | limit 1 or test time 2; 2 messages, so that the counter can jump past the limit within a tick and a message can fall between any two loads; 2 slots; ages up to 3, one more than the test time |
| `subscribers` | `EachCopyOnce`, `SubscribedSettles`, `SingleChannelKept`; `InboxDrains`, `PendingTickTaken` | 2 subscribers, both modes, lists of three names with a repeat and of one, one message copied to both with one slot for round-trip times (the second sender blocks), 2 reconnect ticks so that two reconnects overlap |
| `bench` | `RttMatchesCount`, `ImplementsUpdateCLI`, `ImplementsSubscribers`; `InterruptEnds`, `BlockedSendersProgress` | 1 subscriber, 2 messages, 1 slot: the second send blocks, and the subscriber is between its send and its count while updateCLI ticks, prints or returns; limit 1 or none. The safety half is proved for any number of subscribers and messages |
| `setup` | `NodesAligned`, `DistributedEvenly`, `TlsKept`, `PanicsExplained` | 3 nodes, 3 slots, so clusters of one to three masters; 3 clients, so that every node gets one and a client too many goes round; 1 slot move, before, between or after the two gatherings; all 32 mixes of TLS flags; standalone, cluster, both placements, every mode, a given, a computed and a negative pool size, inverted and empty draws, a tick of 0, addresses of each kind |
| `publishers` | `RateKept`, `DelayBounded`; `RoundsKeepComing` | 3 publishers with 0, 1 or 2 channels, rps 2, burst 1: tokens go two into debt |
| `js` | `TestTimeKept`, `ReportFollowsStop`, `RttAccounted`; `StopCompletes`, `MeterSpec` | 2 routines, 3 messages, limit 2, for each client, role and, where it matters, topology; the ioredis subscriber also with test time 2; the cluster publisher has 2 channels, so that a round can be cut in the middle |
| `io` | `FirstChannelHeard`, `QuietCoverage`, `NeverOverstated`, `OvercountBounded`; `StopResolves` | lists of 3, of 3 with a repeat, of 1; 4 activations (two can overlap twice), 2 failures, 2 messages |
| `cli_race` | `TestTimeKept` is violated | |
| `resubscribe` | `ReconnectRestores` is violated | |
| `bench_cancel` | `InterruptCancels` is violated | |
| `sparse` | `SparseDistributes` is violated | |
| `dense` | `DenseOnOneShard` is violated | 2 nodes, 2 subscribers to one channel |

Every module has one type invariant, `TypeOK`, checked in its run.  Deadlock is checked
where the system never stops (`cli`: ticks go on; `publishers`: time goes on) and
switched off where it does: the process exits or crashes, the set-up or the shutdown is
over, or the messages of the bound are used up.  `setup` has no liveness property: its
actions come to an end by themselves.

Bounds are named in the modules (`MaxMessages`, `MaxPublished`, `MaxTicks`, `MaxCalls`,
`MaxFailures`, `MaxChanges`, `AgeCap`).  `AgeCap` only has to exceed the test time: the code compares
ages with it and with nothing else.  No symmetry is used: most runs check liveness.

### What the properties mean

- `MetricsNeverOvercount` / `MeterSpec`: the loads of one tick are torn by workers, but
  samples account for at most `prevMessageCount`, the unsigned subtraction of line 720
  never wraps, and each round-trip time is in one printed average.
- `StopsWhenDue`: limit, test time and interrupt all end the loop, however the cases of
  the select compete.
- `TestTimeKeptAfterReset` is what the Go loop really keeps of `--test-time`; the help
  text promises `TestTimeKept`, which `cli_race` refutes and which the Node.js clients
  do keep (`js`).
- `EachCopyOnce`: no message is counted twice or lost other than with a connection
  that the program itself closed.
- `PendingTickTaken`: a due reconnect happens unless the connection stays quiet, in which
  case `ReceiveMessage` holds the subscriber (section 5).
- `SubscribedSettles`: between its steps a reconnect may take from the counter only
  what the next step gives back.
- `RttMatchesCount`: the two figures of a Go report differ by at most one per
  subscriber caught between its send and its count.
- `ImplementsUpdateCLI`, `ImplementsSubscribers`: the program is a correct environment
  for its parts, so invariants of the parts hold of the whole.
- `RateKept`: messages in any window are at most one per time unit, plus the burst, plus
  one for each publisher.  The last term is real: a publisher may oversleep.
- `NodesAligned`: clients and addresses name the same nodes in the same order although
  goroutines append to two slices; with the lock dropped, or the slices not emptied for
  the second gathering, they do not.
- `DistributedEvenly`: what the help of the distribute flag (267) promises.  Clients taken
  in turn load any two nodes of the last gathering alike but for one, whatever masters came
  and went before it, and nobody uses a client of the replaced cluster client.  It holds of
  "dense" as the code implements it, which is not what the help text of "dense" says: that
  is `DenseOnOneShard`, refuted by `dense` (section 5).
- `PanicsExplained`: the set-up panics in many places; each panic is owed to flags that
  cannot be used or to a cluster without masters or with unreadable addresses, so a run
  with proper flags on a proper cluster never panics.
- `RoundsKeepComing`: the limiter is shared and goes into debt, and still every publisher
  comes to its next round and next message.
- `RttAccounted`: in a live process every recorded time is in one average.  With node-redis
  a time from the future leaves the accumulator one ahead of histogram and counter; since
  that run crashes, no report shows it.
- `StopCompletes`: where commands have a timeout (ioredis, standalone) a stopped run exits.
  Elsewhere it reports, unless it crashed or some routine is never answered by Redis: no
  routine that only has to notice the stop is waited for in vain.
- `ReportFollowsStop`: the Node.js report comes after the routines were awaited, so it is
  at least the figure that stopped the run, and at most a round per publisher above it.
- `FirstChannelHeard`: the reconnect of the ioredis client never interrupts the first
  channel, unless the list names it twice.
- `OvercountBounded`: old connections stay subscribed and handlers pile up, so the ioredis
  client counts a message several times after a reconnect, never more often than its
  successful subscriptions.

### Fairness

- Goroutines and the event loop run: WF on each routine, on timers and on resumed
  awaits.
- `updateCLI`'s select chooses uniformly among ready cases, so a case that is ready at
  infinitely many selects is taken: SF on `BeginTick`, `Interrupted`, `ReceiveRtt`.
- The update ticker fires (WF on `Elapse` / `TimePasses`).
- An ioredis command ends within `commandTimeout` (`redisManager.js:40`), so WF on each
  activation of `subscribe()` (IoSubscriber), and in JsBench on starting and, in standalone
  mode (`CommandsEnd`), on publishing and quitting.  The queue of a cluster client that is
  not connected has no timeout, and the node-redis client sets none for commands
  (`redisManager.js:43-79`; `redis-timeout` is only printed, 82): no fairness there.  The
  unsubscribe of `shutdown()` is not assumed to end: the forced timeout is what
  `StopResolves` rests on.
- A publish of the Go client comes back, within the read and write timeouts it sets
  (328-330, 339-341): WF on each publisher.
- Nobody has to move slots, to publish, to press Ctrl-C, to lose a connection or to fire a reconnect
  tick.

## 4. Proofs

Eight modules hold theorems: one for each component and SumTheorems.  For every value of
the constants that satisfies the module's assumption (`CLIConstants`, `SubConstants`,
`BenchConstants`, `PubConstants`, `SetupConstants`, `JsConstants`, `IoConstants`) `tlapm`
proves `Spec => []IInv` (`Inductive`) and from it every invariant and every refinement
that a passing run checks:

| module | proved, besides `TypeOK` | for any |
|---|---|---|
| `UpdateCLIProofs` | `MetricsNeverOvercount`, `TestTimeKeptAfterReset`, `LimitReported`, `MeterSpec` | limit, test time, channel capacity |
| `SubscriberProofs` | `EachCopyOnce`, `SubscribedSettles`, `SingleChannelKept` | finite set of subscribers, channels, lists, mode |
| `PubSubBenchProofs` | `RttMatchesCount`, `ImplementsSubscribers`, `ImplementsUpdateCLI`; `ComponentsSafe`: the invariants of both parts hold of the whole program | the same, together |
| `PublisherProofs` | `RateKept`, `DelayBounded` | finite set of publishers, rate, burst |
| `BenchSetupProofs` | `NodesAligned`, `DistributedEvenly`, `TlsKept`, `PanicsExplained` | cluster, command line, number of slot moves |
| `JsBenchProofs` | `TestTimeKept`, `ReportFollowsStop`, `RttAccounted`, `MeterSpec` | finite set of routines, setups, number of messages |
| `IoSubscriberProofs` | `FirstChannelHeard`, `QuietCoverage`, `NeverOverstated`, `OvercountBounded` | lists of channels, number of activations and failures |

`BenchConstants` is the conjunction the two parts need, and CLIConstants and SubConstants
are definitions that their modules assume, so that PubSubBenchProofs can cite the proofs
of the parts through INSTANCE and discharge their assumptions (`SubAssumptions`,
`CLIAssumptions`).

Why the invariants need strengthening.

- updateCLI.  `MetricsNeverOvercount` speaks of the places between ticks; inside a tick the
  pending difference `delta` was computed from an older load, so `SampleInv` says where it
  stands: `prevMessageCount + delta` is at most the counter until the sample is appended.
  `TestTimeKeptAfterReset` needs `TimerInv`: a reset leaves a trace, because the counter it
  saw was positive and the next `SavePrev` stores a positive number, which rules out
  another reset.  `LimitReported` needs `StopInv`: the counter never falls, so the reason
  for stopping survives until the last load.
- Subscribers.  `ReconnectInv` says that only a subscriber with several channels is inside
  a reconnect, which `SingleChannelKept` rests on.  `EachCopyOnce` is inductive together
  with the types; its proof goes action by action through what each does to one
  subscriber's ledger.  `SubscribedSettles` is its own invariant: every action changes the
  counter by what it changes in one subscriber's `Contribution`, and the sum follows
  (`SumExcept`).
- The Go program.  `RttMatchesCount` is about runs in which every message carries a stamp;
  `RttInv` keeps the inequality that holds of every run: a round-trip time, in the channel
  or averaged, belongs to a counted message or to a subscriber between its send and its
  count (`Counting`).  `CountBound` derives from the subscribers' sums that these are no
  more than was published to each, the bound updateCLI has on its messages.  The
  refinements are proved action by action: a step of the whole is a step of the part or
  leaves the part alone; for updateCLI what has to be shown of the subscribers' steps are
  the guards of its environment: room in the channel, and the bound on messages.
- Publishers.  `DebtInv`: the positive delays are exactly `1 .. Debt(tokens)`, each once,
  and belong to sleepers, so the debt never exceeds the number of sleepers; that bounds
  the delays.  `RateInv`: a token is in the bucket, was taken by a sleeper or became a
  message, so `excess + sleepers + tokens` is bounded, and with the debt below the sleepers
  `RateKept` follows.  `RoundInv` keeps a round to its own channels, which the types need.
- Set-up.  `LockInv`: whoever is between its two appends holds the lock, so there is at most
  one.  `GatherInv`: the slices agree up to the client of the holder, no node is named
  twice, and a master still to be visited is not named yet.  `PoolInv` ties the number of
  cluster clients to the phase, which is why what was gathered belongs to the current one.
  `TypeOK` needs these too: that the slices are no longer than there are masters follows
  from the names being distinct.  `PlaceInv` says which client each routine got: the one at
  its position modulo the number of nodes, no two positions naming the same client.
  `DistributedEvenly` compares how many routines two nodes got; `EvenTurns` moves every turn of
  one node but its first to an earlier turn of the other, an injection, so the two counts
  differ by at most one.  `PanicInv` says what main divides by: the length of the last
  gathering, so that a division by no nodes is owed to a gathering without masters.
- Node.js.  `StopInv`: `isRunning` falls with the first reason to stop and the report
  waits for it.  `ClockInv`: once a tick has seen a message `startTime` is not before it.
  `RoundInv`: after the stop a publisher only works off its round, so what was counted and
  what is left of all rounds (a sum again) stays under the bound of `ReportFollowsStop`.
  `RttInv` says that a node-redis subscriber counts a message exactly if it records its time,
  a throwing handler doing neither.
- ioredis subscriber.  `StartInv`: the first activation ends before the timer exists, so it
  is alone.  `OwnerInv`: each connection is opened and subscribed by one activation, and
  `pubsub` is the youngest, which is why what an activation reads after its await is known
  although others ran in between.  `SubsInv`: nothing is subscribed before its
  acknowledgement.  `HandlerInv`: one handler per successful subscription, wherever it was
  attached; `FirstInv`, `YoungestInv` and `BackedInv` then carry `FirstChannelHeard`,
  `QuietCoverage` and `NeverOverstated` through the awaits.

SumTheorems.  The models sum with a fold over a function, and induction over data is out
of the provers' reach.  `SumIsCount` therefore shows the sum of a function to be the
cardinality of a set, one element per unit, from which follow what a change at
one argument does (`SumExcept`), counting (`SumCount`), monotonicity and bounds.

Only model-checked: liveness (`StopsWhenDue`, `InboxDrains`, `PendingTickTaken`,
`InterruptEnds`, `BlockedSendersProgress`, `StopCompletes`, `StopResolves`,
`RoundsKeepComing`), because it rests on fairness and so on ENABLED, which the provers do not
handle.

## 5. Disagreements between the code and what it says

Five are shown by a run (section 3, and `findings` in PROJECT.json):

- `cli_race`: the test time may run from the start of the loop (724, 731), against line 263.
- `resubscribe`: a reconnect loses channels (157-167), against the comment of line 201.
- `bench_cancel`: the comment of line 408 says that Ctrl+C cancels the context; `ctx` is
  overwritten before every subscriber (518) and, just so, before every publisher (472), so
  the cancel of line 420 reaches no goroutine in either mode.
- `sparse`: the sparse placement starts no subscriber (500), against README.md:237.
- `dense`: the dense placement, the default, deals subscribers out over the nodes in turn
  (527), where the help text (251, README.md:138) says that all subscribers to a channel are
  placed in one shard.

Others met while reading, for which no run is kept:

- A panic of `rand.Intn` (460, 463, 507, 510, 543), `NewTicker` (568) or an address (657-658)
  is all the answer to flags out of range and to IPv6 nodes: nothing is checked before.
- A publish that failed is logged and counted by the Go client (123-126), and not counted by
  the Node.js clients (`publisher.js:43` of ioredis, 37 of node-redis).
- A stamp from the future is skipped by the ioredis subscriber ("Skipping negative RTT",
  `subscriber.js:85`) and ends the node-redis process (`subscriber.js:30`).
- node-redis prints its `redis-timeout` (`redisManager.js:82`) and gives it to nothing.
- A rejected `connect()` of a node-redis publisher (`publisher.js:12`) ends the process.

- The comment of line 209 says that connection errors are handled, "e.g., reconnect
  immediately"; line 213 panics, and one subscriber's lost connection ends the process.
- A reconnect interval (258-259) takes effect only between two messages: the default case
  blocks in `ReceiveMessage`, so on a quiet channel it never does.
- The comments of lines 425 and 632-635 speak of waiting for the goroutines; `updateCLI`
  always returns `closed = true`, so main returns at 629 without waiting.
- The default burst is `rps` (439), the help text says the amount of clients (246).
- The publisher stamps milliseconds (105), the subscriber subtracts them from
  microseconds (219) and prints the difference divided by 1000.
- `rand.Intn(max-min)+min` never draws the maximum (460, 507, 543), the Node.js clients
  do.
- The pool size computed at line 390 reaches the second cluster client only; in standalone
  mode the client was made before (356-366) and keeps the default.
- The error of `ForEachMaster` is dropped (664): when it visited no master, line 375
  divides by zero.
- A list of channels drawn in `ssubscribe` mode may span slots of several masters, while the
  connection goes to the master of the first (520-522).
- `js/ioredis/README.md:4` says the client supports cluster mode; `slotClientMap` is never
  filled there (`redisManager.js:58-91`, 172), so no subscriber subscribes and the error is
  only logged (`subscriber.js:56`).
- The loop of `js/node-redis/lib/redisManager.js:243` that closes the connections is bounded
  by `argv.client`, an option that does not exist: it closes none, and line 246 says that it
  did.
- `js/ioredis/lib/subscriber.js:35` drops its reference to the connection before it; the
  shutdown (134) closes the last one only.
- In the ioredis client "Active Subscriptions" (`metrics.js:63`) falls short of the server's
  figure after overlapping reconnects; `NeverOverstated` is the half that holds.

## 6. Not modelled

- The Node.js command-line options (`config.js`, `bin/`), the build information, the
  scripts, containers and the build: declarations and sequential input and output.
- Of the Go flags those that only name things (prefixes, client name, output file); of the
  TLS files their content, which is read or refused.
- Of the report the quantiles, the rates per second and the JSON file: pure output.
- Connect rates (`totalConnects` of publishers, line 495), which are only displayed.
- How the Node.js clients draw channels and size pools: inputs of JsBench.

## 7. Plan

Done: Meter, UpdateCLI, SubscriberRoutine, PubSubBench, PublisherRoutine, BenchSetup,
JsBench, IoSubscriber, and the proofs of every invariant and refinement their runs check.

Next:

1. The safety half of the liveness arguments as theorems: what can no longer be undone
   after a stop was decided (`StopCompletes`, `InterruptEnds`), so that TLC's runs are left
   with the fairness.
2. Lemmas about `Meter` alone: what any implementation's report is worth.
