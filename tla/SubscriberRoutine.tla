------------------------- MODULE SubscriberRoutine -------------------------
(***************************************************************************)
(* subscriberRoutine of subscriber.go: one goroutine per subscriber, each  *)
(* with its own pub/sub connection, its reconnect ticker and its list of   *)
(* channels.  All of them add to the global counters and send round-trip   *)
(* times to one bounded channel that updateCLI drains.                     *)
(*                                                                         *)
(* The Redis server and the go-redis connection are external: publishing   *)
(* copies a message to every connection subscribed to its channel at that  *)
(* moment, closing a connection discards what was not read from it, and a  *)
(* blocked read returns only for a message or for a connection error.      *)
(***************************************************************************)
EXTENDS Integers, Sequences, FiniteSets, Functions

CONSTANTS
    Subscribers,    \* the goroutines
    Channels,       \* names of Redis channels
    Lists,          \* channel lists main may draw for a subscriber (502-513)
    Modes,          \* subset of {"subscribe", "ssubscribe"}
    Reconnect,      \* a reconnect interval is set
    MeasureRTT,     \* --measure-rtt-latency
    Payloads,       \* subset of {"stamped", "plain"} that publishers send
    RttCap,         \* capacity of rttLatencyChannel
    MaxPublished,   \* BOUND: messages published in a run
    MaxTicks        \* BOUND: how often reconnect tickers fire in a run

SubConstants ==
    /\ IsFiniteSet(Subscribers)
    /\ Lists \subseteq Seq(Channels)
    /\ Modes \subseteq {"subscribe", "ssubscribe"}
    /\ Reconnect \in BOOLEAN
    /\ MeasureRTT \in BOOLEAN
    /\ Payloads \subseteq {"stamped", "plain"}
    /\ RttCap \in Nat
    /\ MaxPublished \in Nat
    /\ MaxTicks \in Nat

ASSUME SubConstants

VARIABLES
    mode,           \* of the run; it never changes
    channels,       \* each subscriber's list, drawn with replacement by main
    at,             \* where each goroutine is
    conn,           \* its connection: "none" not dialled, "up", "lost"
    wanted,         \* the channel set go-redis keeps (and redials) for it
    tick,           \* a tick waits in reconnectTicker.C
    inbox,          \* messages on its connection that it has not read
    totalMessages, totalSubscribedChannels, totalConnects, rttQ,
    ctxDone,        \* the context the routines were given is cancelled
    crashed,        \* panic(err) ended the process
    published, ticks,           \* counters for the bounds
    copies, counted, dropped    \* HISTORY, per subscriber: messages copied to
                                \* its connection, counted, closed away

ledger == <<copies, counted, dropped>>
counters == <<totalMessages, totalSubscribedChannels, totalConnects>>
vars == <<mode, channels, at, conn, wanted, tick, inbox, totalMessages,
          totalSubscribedChannels, totalConnects, rttQ, ctxDone, crashed,
          published, ticks, copies, counted, dropped>>

Locations == {"start", "select", "unsub", "resub", "receive", "send", "count",
              "exited"}

Sharded == mode = "ssubscribe"

All(s) == Range(channels[s])
Rest(s) == Range(Tail(channels[s]))     \* channels[1:]

\* MUTANT: the length of the whole list.
RestLenAll(s) == Len(channels[s])

RestLen(s) == Len(channels[s]) - 1      \* len(channels[1:])
Held(s) == IF conn[s] = "up" THEN wanted[s] ELSE {}

Goto(s, l) == at' = [at EXCEPT ![s] = l]

-----------------------------------------------------------------------------
Init ==
    /\ mode \in Modes
    /\ channels \in [Subscribers -> Lists]
    /\ at = [s \in Subscribers |-> "start"]
    /\ conn = [s \in Subscribers |-> "none"]
    /\ wanted = [s \in Subscribers |-> {}]
    /\ tick = [s \in Subscribers |-> FALSE]
    /\ inbox = [s \in Subscribers |-> <<>>]
    /\ totalMessages = 0
    /\ totalSubscribedChannels = 0
    /\ totalConnects = 0
    /\ rttQ = 0
    /\ ctxDone = FALSE
    /\ crashed = FALSE
    /\ published = 0
    /\ ticks = 0
    /\ copies = [s \in Subscribers |-> 0]
    /\ counted = [s \in Subscribers |-> 0]
    /\ dropped = [s \in Subscribers |-> 0]

-----------------------------------------------------------------------------
(* The closure subscribe().                                                *)

\* First call: subscribe to the whole list.  A failure to dial is not reported;
\* go-redis dials again at the next read.
InitialSubscribe(s) ==
    /\ ~crashed
    /\ at[s] = "start"
    /\ wanted' = [wanted EXCEPT ![s] = All(s)]
    /\ \E c \in {"up", "none"} : conn' = [conn EXCEPT ![s] = c]
    /\ totalSubscribedChannels' = totalSubscribedChannels + Len(channels[s])
    /\ totalConnects' = totalConnects + 1
    /\ Goto(s, "select")
    /\ UNCHANGED <<mode, channels, tick, inbox, totalMessages, rttQ, ctxDone,
                   crashed, published, ticks, ledger>>

\* MUTANT: the test for a single channel is missing.
ReconnectsAlways(s) == TRUE

Reconnects(s) == Len(channels[s]) > 1   \* nChannels > 1

\* A tick is taken; a subscriber with a single channel skips the reconnect.
TakeTick(s) ==
    /\ ~crashed
    /\ at[s] = "select"
    /\ tick[s]
    /\ tick' = [tick EXCEPT ![s] = FALSE]
    /\ Goto(s, IF Reconnects(s) THEN "unsub" ELSE "select")
    /\ UNCHANGED <<mode, channels, conn, wanted, inbox, counters, rttQ,
                   ctxDone, crashed, published, ticks, ledger>>

\* Unsubscribe reported no error: that is the end of a reconnect in subscribe
\* mode.  A write to a broken connection may go unnoticed; a missing one is
\* dialled first.
Unsubscribe(s) ==
    /\ ~crashed
    /\ at[s] = "unsub"
    /\ ~Sharded
    /\ wanted' = [wanted EXCEPT ![s] = @ \ Rest(s)]
    /\ conn' = [conn EXCEPT ![s] = IF @ = "none" THEN "up" ELSE @]
    /\ totalConnects' = totalConnects + 1
    /\ Goto(s, "select")
    /\ UNCHANGED <<mode, channels, tick, inbox, totalMessages,
                   totalSubscribedChannels, rttQ, ctxDone, crashed, published,
                   ticks, ledger>>

\* The old connection is closed: always in ssubscribe mode, whatever SUnsubscribe
\* said, and after an error of Unsubscribe otherwise.
CloseOld(s) ==
    /\ ~crashed
    /\ at[s] = "unsub"
    /\ Sharded \/ conn[s] # "up"
    /\ conn' = [conn EXCEPT ![s] = "none"]
    /\ wanted' = [wanted EXCEPT ![s] = {}]
    /\ inbox' = [inbox EXCEPT ![s] = <<>>]
    /\ dropped' = [dropped EXCEPT ![s] = @ + Len(inbox[s])]
    /\ totalSubscribedChannels' = totalSubscribedChannels - RestLen(s)
    /\ Goto(s, "resub")
    /\ UNCHANGED <<mode, channels, tick, totalMessages, totalConnects, rttQ,
                   ctxDone, crashed, published, ticks, copies, counted>>

\* (S)Subscribe(channels[1:]) on a new connection.
Resubscribe(s) ==
    /\ ~crashed
    /\ at[s] = "resub"
    /\ wanted' = [wanted EXCEPT ![s] = Rest(s)]
    /\ \E c \in {"up", "none"} : conn' = [conn EXCEPT ![s] = c]
    /\ totalSubscribedChannels' = totalSubscribedChannels + RestLen(s)
    /\ totalConnects' = totalConnects + 1
    /\ Goto(s, "select")
    /\ UNCHANGED <<mode, channels, tick, inbox, totalMessages, rttQ, ctxDone,
                   crashed, published, ticks, ledger>>

-----------------------------------------------------------------------------
(* The select loop.  Its default case runs only when no other is ready.    *)

BeginReceive(s) ==
    /\ ~crashed
    /\ at[s] = "select"
    /\ ~tick[s]
    /\ ~ctxDone
    /\ Goto(s, "receive")
    /\ UNCHANGED <<mode, channels, conn, wanted, tick, inbox, counters, rttQ,
                   ctxDone, crashed, published, ticks, ledger>>

\* MUTANT: a message without a timestamp is skipped instead of counted.
AfterReceiveSkips(s) ==
    IF MeasureRTT
       THEN IF Head(inbox[s]) = "stamped" THEN "send" ELSE "select"
       ELSE "count"

\* A payload without a timestamp is logged and counted all the same.
AfterReceive(s) ==
    IF MeasureRTT /\ Head(inbox[s]) = "stamped" THEN "send" ELSE "count"

\* ReceiveMessage returns a message.
Receive(s) ==
    /\ ~crashed
    /\ at[s] = "receive"
    /\ inbox[s] # <<>>
    /\ inbox' = [inbox EXCEPT ![s] = Tail(@)]
    /\ Goto(s, AfterReceive(s))
    /\ UNCHANGED <<mode, channels, conn, wanted, tick, counters, rttQ, ctxDone,
                   crashed, published, ticks, ledger>>

\* ReceiveMessage dials when it finds no connection.
Redial(s) ==
    /\ ~crashed
    /\ at[s] = "receive"
    /\ conn[s] = "none"
    /\ conn' = [conn EXCEPT ![s] = "up"]
    /\ UNCHANGED <<mode, channels, at, wanted, tick, inbox, counters, rttQ,
                   ctxDone, crashed, published, ticks, ledger>>

\* Only dialling looks at the context; a cancelled dial is tolerated.
ReceiveCanceled(s) ==
    /\ ~crashed
    /\ at[s] = "receive"
    /\ conn[s] = "none"
    /\ ctxDone
    /\ Goto(s, "select")
    /\ UNCHANGED <<mode, channels, conn, wanted, tick, inbox, counters, rttQ,
                   ctxDone, crashed, published, ticks, ledger>>

\* Every other error is a panic, which ends the whole process.
ReceiveFails(s) ==
    /\ ~crashed
    /\ at[s] = "receive"
    /\ conn[s] # "up"
    /\ crashed' = TRUE
    /\ UNCHANGED <<mode, channels, at, conn, wanted, tick, inbox, counters,
                   rttQ, ctxDone, published, ticks, ledger>>

\* MUTANT: the send does not wait for room.
RttRoomAlways == TRUE

\* MUTANT: the last slot of the channel is never used.
RttRoomOneShort == rttQ + 1 < RttCap

RttRoom == rttQ < RttCap

\* rttLatencyChannel <- rtt blocks while the channel is full.
SendRtt(s) ==
    /\ ~crashed
    /\ at[s] = "send"
    /\ RttRoom
    /\ rttQ' = rttQ + 1
    /\ Goto(s, "count")
    /\ UNCHANGED <<mode, channels, conn, wanted, tick, inbox, counters,
                   ctxDone, crashed, published, ticks, ledger>>

\* MUTANT: a message is counted twice.
AddTwo == totalMessages + 2

AddOne == totalMessages + 1             \* atomic.AddUint64(&totalMessages, 1)

Count(s) ==
    /\ ~crashed
    /\ at[s] = "count"
    /\ totalMessages' = AddOne
    /\ counted' = [counted EXCEPT ![s] = @ + 1]
    /\ Goto(s, "select")
    /\ UNCHANGED <<mode, channels, conn, wanted, tick, inbox,
                   totalSubscribedChannels, totalConnects, rttQ, ctxDone,
                   crashed, published, ticks, copies, dropped>>

\* The context is cancelled: unsubscribe, close, return.  The subscription
\* counter is left as it is.
Exit(s) ==
    /\ ~crashed
    /\ at[s] = "select"
    /\ ctxDone
    /\ conn' = [conn EXCEPT ![s] = "none"]
    /\ wanted' = [wanted EXCEPT ![s] = {}]
    /\ inbox' = [inbox EXCEPT ![s] = <<>>]
    /\ dropped' = [dropped EXCEPT ![s] = @ + Len(inbox[s])]
    /\ Goto(s, "exited")
    /\ UNCHANGED <<mode, channels, tick, counters, rttQ, ctxDone, crashed,
                   published, ticks, copies, counted>>

-----------------------------------------------------------------------------
(* The environment.                                                        *)

\* The server copies a message to every subscribed connection.
Publish(ch, p) ==
    /\ ~crashed
    /\ published < MaxPublished
    /\ published' = published + 1
    /\ inbox' = [s \in Subscribers |->
                    IF ch \in Held(s) THEN Append(inbox[s], p) ELSE inbox[s]]
    /\ copies' = [s \in Subscribers |->
                    IF ch \in Held(s) THEN copies[s] + 1 ELSE copies[s]]
    /\ UNCHANGED <<mode, channels, at, conn, wanted, tick, counters, rttQ,
                   ctxDone, crashed, ticks, counted, dropped>>

\* A connection breaks; what already arrived can still be read.
Drop(s) ==
    /\ ~crashed
    /\ conn[s] = "up"
    /\ conn' = [conn EXCEPT ![s] = "lost"]
    /\ UNCHANGED <<mode, channels, at, wanted, tick, inbox, counters, rttQ,
                   ctxDone, crashed, published, ticks, ledger>>

\* The reconnect ticker fires; its channel holds one tick.
TickFires(s) ==
    /\ ~crashed
    /\ Reconnect
    /\ at[s] # "start"
    /\ ticks < MaxTicks
    /\ ticks' = ticks + 1
    /\ tick' = [tick EXCEPT ![s] = TRUE]
    /\ UNCHANGED <<mode, channels, at, conn, wanted, inbox, counters, rttQ,
                   ctxDone, crashed, published, ledger>>

\* The caller cancels the context it gave the routines.  main never does (line
\* 518 hands over context.Background()); the routine is written for any caller.
Cancel ==
    /\ ~crashed
    /\ ~ctxDone
    /\ ctxDone' = TRUE
    /\ UNCHANGED <<mode, channels, at, conn, wanted, tick, inbox, counters,
                   rttQ, crashed, published, ticks, ledger>>

\* updateCLI takes a round-trip time.
DrainRtt ==
    /\ ~crashed
    /\ rttQ > 0
    /\ rttQ' = rttQ - 1
    /\ UNCHANGED <<mode, channels, at, conn, wanted, tick, inbox, counters,
                   ctxDone, crashed, published, ticks, ledger>>

-----------------------------------------------------------------------------
Resubscription(s) == Unsubscribe(s) \/ CloseOld(s) \/ Resubscribe(s)

Reading(s) ==
    \/ BeginReceive(s)
    \/ Receive(s)
    \/ Redial(s)
    \/ ReceiveCanceled(s)
    \/ ReceiveFails(s)

Routine(s) ==
    \/ InitialSubscribe(s)
    \/ TakeTick(s)
    \/ Resubscription(s)
    \/ Reading(s)
    \/ SendRtt(s)
    \/ Count(s)
    \/ Exit(s)

Environment ==
    \/ \E ch \in Channels, p \in Payloads : Publish(ch, p)
    \/ \E s \in Subscribers : Drop(s) \/ TickFires(s)
    \/ Cancel
    \/ DrainRtt

Next == (\E s \in Subscribers : Routine(s)) \/ Environment

Spec == Init /\ [][Next]_vars

\* Every goroutine runs, updateCLI drains the channel.  Nothing obliges anyone
\* to publish, break a connection, fire a tick or cancel.
FairSpec ==
    /\ Spec
    /\ \A s \in Subscribers : WF_vars(Routine(s))
    /\ WF_vars(DrainRtt)

-----------------------------------------------------------------------------
(* Properties.                                                             *)

\* The type invariant.
TypeOK ==
    /\ mode \in Modes
    /\ channels \in [Subscribers -> Lists]
    /\ at \in [Subscribers -> Locations]
    /\ conn \in [Subscribers -> {"none", "up", "lost"}]
    /\ wanted \in [Subscribers -> SUBSET Channels]
    /\ tick \in [Subscribers -> BOOLEAN]
    /\ inbox \in [Subscribers -> Seq(Payloads)]
    /\ totalMessages \in Nat
    /\ totalSubscribedChannels \in Int
    /\ totalConnects \in Nat
    /\ rttQ \in 0 .. RttCap
    /\ ctxDone \in BOOLEAN
    /\ crashed \in BOOLEAN
    /\ published \in Nat
    /\ ticks \in Nat
    /\ copies \in [Subscribers -> Nat]
    /\ counted \in [Subscribers -> Nat]
    /\ dropped \in [Subscribers -> Nat]

\* Messages read but not yet counted: each goroutine has at most one in hand.
InHand(s) == IF at[s] \in {"send", "count"} THEN 1 ELSE 0

\* Every message the server copied to a subscriber's connection is exactly one
\* of: counted, in the subscriber's hand, unread, or discarded with a connection
\* that a reconnect or the shutdown closed (lines 147-183, 188-237).  A payload
\* without a timestamp is no exception.
EachCopyOnce ==
    \A s \in Subscribers :
        copies[s] = counted[s] + InHand(s) + Len(inbox[s]) + dropped[s]

\* What each subscriber contributes to totalSubscribedChannels.
Contribution(s) ==
    CASE at[s] = "start" -> 0
      [] at[s] = "resub" -> 1
      [] OTHER -> Len(channels[s])

\* The subscription counter neither leaks nor goes below zero: in whatever order
\* reconnects of several subscribers and connection errors interleave, each
\* subtraction of line 156 or 163 is paid back by the next addition (158, 165).
SubscribedSettles ==
    totalSubscribedChannels =
        SumFunction([s \in Subscribers |-> Contribution(s)])

\* A subscriber of one channel keeps it, however often its reconnect interval
\* passes (lines 169-170).
SingleChannelKept ==
    \A s \in Subscribers :
        Len(channels[s]) = 1 /\ at[s] \notin {"start", "exited"} =>
            wanted[s] = All(s)

\* No increment of the counter is lost, and there is nothing to count but what
\* was published.
CounterInv ==
    /\ totalMessages = SumFunction(counted)
    /\ published <= MaxPublished
    /\ \A s \in Subscribers : copies[s] <= published
    /\ \A s \in Subscribers : at[s] = "send" => MeasureRTT

\* A goroutine is inside a reconnect only if it has channels to give up; with
\* TypeOK, CounterInv and the three invariants above this is inductive.
ReconnectInv ==
    \A s \in Subscribers : at[s] \in {"unsub", "resub"} => Len(channels[s]) > 1

IInv ==
    /\ TypeOK
    /\ ReconnectInv
    /\ CounterInv
    /\ EachCopyOnce
    /\ SubscribedSettles
    /\ SingleChannelKept

\* While the process lives, every message waiting on a connection or in a
\* subscriber's hand is eventually counted or closed away: a full round-trip
\* channel, a pending reconnect or a lost connection delays the subscriber but
\* never stops it (publishing being bounded by MaxPublished).
Busy(s) == inbox[s] # <<>> \/ InHand(s) = 1

InboxDrains == \A s \in Subscribers : Busy(s) ~> (~Busy(s) \/ crashed)

\* A due reconnect is taken: between two messages, even when the message before
\* it has to wait for room in the round-trip channel.  The one thing that holds
\* it back is a quiet connection, on which ReceiveMessage goes on waiting (207).
Quiet(s) == at[s] = "receive" /\ inbox[s] = <<>>

PendingTickTaken ==
    \A s \in Subscribers :
        tick[s] ~> (~tick[s] \/ Quiet(s) \/ at[s] = "exited" \/ crashed)

\* What the comment at line 201 says of the reconnect interval: "unsubscribe and
\* resubscribe", so a connected subscriber in its select holds its whole list.
ReconnectRestores ==
    \A s \in Subscribers :
        at[s] = "select" /\ conn[s] = "up" => Held(s) = All(s)
=============================================================================
