---------------------------- MODULE IoSubscriber ----------------------------
(***************************************************************************)
(* subscriberRoutine of the ioredis client (js/ioredis/lib/subscriber.js): *)
(* one subscriber that re-subscribes on a timer, each time on a fresh      *)
(* duplicate of its client, and that shuts down when isRunning turns false.*)
(*                                                                         *)
(* setInterval does not wait for the promise its callback returns, so      *)
(* several activations of subscribe() can be suspended in an await at the  *)
(* same time.  All of them and shutdown() share the variable pubsub, which *)
(* is read again after each await.                                         *)
(*                                                                         *)
(* The server and ioredis are external.  Commands of one connection are    *)
(* answered in order; a command may fail (commandTimeout, lost connection) *)
(* with or without having taken effect; a duplicate is open until somebody *)
(* disconnects it.                                                         *)
(***************************************************************************)
EXTENDS Integers, Sequences, FiniteSets, Functions

CONSTANTS
    Lists,          \* channel lists runBenchmark may draw for the subscriber
    Reconnect,      \* reconnectInterval > 0
    MaxCalls,       \* BOUND: activations of subscribe()
    MaxFailures,    \* BOUND: commands that fail
    MaxPublished    \* BOUND: messages published

ASSUME IoConstants ==
    /\ Lists \subseteq Seq(Nat) \ {<<>>}
    /\ Reconnect \in BOOLEAN
    /\ MaxCalls \in Nat \ {0}
    /\ MaxFailures \in Nat
    /\ MaxPublished \in Nat

Calls == 1 .. MaxCalls
Conns == 1 .. MaxCalls          \* an activation duplicates at most once

VARIABLES
    list,           \* the channels of the subscriber; they never change
    call,           \* per activation: "idle", in an await ("unsub", "sub"),
                    \* "acked" when that await is about to resume, "ended"
    on,             \* the connection its pending command was sent on
    pubsub,         \* the variable pubsub; 0 is null
    opened,         \* connections duplicated so far
    open,           \* those that were not disconnected
    subs,           \* what the server has subscribed each connection to
    handlers,       \* handleMessage listeners of each connection
    timer,          \* reconnectTimer is set
    isRunning,
    phase,          \* "starting", "checking" isRunning, "unsub" in shutdown(),
                    \* "shut"
    target,         \* the connection shutdown() sent its unsubscribe on
    resolved,       \* the promise runBenchmark awaits is resolved
    totalSubscribed, totalConnects, totalMessages,
    failures, published     \* counters for the bounds

connVars == <<pubsub, opened, open, subs, handlers>>
endVars == <<timer, isRunning, phase, target, resolved>>
counters == <<totalSubscribed, totalConnects, totalMessages>>
vars == <<list, call, on, pubsub, opened, open, subs, handlers, timer,
          isRunning, phase, target, resolved, totalSubscribed, totalConnects,
          totalMessages, failures, published>>

Channels == Range(list)

\* MUTANT: the whole list is unsubscribed.
RestAll == Channels

Rest == Range(Tail(list))       \* channels.slice(1)

\* MUTANT: what was unsubscribed is not subtracted.
RestLenNone == 0

RestLen == Len(list) - 1
Pending == {i \in Calls : call[i] \in {"unsub", "sub", "acked"}}
Fresh(i) == call[i] = "idle" /\ \A j \in 1 .. i - 1 : call[j] # "idle"

-----------------------------------------------------------------------------
Init ==
    /\ list \in Lists
    /\ call = [i \in Calls |-> "idle"]
    /\ on = [i \in Calls |-> 0]
    /\ pubsub = 0
    /\ opened = 0
    /\ open = {}
    /\ subs = [c \in Conns |-> {}]
    /\ handlers = [c \in Conns |-> 0]
    /\ timer = FALSE
    /\ isRunning = TRUE
    /\ phase = "starting"
    /\ target = 0
    /\ resolved = FALSE
    /\ totalSubscribed = 0
    /\ totalConnects = 0
    /\ totalMessages = 0
    /\ failures = 0
    /\ published = 0

-----------------------------------------------------------------------------
(* One activation of subscribe().                                          *)

\* MUTANT: two connections are duplicated, one is used.
NewConnSpare == opened + 2

NewConn == opened + 1

\* pubsub = client.duplicate(), then subscribe(...channels) is sent on it.
Duplicate(i) ==
    /\ opened' = NewConn
    /\ pubsub' = NewConn
    /\ open' = open \cup {NewConn}
    /\ on' = [on EXCEPT ![i] = NewConn]
    /\ call' = [call EXCEPT ![i] = "sub"]

\* The code up to its first await: with a connection and several channels the
\* rest of the list is unsubscribed first.
Begin(i) ==
    /\ Fresh(i)
    /\ IF pubsub # 0 /\ Len(list) > 1
          THEN /\ call' = [call EXCEPT ![i] = "unsub"]
               /\ on' = [on EXCEPT ![i] = pubsub]
               /\ UNCHANGED <<pubsub, opened, open>>
          ELSE Duplicate(i)
    /\ UNCHANGED <<subs, handlers>>

\* Line 95, and the callback of line 99.
InitialSubscribe ==
    /\ call[1] = "idle"
    /\ Begin(1)
    /\ UNCHANGED <<list, endVars, counters, failures, published>>

ReconnectFires ==
    /\ timer
    /\ isRunning
    /\ \E i \in Calls : Begin(i)
    /\ UNCHANGED <<list, endVars, counters, failures, published>>

\* Whatever was sent before on the same connection has been answered.
InOrder(i) ==
    \A j \in 1 .. i - 1 : on[j] = on[i] => j \notin Pending

\* The first activation is awaited; then the timers of lines 99 and 147 are set.
\* Later ones just end.
Settle(i) ==
    IF i = 1
       THEN /\ phase' = "checking"
            /\ timer' = Reconnect
            /\ UNCHANGED <<isRunning, target, resolved>>
       ELSE UNCHANGED endVars

\* The await of line 28 or 30 resumes: count, duplicate, subscribe.
Unsubscribed(i) ==
    /\ call[i] = "unsub"
    /\ on[i] \in open
    /\ InOrder(i)
    /\ totalSubscribed' = totalSubscribed - RestLen
    /\ Duplicate(i)
    /\ subs' = [subs EXCEPT ![on[i]] = @ \ Rest]
    /\ UNCHANGED <<list, handlers, endVars, totalConnects, totalMessages,
                   failures, published>>

\* The server has subscribed the connection: messages may arrive before the
\* await resumes and a handler is attached.
Acknowledged(i) ==
    /\ call[i] = "sub"
    /\ on[i] \in open
    /\ call' = [call EXCEPT ![i] = "acked"]
    /\ subs' = [subs EXCEPT ![on[i]] = Channels]
    /\ UNCHANGED <<list, on, pubsub, opened, open, handlers, endVars, counters,
                   failures, published>>

\* MUTANT: the handler is attached to both events.
AttachTwice(i) == handlers' = [handlers EXCEPT ![pubsub] = @ + 2]

\* MUTANT: only the initial subscription attaches the handler.
AttachOnce(i) ==
    handlers' = [handlers EXCEPT ![pubsub] = IF i = 1 THEN @ + 1 ELSE @]

\* pubsub.on(..., handleMessage): the handler goes to what pubsub is NOW.
Attach(i) == handlers' = [handlers EXCEPT ![pubsub] = @ + 1]

\* The await of line 47 or 50 resumes.
Subscribed(i) ==
    /\ call[i] = "acked"
    /\ Attach(i)
    /\ totalSubscribed' = totalSubscribed + Len(list)
    /\ totalConnects' = totalConnects + 1
    /\ call' = [call EXCEPT ![i] = "ended"]
    /\ Settle(i)
    /\ UNCHANGED <<list, on, pubsub, opened, open, subs, totalMessages,
                   failures, published>>

\* The awaited command is rejected, having taken effect or not; the catch of
\* line 56 logs it.  Commands on a disconnected connection are always rejected.
SubscribeFails(i) ==
    /\ call[i] \in {"unsub", "sub"}
    /\ IF on[i] \in open
          THEN /\ failures < MaxFailures
               /\ InOrder(i)
               /\ failures' = failures + 1
               /\ \E effect \in BOOLEAN :
                     subs' = [subs EXCEPT ![on[i]] =
                                 CASE ~effect -> @
                                   [] effect /\ call[i] = "unsub" -> @ \ Rest
                                   [] effect /\ call[i] = "sub" -> Channels]
          ELSE UNCHANGED <<failures, subs>>
    /\ call' = [call EXCEPT ![i] = "ended"]
    /\ Settle(i)
    /\ UNCHANGED <<list, on, pubsub, opened, open, handlers, counters,
                   published>>

-----------------------------------------------------------------------------
(* Messages.                                                               *)

\* The server sends a message to every connection subscribed to its channel, and
\* every handler of the connection counts it (line 91).
Publish(ch) ==
    /\ published < MaxPublished
    /\ published' = published + 1
    /\ totalMessages' = totalMessages +
          SumFunction([c \in {c \in open : ch \in subs[c]} |-> handlers[c]])
    /\ UNCHANGED <<list, call, on, connVars, endVars, totalSubscribed,
                   totalConnects, failures>>

-----------------------------------------------------------------------------
(* Shutting down.                                                          *)

Stop ==
    /\ isRunning
    /\ isRunning' = FALSE
    /\ UNCHANGED <<list, call, on, connVars, timer, phase, target, resolved,
                   counters, failures, published>>

\* The check of line 148 finds isRunning false; shutdown() runs to its await.
BeginShutdown ==
    /\ phase = "checking"
    /\ ~isRunning
    /\ phase' = "unsub"
    /\ timer' = FALSE
    /\ target' = pubsub
    /\ UNCHANGED <<list, call, on, connVars, isRunning, resolved, counters,
                   failures, published>>

\* The unsubscribe was answered or rejected: what pubsub is NOW is disconnected.
Disconnect ==
    /\ phase = "unsub"
    /\ \A i \in Pending : on[i] # target
    /\ \E ok \in BOOLEAN :
          /\ failures' = failures + (IF ok THEN 0 ELSE 1)
          /\ failures' <= MaxFailures
          /\ subs' = [c \in Conns |->
                        IF c = pubsub \/ (ok /\ c = target) THEN {} ELSE subs[c]]
    /\ open' = open \ {pubsub}
    /\ phase' = "shut"
    /\ resolved' = TRUE
    /\ UNCHANGED <<list, call, on, pubsub, opened, handlers, timer, isRunning,
                   target, counters, published>>

\* MUTANT: the safeguard is never armed.
TimeoutArmedNever == FALSE

\* setTimeout of line 113 is set whenever shutdown() is entered.
TimeoutArmed == phase = "unsub"

\* The unsubscribe hangs for 5 s: the promise is resolved without it.
ForcedTimeout ==
    /\ TimeoutArmed
    /\ ~resolved
    /\ resolved' = TRUE
    /\ UNCHANGED <<list, call, on, connVars, timer, isRunning, phase, target,
                   counters, failures, published>>

-----------------------------------------------------------------------------
Activation(i) ==
    Unsubscribed(i) \/ Acknowledged(i) \/ Subscribed(i) \/ SubscribeFails(i)

Next ==
    \/ InitialSubscribe
    \/ ReconnectFires
    \/ \E i \in Calls : Activation(i)
    \/ \E ch \in Channels : Publish(ch)
    \/ Stop
    \/ BeginShutdown
    \/ Disconnect
    \/ ForcedTimeout

Spec == Init /\ [][Next]_vars

\* The event loop serves its timers and resumed awaits, and commandTimeout
\* (redisManager.js:40) bounds every command of an activation.  Nothing obliges
\* the server to answer the unsubscribe of shutdown().
FairSpec ==
    /\ Spec
    /\ WF_vars(InitialSubscribe)
    /\ \A i \in Calls : WF_vars(Activation(i))
    /\ WF_vars(BeginShutdown)
    /\ WF_vars(ForcedTimeout)

-----------------------------------------------------------------------------
(* Properties.                                                             *)

\* The type invariant.
TypeOK ==
    /\ list \in Lists
    /\ call \in [Calls -> {"idle", "unsub", "sub", "acked", "ended"}]
    /\ on \in [Calls -> 0 .. opened]
    /\ {pubsub, target} \subseteq 0 .. opened
    /\ opened \in 0 .. MaxCalls
    /\ open \subseteq 1 .. opened
    /\ subs \in [Conns -> SUBSET Channels]
    /\ handlers \in [Conns -> Nat]
    /\ {timer, isRunning, resolved} \subseteq BOOLEAN
    /\ phase \in {"starting", "checking", "unsub", "shut"}
    /\ totalSubscribed \in Int
    /\ {totalConnects, totalMessages, failures, published} \subseteq Nat

Heard(ch) == \E c \in open : ch \in subs[c] /\ handlers[c] > 0

\* A channel that is first in the list and nowhere else in it is heard without a
\* gap once the initial subscription succeeded and until the shutdown, however
\* many activations of subscribe() overlap and whatever becomes of their
\* commands: what they give up (line 28 or 30) never includes it.
FirstChannelHeard ==
    phase = "checking" /\ handlers[1] > 0 /\ list[1] \notin Range(Tail(list)) =>
        Heard(list[1])

\* Whenever no activation is under way and no command failed, every channel is
\* heard, although overlapping activations attach handlers to connections other
\* than their own (line 51).
QuietCoverage ==
    phase = "checking" /\ Pending = {} /\ failures = 0 =>
        \A ch \in Channels : Heard(ch)

Subscriptions == SumFunction([c \in open |-> Cardinality(subs[c])])

\* "Active Subscriptions" is never more than there are: with no activation under
\* way, no failed command and no channel drawn twice, the counter does not exceed
\* what the server has (lines 32 and 54).
NeverOverstated ==
    phase = "checking" /\ Pending = {} /\ failures = 0 /\ IsInjective(list) =>
        totalSubscribed <= Subscriptions

\* However activations overlap, a message is counted at most once per successful
\* subscription: the handlers of line 51 pile up on shared connections, but there
\* are never more of them than totalConnects says.
OvercountBounded == totalMessages <= published * totalConnects

\* Once the benchmark is told to stop the promise of this subscriber is resolved,
\* even if the server never answers the unsubscribe (lines 113-116) or the first
\* subscription failed.
StopResolves == ~isRunning ~> resolved

-----------------------------------------------------------------------------
(* The inductive invariants behind these properties, by concern.           *)

Subscribing(i) == call[i] \in {"sub", "acked"}

\* The initial subscription runs alone and opens the first connection; the timer
\* is set only after it.
StartInv ==
    /\ call[1] = "idle" <=> opened = 0
    /\ phase = "starting" =>
          /\ opened <= 1
          /\ ~timer
          /\ call[1] \in {"idle", "sub", "acked"}
          /\ \A i \in Calls \ {1} : call[i] = "idle"
    /\ phase # "starting" => call[1] = "ended"

\* Each connection is opened by one activation, at most one per activation, and
\* subscribed by no other; pubsub is always the youngest.
OwnerInv ==
    /\ pubsub = opened
    /\ opened + Cardinality({i \in Calls : call[i] \in {"idle", "unsub"}})
          <= MaxCalls
    /\ phase # "shut" => open = 1 .. opened
    /\ \A i \in Pending : on[i] \in 1 .. opened
    /\ \A i \in Calls \ {1} : Subscribing(i) => on[i] > 1
    /\ \A i, j \in Calls :
          Subscribing(i) /\ Subscribing(j) /\ on[i] = on[j] => i = j

\* What was not yet acknowledged is not subscribed.
SubsInv ==
    /\ \A c \in Conns : c > opened => subs[c] = {}
    /\ \A i \in Calls : call[i] = "sub" => subs[on[i]] = {}

\* One handler per successful subscription, wherever it was attached.
HandlerInv == SumFunction(handlers) = totalConnects /\ OvercountBounded

\* The first connection keeps the first channel from the acknowledgement on.
FirstInv ==
    /\ call[1] = "acked" => subs[1] = Channels
    /\ phase # "shut" /\ handlers[1] > 0 /\ list[1] \notin Rest =>
          list[1] \in subs[1]

\* Without failures the youngest connection is being subscribed, or subscribed to
\* everything and about to be heard, or heard.
YoungestInv ==
    phase # "shut" /\ failures = 0 /\ opened > 0 =>
        \/ \E i \in Calls : call[i] = "sub" /\ on[i] = opened
        \/ /\ subs[opened] = Channels
           /\ \/ \E i \in Calls : call[i] = "acked" /\ on[i] = opened
              \/ handlers[opened] > 0

\* Without failures the counter and what the acknowledged activations will add to
\* it are backed by subscriptions of the server.
BackedInv ==
    phase # "shut" /\ failures = 0 /\ IsInjective(list) =>
        totalSubscribed
            + SumFunction([i \in Calls |->
                              IF call[i] = "acked" THEN Len(list) ELSE 0])
            <= SumFunction([c \in Conns |-> Cardinality(subs[c])])

IInv ==
    /\ TypeOK
    /\ StartInv
    /\ OwnerInv
    /\ SubsInv
    /\ HandlerInv
    /\ FirstInv
    /\ YoungestInv
    /\ BackedInv
=============================================================================
