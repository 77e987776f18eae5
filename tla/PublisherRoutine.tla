-------------------------- MODULE PublisherRoutine --------------------------
(***************************************************************************)
(* publisherRoutine of subscriber.go and the rate limiter that main makes  *)
(* for all publishers (lines 437-452).                                     *)
(*                                                                         *)
(* The limiter (golang.org/x/time/rate) is external: a bucket of           *)
(* requestBurst tokens that gains one token per time unit; a reservation   *)
(* takes one token, into debt if need be, and is due when the debt it left *)
(* is paid.  The time unit is 1/rps second, so the rate is one token per   *)
(* unit.  A publisher that sleeps may wake up late.                        *)
(*                                                                         *)
(* The context a publisher looks at between two rounds (lines 91-94) is    *)
(* context.Background(), set at line 472 for every one of them: it is      *)
(* never done, the cancel() of line 420 reaches no publisher, and the      *)
(* default case is the only one the select ever takes.                     *)
(***************************************************************************)
EXTENDS Integers, FiniteSets

CONSTANTS
    Publishers,     \* the goroutines
    ChannelCounts,  \* numbers of channels main may draw for a publisher
    Rps,            \* --rps; 0: no limiter
    RpsBurst,       \* --rps-burst
    MaxMessages     \* BOUND: totalMessages saturates here

ASSUME PubConstants ==
    /\ IsFiniteSet(Publishers)
    /\ ChannelCounts \subseteq Nat
    /\ Rps \in Nat
    /\ RpsBurst \in Nat
    /\ MaxMessages \in Nat

useRateLimiter == Rps # 0

requestBurst == IF Rps # 0 /\ RpsBurst # 0 THEN RpsBurst ELSE Rps

VARIABLES
    nChannels,      \* per publisher: len(channels)
    at,             \* where it is
    left,           \* channels left in its round
    delay,          \* units until its reservation is due
    tokens,         \* of the limiter
    totalMessages,
    excess          \* HISTORY: messages sent beyond one per unit, over the
                    \* worst window of time that ends now

vars == <<nChannels, at, left, delay, tokens, totalMessages, excess>>

\* Units until that many tokens are not negative any more.
Debt(n) == IF n < 0 THEN -n ELSE 0

Goto(p, l) == at' = [at EXCEPT ![p] = l]

-----------------------------------------------------------------------------
Init ==
    /\ nChannels \in [Publishers -> ChannelCounts]
    /\ at = [p \in Publishers |-> "select"]
    /\ left = [p \in Publishers |-> 0]
    /\ delay = [p \in Publishers |-> 0]
    /\ tokens = requestBurst
    /\ totalMessages = 0
    /\ excess = 0

\* The default case of the select: a round over the channels.
BeginRound(p) ==
    /\ at[p] = "select"
    /\ left' = [left EXCEPT ![p] = nChannels[p]]
    /\ Goto(p, "round")
    /\ UNCHANGED <<nChannels, delay, tokens, totalMessages, excess>>

\* MUTANT: the round does not end with its last channel.
MoreChannelsPastEnd(p) == left[p] >= 0

\* MUTANT: the round ends before its last channel.
MoreChannelsButLast(p) == left[p] > 1

MoreChannels(p) == left[p] > 0

EndRound(p) ==
    /\ at[p] = "round"
    /\ ~MoreChannels(p)
    /\ Goto(p, "select")
    /\ UNCHANGED <<nChannels, left, delay, tokens, totalMessages, excess>>

\* MUTANT: every reservation takes two tokens.
TwoTokens == 2

Tokens == 1     \* per reservation

\* rateLimiter.ReserveN(time.Now(), 1) and r.Delay().
Reserve(p) ==
    /\ at[p] = "round"
    /\ MoreChannels(p)
    /\ IF useRateLimiter
          THEN /\ tokens' = tokens - Tokens
               /\ delay' = [delay EXCEPT ![p] = Debt(tokens')]
          ELSE UNCHANGED <<tokens, delay>>
    /\ Goto(p, "sleep")
    /\ UNCHANGED <<nChannels, left, totalMessages, excess>>

\* MUTANT: the reservation is made and not waited for.
DueAlways(p) == TRUE

Due(p) == delay[p] = 0

\* time.Sleep is over; the message is published.  An error is only logged.
Send(p) ==
    /\ at[p] = "sleep"
    /\ Due(p)
    /\ excess' = IF useRateLimiter THEN excess + 1 ELSE excess
    /\ Goto(p, "count")
    /\ UNCHANGED <<nChannels, left, delay, tokens, totalMessages>>

\* atomic.AddUint64(&totalMessages, 1), on to the next channel.
Count(p) ==
    /\ at[p] = "count"
    /\ totalMessages' = IF totalMessages < MaxMessages
                           THEN totalMessages + 1 ELSE totalMessages
    /\ left' = [left EXCEPT ![p] = @ - 1]
    /\ Goto(p, "round")
    /\ UNCHANGED <<nChannels, delay, tokens, excess>>

\* One time unit: a token is added, up to the burst.
TimePasses ==
    /\ tokens' = IF tokens < requestBurst THEN tokens + 1 ELSE tokens
    /\ delay' = [p \in Publishers |-> IF delay[p] > 0 THEN delay[p] - 1 ELSE 0]
    /\ excess' = IF excess > 0 THEN excess - 1 ELSE 0
    /\ UNCHANGED <<nChannels, at, left, totalMessages>>

-----------------------------------------------------------------------------
Routine(p) ==
    \/ BeginRound(p)
    \/ EndRound(p)
    \/ Reserve(p)
    \/ Send(p)
    \/ Count(p)

Next == (\E p \in Publishers : Routine(p)) \/ TimePasses

Spec == Init /\ [][Next]_vars

\* Goroutines run, time passes, and a publish comes back: the clients have the
\* read and write timeouts of --redis-timeout (lines 328-330, 339-341).
FairSpec ==
    /\ Spec
    /\ \A p \in Publishers : WF_vars(Routine(p))
    /\ WF_vars(TimePasses)

-----------------------------------------------------------------------------
(* Properties.                                                             *)

Clients == Cardinality(Publishers)

\* The type invariant.
TypeOK ==
    /\ nChannels \in [Publishers -> ChannelCounts]
    /\ at \in [Publishers -> {"select", "round", "sleep", "count"}]
    /\ left \in [Publishers -> Nat]
    /\ delay \in [Publishers -> Nat]
    /\ tokens \in Int /\ tokens <= requestBurst
    /\ totalMessages \in 0 .. MaxMessages
    /\ excess \in Nat

\* The publishers together keep the rate of --rps: in every window of time they
\* send at most one message per unit, plus the burst, plus one message per
\* publisher that had reserved before the window and slept too long (100-103).
RateKept == excess <= requestBurst + Clients

\* Nobody is made to wait for more reservations than there are other publishers:
\* each holds at most one, so debts do not pile up, and of those that wait no two
\* are due at the same moment.
DelayBounded ==
    \A p \in Publishers :
        /\ delay[p] <= Clients
        /\ \A q \in Publishers \ {p} : delay[p] = delay[q] => delay[p] = 0

\* The shared limiter starves nobody: every publisher comes back to its select
\* again and again, and one that has channels publishes and counts again and
\* again, however the others take tokens from under it (99-127).
RoundsKeepComing ==
    \A p \in Publishers :
        /\ []<>(at[p] = "select")
        /\ nChannels[p] > 0 => []<>(at[p] = "count")
-----------------------------------------------------------------------------
(* The inductive invariant behind the safety properties, by concern.       *)

Sleepers == {p \in Publishers : at[p] = "sleep"}

\* The reservations that are not due yet are those of sleepers, and their delays
\* are 1 .. Debt(tokens), each once: a debt is never larger than its debtors.
DebtInv ==
    /\ \A p \in Publishers :
          /\ delay[p] <= Debt(tokens)
          /\ delay[p] > 0 => at[p] = "sleep"
          /\ \A q \in Publishers \ {p} : delay[p] = delay[q] => delay[p] = 0
    /\ \A k \in 1 .. Debt(tokens) : \E p \in Publishers : delay[p] = k

\* A token is in the bucket, was taken by a sleeper, or became a message.
RateInv ==
    /\ excess + Cardinality(Sleepers) + tokens <= requestBurst + Clients
    /\ ~useRateLimiter => excess = 0

\* A round is over its own channels, and only of what is left of them.
RoundInv ==
    \A p \in Publishers :
        /\ left[p] <= nChannels[p]
        /\ at[p] \in {"sleep", "count"} => left[p] > 0

IInv == TypeOK /\ DebtInv /\ RateInv /\ RoundInv
=============================================================================
