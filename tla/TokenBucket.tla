---------------------------- MODULE TokenBucket ----------------------------
(* The token bucket of the bridge (rateLimit.ts): calls take a token or     *)
(* park in a queue of bounded length, one timer wakes the head of it, an    *)
(* answer with Retry-After pauses the bucket, close() turns everybody away. *)
(*                                                                          *)
(* Time goes in ticks of one millisecond, the time still to go standing for *)
(* resumeAt and for the due time of the timer.  refill() is called before   *)
(* every look at the tokens and its sums add up, so the model refills with  *)
(* every tick.  Tokens are counted in fractions: One of them is a call.     *)
(* An enabled bucket; a disabled one grants every call at once.             *)
EXTENDS Integers, Sequences

CONSTANTS
    Callers,        \* the calls that ask for a token, one at a time each
    One,            \* the fractions a token consists of
    Rate,           \* the fractions refilled in a tick
    Capacity,       \* the fractions the bucket holds: the burst
    MaxParked,      \* MAX_PARKED_WAITERS
    Backoffs        \* the values of Retry-After, in ticks

\* The burst is a token or more: with less in it the bucket never grants.
ASSUME BucketAssumption ==
    /\ One \in Nat \ {0} /\ Rate \in Nat \ {0} /\ MaxParked \in Nat \ {0}
    /\ Capacity \in Nat /\ Capacity >= One
    /\ Backoffs \subseteq Nat

VARIABLES
    tokens,         \* fractions in the bucket
    pause,          \* ticks until resumeAt
    waiters,        \* the parked calls, the head first
    timer,          \* ticks until the timer fires, or NoTimer
    closed,
    meter           \* observer: what a leaky meter on the wire would read

bucketVars == <<tokens, pause, waiters, timer, closed, meter>>

NoTimer == -1

BucketInit ==
    /\ tokens = Capacity
    /\ pause = 0
    /\ waiters = <<>>
    /\ timer = NoTimer
    /\ closed = FALSE
    /\ meter = 0

Larger(a, b) == IF a >= b THEN a ELSE b
Smaller(a, b) == IF a <= b THEN a ELSE b

\* The delay scheduleWake computes: until a token is full, whole ticks only,
\* until the pause is over, and at least a tick.
Delay(t, p) == Larger(1, Larger((One - t) \div Rate, p))

CanGrant == pause = 0 /\ tokens >= One

Spend ==
    /\ tokens' = tokens - One
    /\ meter' = meter + One

\* acquire: a newcomer takes a token only while nobody is parked.
AcquireNow ==
    /\ ~closed
    /\ waiters = <<>>
    /\ CanGrant
    /\ Spend
    /\ UNCHANGED <<pause, waiters, timer, closed>>

MustWait == waiters # <<>> \/ ~CanGrant

\* Mutant: the timer is not started.
AcquireParksQuietly(c) ==
    /\ ~closed
    /\ MustWait
    /\ Len(waiters) < MaxParked
    /\ waiters' = Append(waiters, c)
    /\ UNCHANGED <<tokens, pause, timer, closed, meter>>

\* Mutant: the queue may grow by one more.
AcquireParksDeep(c) ==
    /\ ~closed
    /\ MustWait
    /\ Len(waiters) <= MaxParked
    /\ waiters' = Append(waiters, c)
    /\ timer' = IF timer = NoTimer THEN Delay(tokens, pause) ELSE timer
    /\ UNCHANGED <<tokens, pause, closed, meter>>

AcquireParks(c) ==
    /\ ~closed
    /\ MustWait
    /\ Len(waiters) < MaxParked
    /\ waiters' = Append(waiters, c)
    /\ timer' = IF timer = NoTimer THEN Delay(tokens, pause) ELSE timer
    /\ UNCHANGED <<tokens, pause, closed, meter>>

\* RateLimitQueueFullError
AcquireRefused ==
    /\ ~closed
    /\ MustWait
    /\ Len(waiters) >= MaxParked
    /\ UNCHANGED bucketVars

\* Mutant: the head goes without spending a token.
WakeGrantsFree ==
    /\ timer = 0
    /\ waiters # <<>>
    /\ CanGrant
    /\ meter' = meter + One
    /\ waiters' = Tail(waiters)
    /\ timer' = IF waiters' = <<>> THEN NoTimer ELSE Delay(tokens, pause)
    /\ UNCHANGED <<tokens, pause, closed>>

\* wakeHead, with a token for the head.
WakeGrants ==
    /\ timer = 0
    /\ waiters # <<>>
    /\ CanGrant
    /\ Spend
    /\ waiters' = Tail(waiters)
    /\ timer' = IF waiters' = <<>> THEN NoTimer ELSE Delay(tokens', pause)
    /\ UNCHANGED <<pause, closed>>

\* wakeHead, too early: the timer is set again.
WakeTooEarly ==
    /\ timer = 0
    /\ waiters # <<>>
    /\ ~CanGrant
    /\ timer' = Delay(tokens, pause)
    /\ UNCHANGED <<tokens, pause, waiters, closed, meter>>

\* The time one token takes to fill, the shortest pause.
MinBackoff == (One + Rate - 1) \div Rate

\* noteRetryAfter: a pause is prolonged, never cut short; a timer that is set
\* for an earlier time is set anew.
NoteRetryAfter(s) ==
    /\ pause' = Larger(pause, Larger(s, MinBackoff))
    /\ timer' = IF waiters = <<>> THEN timer ELSE Delay(tokens, pause')
    /\ UNCHANGED <<tokens, waiters, closed, meter>>

\* close: every parked call is rejected, the timer is dropped.
Close ==
    /\ ~closed
    /\ closed' = TRUE
    /\ timer' = NoTimer
    /\ waiters' = <<>>
    /\ UNCHANGED <<tokens, pause, meter>>

\* Mutant: the bucket overflows.
TickOverflow ==
    /\ tokens' = tokens + Rate
    /\ pause' = Larger(0, pause - 1)
    /\ timer' = IF timer > 0 THEN timer - 1 ELSE timer
    /\ meter' = Larger(0, meter - Rate)
    /\ UNCHANGED <<waiters, closed>>

\* A millisecond goes by, and refill() with it; a timer that is due may be late.
Tick ==
    /\ tokens' = Smaller(Capacity, tokens + Rate)
    /\ pause' = Larger(0, pause - 1)
    /\ timer' = IF timer > 0 THEN timer - 1 ELSE timer
    /\ meter' = Larger(0, meter - Rate)
    /\ UNCHANGED <<waiters, closed>>

\* A call parks once: it is another promise each time.
NotParked(c) == \A i \in 1..Len(waiters) : waiters[i] # c

BucketNext ==
    \/ AcquireNow \/ AcquireRefused
    \/ \E c \in Callers : NotParked(c) /\ AcquireParks(c)
    \/ WakeGrants \/ WakeTooEarly
    \/ \E s \in Backoffs : NoteRetryAfter(s)
    \/ Close \/ Tick

BucketSpec == BucketInit /\ [][BucketNext]_bucketVars

-----------------------------------------------------------------------------
Gate == INSTANCE CallGate

\* The bucket is the gate that the routes of the bridge rely on: bounded, first come
\* first served, refusing what is one too many; who is parked goes out in the end,
\* whatever the pauses.
GateKept == Gate!FairGateSpec

BucketTypeOK ==
    /\ tokens \in 0..Capacity
    /\ pause \in Nat
    /\ waiters \in Seq(Callers)
    /\ timer \in Nat \cup {NoTimer}
    /\ closed \in BOOLEAN
    /\ meter \in Nat

\* The one timer is what wakes the queue: it is pending exactly while a call is
\* parked, through refusals, early wake-ups, prolonged pauses and close().
TimerArmed == timer # NoTimer <=> waiters # <<>>

\* Over any stretch of time no more calls go out than the burst and the rate allow
\* ("requests-per-second (sustained)"): a meter that leaks at the rate and counts
\* each call never reads more than the burst.
RateKept == meter <= Capacity

\* "FIFO fairness: a newcomer never takes a token while callers are already
\* parked": a call that goes out is the head of the queue, or nobody waited.
HeadFirst == [][meter' = meter + One => waiters = <<>> \/ waiters' = Tail(waiters)]_bucketVars

=============================================================================
