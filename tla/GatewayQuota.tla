---------------------------- MODULE GatewayQuota ----------------------------
(***************************************************************************)
(* evaluateLimits (src/gateway/quotas/limiter.ts) over the two quota       *)
(* stores of src/gateway/quotas/adapters.ts, for the calls of one tenant   *)
(* to one tool: first a token of the per-second limit, then the count of   *)
(* the day.  Both stores look at the instant the call took when it came    *)
(* in; Redis counts it later, and expires its keys by its own clock.       *)
(*                                                                         *)
(* Time is counted in fractions of a second, so that the rounding of a     *)
(* TTL to whole seconds shows; a day is a few seconds long.                *)
(***************************************************************************)
EXTENDS Integers, FiniteSets

CONSTANTS
    Calls,
    Stores,    \* the stores of this instance: "memory", "redis" or both
    Rate,      \* the entitlement's calls per second
    PerDay,     \* and per day
    Second,    \* instants in a second
    Day,       \* instants in a day
    MaxTime    \* bound: the last instant

ASSUME QuotaAssumption ==
    /\ IsFiniteSet(Calls)
    /\ Stores \subseteq {"memory", "redis"}
    /\ Rate \in Nat \ {0} /\ PerDay \in Nat \ {0}
    /\ Second \in Nat \ {0}
    /\ Day \in {n * Second : n \in 1 .. MaxTime}
    /\ MaxTime \in Nat

VARIABLES
    store,     \* the store the gateway was configured with
    now,       \* the present instant
    phase,     \* where each call is
    stamp,     \* the instant each call took when it came in
    tokenAt,   \* when its token was counted
    countAt,   \* when it was counted for the day
    bucket,    \* memory: the token bucket
    seconds,   \* redis: the key of each second
    days       \* the count of each day; in redis also its expiry

quotaVars == << store, now, phase, stamp, tokenAt, countAt, bucket, seconds, days >>

SecondOf(t) == t \div Second
DayOf(t) == t \div Day
DayEnd(t) == (DayOf(t) + 1) * Day

Instants == 0 .. MaxTime
Never == -1
Phases == {"new", "rate", "daily", "ok", "limited", "exceeded", "failed"}

\* A key that is absent or expired counts from zero.
Counters == [count : 0 .. Cardinality(Calls), expires : Nat \cup {Never}]
NoKey == [count |-> 0, expires |-> Never]

QuotaTypeOK ==
    /\ store \in Stores
    /\ now \in Instants
    /\ phase \in [Calls -> Phases]
    /\ stamp \in [Calls -> Instants \cup {Never}]
    /\ tokenAt \in [Calls -> Instants \cup {Never}]
    /\ countAt \in [Calls -> Instants \cup {Never}]
    /\ bucket \in [tokens : 0 .. 2 * Rate, last : Instants]
    /\ seconds \in [0 .. SecondOf(MaxTime) -> Counters]
    /\ days \in [0 .. DayOf(MaxTime) -> Counters]

\* The bucket of a tenant and tool seen for the first time is full.
QuotaInit ==
    /\ store \in Stores
    /\ now = 0
    /\ phase = [c \in Calls |-> "new"]
    /\ stamp = [c \in Calls |-> Never]
    /\ tokenAt = [c \in Calls |-> Never]
    /\ countAt = [c \in Calls |-> Never]
    /\ bucket = [tokens |-> 2 * Rate, last |-> 0]
    /\ seconds = [s \in 0 .. SecondOf(MaxTime) |-> NoKey]
    /\ days = [d \in 0 .. DayOf(MaxTime) |-> NoKey]

Tick ==
    /\ now < MaxTime
    /\ now' = now + 1
    /\ UNCHANGED << store, phase, stamp, tokenAt, countAt, bucket, seconds, days >>

----------------------------------------------------------------------------
\* InMemoryAdapter: it runs at the very instant the call came in.

\* takeToken: whole tokens are refilled for the time since the last call, and
\* one is taken from a bucket that has any.  What is left is never negative.
Refilled == bucket.tokens + ((now - bucket.last) * Rate) \div Second

\* Mutant: the bucket has no capacity.
TokensUncapped == IF Refilled > 0 THEN Refilled - 1 ELSE Refilled

TokensLeft ==
    LET tokens == IF Refilled > 2 * Rate THEN 2 * Rate ELSE Refilled
    IN  IF tokens > 0 THEN tokens - 1 ELSE tokens

TakeTokenMemory(c) ==
    /\ store = "memory" /\ phase[c] = "new"
    /\ stamp' = [stamp EXCEPT ![c] = now]
    /\ tokenAt' = [tokenAt EXCEPT ![c] = now]
    /\ bucket' = [tokens |-> TokensLeft, last |-> now]
    /\ phase' = [phase EXCEPT ![c] = IF TokensLeft < 0 THEN "limited" ELSE "daily"]
    /\ UNCHANGED << store, now, countAt, seconds, days >>

\* incrDaily: the count of the day the call came in; it never expires.
IncrDailyMemory(c) ==
    LET d == DayOf(stamp[c]) IN
    /\ store = "memory" /\ phase[c] = "daily"
    /\ countAt' = [countAt EXCEPT ![c] = now]
    /\ days' = [days EXCEPT ![d].count = @ + 1]
    /\ phase' = [phase EXCEPT ![c] = IF days'[d].count > PerDay THEN "exceeded" ELSE "ok"]
    /\ UNCHANGED << store, now, stamp, tokenAt, bucket, seconds >>

----------------------------------------------------------------------------
\* RedisAdapter.

Arrive(c) ==
    /\ store = "redis" /\ phase[c] = "new"
    /\ phase' = [phase EXCEPT ![c] = "rate"]
    /\ stamp' = [stamp EXCEPT ![c] = now]
    /\ UNCHANGED << store, now, tokenAt, countAt, bucket, seconds, days >>

\* MULTI INCR key; EXPIRE key ttl NX: the TTL is set by the first INCR only, and
\* a TTL of zero deletes the key at once.
Live(key) == now < key.expires
CountOf(key) == IF Live(key) THEN key.count + 1 ELSE 1
Incremented(key, ttl) ==
    [count |-> CountOf(key),
     expires |-> IF Live(key) THEN key.expires ELSE now + ttl * Second]

\* Mutant: a call that uses up the last token and one more is let through.
TakeTokenLate(c) ==
    LET s == SecondOf(stamp[c]) IN
    /\ store = "redis" /\ phase[c] = "rate"
    /\ tokenAt' = [tokenAt EXCEPT ![c] = now]
    /\ seconds' = [seconds EXCEPT ![s] = Incremented(@, 2)]
    /\ phase' = [phase EXCEPT ![c] = IF Rate - CountOf(seconds[s]) < -1
                                     THEN "limited" ELSE "daily"]
    /\ UNCHANGED << store, now, stamp, countAt, bucket, days >>

\* Mutant: the token is refused when none is left for the next call.
TakeTokenEarly(c) ==
    LET s == SecondOf(stamp[c]) IN
    /\ store = "redis" /\ phase[c] = "rate"
    /\ tokenAt' = [tokenAt EXCEPT ![c] = now]
    /\ seconds' = [seconds EXCEPT ![s] = Incremented(@, 2)]
    /\ phase' = [phase EXCEPT ![c] = IF Rate - CountOf(seconds[s]) <= 0
                                     THEN "limited" ELSE "daily"]
    /\ UNCHANGED << store, now, stamp, countAt, bucket, days >>

\* takeToken: a counter for each second, which lives for two of them.
TakeTokenRedis(c) ==
    LET s == SecondOf(stamp[c]) IN
    /\ store = "redis" /\ phase[c] = "rate"
    /\ tokenAt' = [tokenAt EXCEPT ![c] = now]
    /\ seconds' = [seconds EXCEPT ![s] = Incremented(@, 2)]
    /\ phase' = [phase EXCEPT ![c] = IF Rate - CountOf(seconds[s]) < 0
                                     THEN "limited" ELSE "daily"]
    /\ UNCHANGED << store, now, stamp, countAt, bucket, days >>

\* Mutant: the time to live is that of a second's counter.
IncrDailyShort(c) ==
    LET d == DayOf(stamp[c]) IN
    /\ store = "redis" /\ phase[c] = "daily"
    /\ countAt' = [countAt EXCEPT ![c] = now]
    /\ days' = [days EXCEPT ![d] = Incremented(@, 1)]
    /\ phase' = [phase EXCEPT ![c] = IF days'[d].count > PerDay THEN "exceeded" ELSE "ok"]
    /\ UNCHANGED << store, now, stamp, tokenAt, bucket, seconds >>

\* incrDaily: the counter of the day the call came in, which lives for the whole
\* seconds that were left of that day.
IncrDailyRedis(c) ==
    LET d == DayOf(stamp[c])
        ttl == (DayEnd(stamp[c]) - stamp[c]) \div Second
    IN
    /\ store = "redis" /\ phase[c] = "daily"
    /\ countAt' = [countAt EXCEPT ![c] = now]
    /\ days' = [days EXCEPT ![d] = Incremented(@, ttl)]
    /\ phase' = [phase EXCEPT ![c] = IF days'[d].count > PerDay THEN "exceeded" ELSE "ok"]
    /\ UNCHANGED << store, now, stamp, tokenAt, bucket, seconds >>

\* An error of Redis fails the call.
RedisFails(c) ==
    /\ store = "redis" /\ phase[c] \in {"rate", "daily"}
    /\ phase' = [phase EXCEPT ![c] = "failed"]
    /\ UNCHANGED << store, now, stamp, tokenAt, countAt, bucket, seconds, days >>

QuotaNext ==
    \/ Tick
    \/ \E c \in Calls :
        \/ TakeTokenMemory(c) \/ IncrDailyMemory(c)
        \/ Arrive(c) \/ TakeTokenRedis(c) \/ IncrDailyRedis(c) \/ RedisFails(c)

QuotaSpec == QuotaInit /\ [][QuotaNext]_quotaVars

----------------------------------------------------------------------------
\* Properties.

GotToken == {c \in Calls : tokenAt[c] # Never /\ phase[c] # "limited"}
Admitted == {c \in Calls : phase[c] = "ok"}

\* With Redis at most Rate of the calls that come in and are counted within one
\* second get a token: the key outlives its second whenever it was created in it.
RatePerSecond ==
    store = "redis" =>
        \A s \in 0 .. SecondOf(MaxTime) :
            Cardinality({c \in GotToken : SecondOf(stamp[c]) = s /\ SecondOf(tokenAt[c]) = s})
                <= Rate

\* No call is refused without cause: as many calls as are allowed were counted
\* before it, for the second and for the day it came in.
RefusedWithCause ==
    \A c \in Calls :
        /\ phase[c] = "limited" =>
            Cardinality({b \in Calls \ {c} : /\ tokenAt[b] # Never
                                             /\ SecondOf(stamp[b]) = SecondOf(stamp[c])}) >= Rate
        /\ phase[c] = "exceeded" =>
            Cardinality({b \in Calls \ {c} : /\ countAt[b] # Never
                                             /\ DayOf(stamp[b]) = DayOf(stamp[c])}) >= PerDay

\* The calls of a day that are admitted before its last second never outnumber
\* the quota, although the key's TTL is rounded down.
DailyUntilLastSecond ==
    \A d \in 0 .. DayOf(MaxTime) :
        Cardinality({c \in Admitted : /\ DayOf(stamp[c]) = d
                                      /\ countAt[c] < (d + 1) * Day - Second}) <= PerDay

\* "Increment a per-day counter": no more calls than the quota are admitted
\* within a day.
DailyAllDay ==
    \A d \in 0 .. DayOf(MaxTime) :
        Cardinality({c \in Admitted : DayOf(stamp[c]) = d /\ DayOf(countAt[c]) = d}) <= PerDay

\* "Token-bucket implementation for per-second limits": no more calls than the
\* bucket holds get a token at one instant.
BurstIsBounded ==
    \A t \in Instants :
        Cardinality({c \in GotToken : stamp[c] = t /\ tokenAt[c] = t}) <= 2 * Rate

\* The limits of one second: kept, and refused by only when they are reached.
SecondHolds == QuotaTypeOK /\ RatePerSecond /\ RefusedWithCause
=============================================================================
