----------------------------- MODULE RateLimiter -----------------------------
(***************************************************************************)
(* The token buckets of core/ratelimit.py, one for each rule and address   *)
(* or key.  A hit reads the clock and takes the lock afterwards, so two    *)
(* hits may reach the table with their times the wrong way round.  A new   *)
(* bucket first makes room: idle buckets go, and when that is not enough   *)
(* the oldest tenth.                                                       *)
(*                                                                         *)
(* Time and tokens have one unit: what a bucket gets back in a unit of     *)
(* time.  A bucket holds Window of them (60 s) and a request takes Cost    *)
(* (60 s divided by the limit per minute).                                 *)
(***************************************************************************)
EXTENDS Integers, FiniteSets, Functions

CONSTANTS
    Callers,        \* the rules with their addresses or keys
    Threads,        \* the requests at once
    Window,         \* FULL_REFILL_SEC, and the capacity of a bucket
    Cost,           \* one request
    MaxBuckets,     \* the size of the table
    LastMoment,     \* the bound of the clock
    MaxLag          \* the longest wait between the clock and the lock

ASSUME LimiterAssumption ==
    /\ {Window, Cost, MaxBuckets, LastMoment} \subseteq Nat \ {0}
    /\ MaxLag \in Nat /\ Cost <= Window

VARIABLES
    moment,     \* the clock
    buckets,    \* self._buckets
    hit,        \* thread -> the caller and the time it read
    unpruned    \* the buckets of a table that never drops an idle one

limiterVars == <<moment, buckets, hit, unpruned>>

NoHit == [of |-> "nobody", now |-> 0]
Bucket == [tokens : -MaxLag .. Window, stamp : 0 .. LastMoment]

LimiterInit ==
    /\ moment = 0 /\ buckets = <<>> /\ unpruned = <<>>
    /\ hit = [t \in Threads |-> NoHit]

Smaller(m, n) == IF m < n THEN m ELSE n

\* min(per_minute, tokens + (now - stamp) * rate)
Refilled(b, now) == [tokens |-> Smaller(Window, b.tokens + (now - b.stamp)), stamp |-> now]

NewBucket(now) == [tokens |-> Window, stamp |-> now]

\* A slip of Stale: once one request has come back.
StaleSoon(table, now) == {c \in DOMAIN table : now - table[c].stamp >= Cost}

\* _prune: what was idle for the whole window.
Stale(table, now) == {c \in DOMAIN table : now - table[c].stamp >= Window}

Tenth == IF MaxBuckets < 10 THEN 1 ELSE MaxBuckets \div 10

\* The sets that sorting by the stamp may put first.
Oldest(table) ==
    {O \in SUBSET DOMAIN table :
        /\ Cardinality(O) = Tenth
        /\ \A o \in O, c \in DOMAIN table \ O : table[o].stamp <= table[c].stamp}

Dropped(table, C) == Restrict(table, DOMAIN table \ C)

\* _prune, with the callers that go although they are not idle.
Pruned(table, now) ==
    IF Cardinality(DOMAIN table) < MaxBuckets THEN {[table |-> table, lost |-> {}]}
    ELSE LET busy == Dropped(table, Stale(table, now)) IN
         IF Cardinality(DOMAIN busy) < MaxBuckets THEN {[table |-> busy, lost |-> {}]}
         ELSE {[table |-> Dropped(busy, O), lost |-> O] : O \in Oldest(busy)}

Charged(b) == IF b.tokens >= Cost THEN [b EXCEPT !.tokens = @ - Cost] ELSE b

With(table, c, b) == [k \in DOMAIN table \cup {c} |-> IF k = c THEN b ELSE table[k]]

\* A hit on a table where c has, or is given, its bucket.
Hit(table, c, now) ==
    With(table, c, Charged(IF c \in DOMAIN table THEN Refilled(table[c], now) ELSE NewBucket(now)))

\* now = self._clock()
ReadClock(t, c) ==
    /\ hit[t] = NoHit
    /\ hit' = [hit EXCEPT ![t] = [of |-> c, now |-> moment]]
    /\ UNCHANGED <<moment, buckets, unpruned>>

\* with self._lock: ...
UnderLock(t) ==
    LET c == hit[t].of
        now == hit[t].now
    IN  /\ hit[t] # NoHit
        /\ \E p \in IF c \in DOMAIN buckets THEN {[table |-> buckets, lost |-> {}]}
                    ELSE Pruned(buckets, now) :
             /\ buckets' = Hit(p.table, c, now)
             /\ unpruned' = Hit(Dropped(unpruned, p.lost), c, now)
        /\ hit' = [hit EXCEPT ![t] = NoHit]
        /\ UNCHANGED moment

TimePasses ==
    /\ moment < LastMoment
    /\ \A t \in Threads : hit[t] # NoHit => moment < hit[t].now + MaxLag
    /\ moment' = moment + 1
    /\ UNCHANGED <<buckets, hit, unpruned>>

LimiterNext ==
    \/ \E t \in Threads : UnderLock(t) \/ \E c \in Callers : ReadClock(t, c)
    \/ TimePasses

LimiterSpec == LimiterInit /\ [][LimiterNext]_limiterVars

LimiterTypeOK ==
    /\ moment \in 0 .. LastMoment
    /\ DOMAIN buckets \subseteq Callers /\ DOMAIN unpruned \subseteq Callers
    /\ \A c \in DOMAIN buckets : buckets[c] \in Bucket
    /\ hit \in [Threads -> {NoHit} \cup [of : Callers, now : 0 .. LastMoment]]

-----------------------------------------------------------------------------
\* What a caller may spend now.
Left(b) == Refilled(b, moment).tokens

\* Less than a request, or what comes back while two requests wait for the
\* lock: one that left its bucket a stamp of the past, one that finds it gone.
Slack == IF Cost - 1 > 2 * MaxLag THEN Cost - 1 ELSE 2 * MaxLag

\* The table never outgrows its bound, and dropping idle buckets gives nobody a
\* whole request more: "every bucket has its full capacity again after 60 s, so
\* idle buckets may be dropped" (core/ratelimit.py:9-10), but for the times that
\* reach the lock the wrong way round.  Only a caller dropped as one of the
\* oldest starts anew.
PruningGivesNothing ==
    /\ Cardinality(DOMAIN buckets) <= MaxBuckets
    /\ \A c \in DOMAIN buckets :
         c \in DOMAIN unpruned /\ Left(buckets[c]) <= Left(unpruned[c]) + Slack
=============================================================================
