----------------------------- MODULE RateLimit -----------------------------
(***************************************************************************)
(* The per-key token buckets of internal/httpapi/middleware.go.  A request *)
(* fetches the bucket of its key from an LRU cache (under one mutex), asks *)
(* it for a token (under another) and reads it again for a header.  In     *)
(* between its bucket may be evicted, and the key given a fresh one.       *)
(*                                                                         *)
(* The float64 of the code is a whole number of fractions here: a token is *)
(* Unit of them, and Rate of them flow in per tick.                        *)
(***************************************************************************)
EXTENDS Integers, Sequences, FiniteSets, Functions

CONSTANTS
    Req,        \* concurrent requests
    Keys,       \* KeyDBIDs, and "anon"
    None,       \* no bucket, no key
    Unit,       \* fractions in a token
    Rate,       \* rps: fractions per tick
    Burst,      \* burst, in tokens
    Capacity,   \* maxBuckets of the LRU cache
    MaxBuckets, \* bound on the buckets ever made
    MaxTime     \* bound on the clock

ASSUME LimitAssumption ==
    /\ {Unit, Rate, Burst, Capacity, MaxBuckets} \subseteq Nat \ {0} /\ MaxTime \in Nat
    /\ None \notin Nat

VARIABLES
    now,
    lru,       \* keys in the cache, least recently used first
    bucketOf,  \* key -> number of its bucket, if it is in lru
    buckets,   \* the buckets ever made, evicted ones included: tokens and last,
               \* and as history the key and the ticks at which a token was taken
    pc, key, held  \* each request: step, key, bucket

vars == <<now, lru, bucketOf, buckets, pc, key, held>>

Full == Burst * Unit

Init ==
    /\ now = 0
    /\ lru = <<>>
    /\ bucketOf = [k \in Keys |-> None]
    /\ buckets = <<>>
    /\ pc = [r \in Req |-> "idle"]
    /\ key = [r \in Req |-> None]
    /\ held = [r \in Req |-> None]

\* Sequence s without its i-th element.
Without(s, i) == [j \in 1 .. Len(s) - 1 |-> IF j < i THEN s[j] ELSE s[j + 1]]

\* Seeded fault: a hit adds the key once more.
TouchTwice(k) == Append(lru, k)

\* The lru cache: a hit makes the key the most recent one; Add drops the
\* least recent one when the cache is full.
Touch(k) ==
    LET i == CHOOSE i \in DOMAIN lru : lru[i] = k
    IN  Append(Without(lru, i), k)

\* limiterFor
LimiterFor(r, k) ==
    /\ pc[r] = "idle"
    /\ pc' = [pc EXCEPT ![r] = "allow"]
    /\ key' = [key EXCEPT ![r] = k]
    /\ \/ /\ k \in Range(lru)
          /\ lru' = Touch(k)
          /\ held' = [held EXCEPT ![r] = bucketOf[k]]
          /\ UNCHANGED <<bucketOf, buckets>>
       \/ /\ k \notin Range(lru)
          /\ Len(buckets) < MaxBuckets
          /\ buckets' = Append(buckets, [key |-> k, tokens |-> Full, last |-> now, taken |-> <<>>])
          /\ lru' = IF Len(lru) < Capacity THEN Append(lru, k) ELSE Append(Tail(lru), k)
          /\ bucketOf' = [x \in Keys |-> IF x = k THEN Len(buckets) + 1
                                         ELSE IF x \in Range(lru') THEN bucketOf[x] ELSE None]
          /\ held' = [held EXCEPT ![r] = Len(buckets) + 1]
    /\ UNCHANGED now

\* Seeded fault: only whole tokens flow in, and the rest is forgotten.
RefillWhole(b) ==
    LET t == b.tokens + (((now - b.last) * Rate) \div Unit) * Unit
    IN  [b EXCEPT !.tokens = IF t < Full THEN t ELSE Full, !.last = now]
\* Seeded fault: the time of the refill is not kept.
RefillKeepsTime(b) ==
    LET t == b.tokens + (now - b.last) * Rate
    IN  [b EXCEPT !.tokens = IF t < Full THEN t ELSE Full]

\* tokenBucket.refill
Refill(b) ==
    LET t == b.tokens + (now - b.last) * Rate
    IN  [b EXCEPT !.tokens = IF t < Full THEN t ELSE Full, !.last = now]

\* The request has its answer from the limiter.
Leave(r) ==
    /\ pc' = [pc EXCEPT ![r] = "idle"]
    /\ key' = [key EXCEPT ![r] = None]
    /\ held' = [held EXCEPT ![r] = None]

\* tokenBucket.Allow; 429 if there is no token.
Allow(r) ==
    LET b == Refill(buckets[held[r]]) IN
    /\ pc[r] = "allow"
    /\ \/ /\ b.tokens < Unit
          /\ buckets' = [buckets EXCEPT ![held[r]] = b]
          /\ Leave(r)
       \/ /\ b.tokens >= Unit
          /\ buckets' = [buckets EXCEPT ![held[r]] =
                [b EXCEPT !.tokens = @ - Unit, !.taken = Append(@, now)]]
          /\ pc' = [pc EXCEPT ![r] = "header"]
          /\ UNCHANGED <<key, held>>
    /\ UNCHANGED <<now, lru, bucketOf>>

\* tokenBucket.Tokens, for X-RateLimit-Remaining: it refills too.
Tokens(r) ==
    /\ pc[r] = "header"
    /\ buckets' = [buckets EXCEPT ![held[r]] = Refill(@)]
    /\ Leave(r)
    /\ UNCHANGED <<now, lru, bucketOf>>

Tick ==
    /\ now < MaxTime
    /\ now' = now + 1
    /\ UNCHANGED <<lru, bucketOf, buckets, pc, key, held>>

Next ==
    \/ \E r \in Req : Allow(r) \/ Tokens(r) \/ \E k \in Keys : LimiterFor(r, k)
    \/ Tick

Spec == Init /\ [][Next]_vars

---------------------------------------------------------------------------
(* Properties *)

\* The shape of the cache and of the buckets; the cache is within its size,
\* holds each key once, and a key in it has a bucket.
TypeOK ==
    /\ now \in 0..MaxTime
    /\ lru \in Seq(Keys) /\ Len(lru) <= Capacity /\ IsInjective(lru)
    /\ \A k \in Keys : bucketOf[k] \in IF k \in Range(lru) THEN 1..Len(buckets) ELSE {None}
    /\ buckets \in Seq([key : Keys, tokens : 0..Full, last : 0..now, taken : Seq(0..now)])
    /\ \A r \in Req : (held[r] = None) <=> (pc[r] = "idle")

\* The buckets that were made for key k.
BucketsOf(k) == {i \in DOMAIN buckets : buckets[i].key = k}

\* The tokens bucket i gave from tick a to tick b.
TakenFrom(i, a, b) == {n \in DOMAIN buckets[i].taken : buckets[i].taken[n] \in a..b}

\* How many requests of key k were admitted from tick a to tick b.
Admitted(k, a, b) == Cardinality(UNION {{i} \X TakenFrom(i, a, b) : i \in BucketsOf(k)})

\* In every window a key is admitted its burst and what flows in during the
\* window, once per bucket it was given: an eviction hands out a new burst,
\* and nothing else does.
RateBound ==
    \A k \in Keys, a, b \in 0..now :
        a <= b => Unit * Admitted(k, a, b) <= Cardinality(BucketsOf(k)) * (Full + Rate * (b - a))

\* A key is rejected only for its own traffic: over some window up to the
\* rejection it has used all but a fraction of a token of what is its due.
\* So no other key, and no concurrent read of the bucket, costs it a token.
RejectedForOwnTraffic ==
    [][\A r \in Req : pc[r] = "allow" /\ pc'[r] = "idle" =>
          \E a \in 0..now :
              Full + Rate * (now - a) < Unit * (Admitted(key[r], a, now) + 1)]_vars

============================================================================
