-------------------------- MODULE RateLimitProofs --------------------------
(***************************************************************************)
(* RateBound and RejectedForOwnTraffic, for any number of requests, keys   *)
(* and buckets, any rate and any burst.  A bucket obeys a ledger that both *)
(* come from: it never gave more than the burst and what flowed in         *)
(* (Spent), and it lacks only what was taken since it was last full        *)
(* (Missing).                                                              *)
(***************************************************************************)
EXTENDS RateLimit, FiniteSetTheorems, TLAPS

Bucket == [key : Keys, tokens : 0..Full, last : Nat, taken : Seq(Nat)]

\* From token n on, bucket b gave at most the burst and what flowed in since,
\* less what is left; between two tokens, the burst and what flowed in between.
Spent(b) ==
    /\ \A n \in 1..Len(b.taken) :
          /\ b.taken[n] <= b.last
          /\ Unit * (Len(b.taken) - n + 1) + b.tokens <= Full + Rate * (b.last - b.taken[n])
    /\ \A n, m \in 1..Len(b.taken) : n <= m =>
          /\ b.taken[n] <= b.taken[m]
          /\ Unit * (m - n + 1) <= Full + Rate * (b.taken[m] - b.taken[n])

\* Bucket b was full at a tick a, and lacks at most the tokens taken since.
Missing(b) ==
    \E a \in 0..b.last, p \in 0..Len(b.taken) :
        /\ \A n \in p + 1 .. Len(b.taken) : a <= b.taken[n]
        /\ Full + Rate * (b.last - a) <= b.tokens + Unit * (Len(b.taken) - p)

Ledger(b) == b \in Bucket /\ Spent(b) /\ Missing(b)

\* The cache holds each key once, with a bucket of that key.
Cache ==
    /\ lru \in Seq(Keys) /\ Len(lru) <= Capacity /\ IsInjective(lru)
    /\ bucketOf \in [Keys -> Nat \cup {None}]
    /\ \A k \in Keys : IF k \in Range(lru) THEN bucketOf[k] \in BucketsOf(k)
                                           ELSE bucketOf[k] = None

\* A request under way holds a bucket of its key.
Holds ==
    /\ pc \in [Req -> {"idle", "allow", "header"}]
    /\ key \in [Req -> Keys \cup {None}]
    /\ held \in [Req -> Nat \cup {None}]
    /\ \A r \in Req : IF pc[r] = "idle" THEN held[r] = None
                      ELSE key[r] \in Keys /\ held[r] \in BucketsOf(key[r])

Ledgers ==
    /\ now \in 0..MaxTime
    /\ buckets \in Seq(Bucket)
    /\ \A i \in 1..Len(buckets) : buckets[i].last <= now /\ Ledger(buckets[i])

Inv == Cache /\ Holds /\ Ledgers

-----------------------------------------------------------------------------

LEMMA Constants ==
    /\ Unit \in Nat /\ Unit > 0 /\ Rate \in Nat /\ Rate > 0 /\ Burst \in Nat
    /\ Full \in Nat /\ Unit <= Full /\ MaxTime \in Nat
BY LimitAssumption DEF Full

\* What flows in over two windows in a row flows in over both together.
LEMMA Flow ==
    \A t, u, v \in Int : /\ Rate * (u - t) \in Int
                         /\ Rate * (u - t) + Rate * (v - u) = Rate * (v - t)
BY Constants

\* A bucket starts with its burst.
LEMMA NewLedger ==
    ASSUME NEW k \in Keys, now \in Nat
    PROVE  Ledger([key |-> k, tokens |-> Full, last |-> now, taken |-> <<>>])
BY Constants DEF Ledger, Bucket, Spent, Missing

LEMMA RefillFields ==
    ASSUME NEW b \in Bucket, now \in Nat, b.last <= now
    PROVE  /\ Refill(b) \in Bucket
           /\ Refill(b).last = now /\ Refill(b).key = b.key /\ Refill(b).taken = b.taken
           /\ b.tokens <= Refill(b).tokens
           /\ \/ Refill(b).tokens = b.tokens + Rate * (now - b.last)
              \/ Refill(b).tokens = Full
           /\ Refill(b).tokens <= b.tokens + Rate * (now - b.last)
<1> DEFINE t == b.tokens + (now - b.last) * Rate
           c == IF t < Full THEN t ELSE Full
<1>1. now - b.last \in Nat
  BY DEF Bucket
<1>2. (now - b.last) * Rate \in Nat /\ (now - b.last) * Rate = Rate * (now - b.last)
  BY <1>1, Constants
<1>3. b.tokens \in 0..Full
  BY Zenon DEF Bucket
<1>4. c \in 0..Full /\ b.tokens <= c /\ c <= t /\ (c = t \/ c = Full)
  BY <1>2, <1>3, Constants
<1>5. Refill(b) = [b EXCEPT !.tokens = c, !.last = now]
  BY Zenon DEF Refill
<1> HIDE DEF c
<1>6. /\ Refill(b) \in Bucket
      /\ Refill(b).last = now /\ Refill(b).key = b.key /\ Refill(b).taken = b.taken
      /\ Refill(b).tokens = c
  BY <1>4, <1>5, Zenon DEF Bucket
<1> QED
  BY <1>2, <1>4, <1>6, Zenon

\* Refilling a bucket keeps its ledger.
LEMMA RefillLedger ==
    ASSUME NEW b, Ledger(b), now \in Nat, b.last <= now
    PROVE  Ledger(Refill(b)) /\ Refill(b).last = now
<1> DEFINE c == Refill(b)
           T == b.taken
           L == Len(b.taken)
<1>1. b \in Bucket /\ Spent(b) /\ Missing(b)
  BY Zenon DEF Ledger
<1>2. /\ c \in Bucket /\ c.last = now /\ c.key = b.key /\ c.taken = T
      /\ c.tokens = b.tokens + Rate * (now - b.last) \/ c.tokens = Full
      /\ c.tokens <= b.tokens + Rate * (now - b.last)
  BY <1>1, RefillFields, Zenon
<1>3. /\ T \in Seq(Nat) /\ L \in Nat /\ b.last \in Nat /\ b.tokens \in Nat
      /\ c.tokens \in Nat /\ \A n \in 1..L : T[n] \in Nat
  <2>1. T \in Seq(Nat) /\ b.last \in Nat /\ b.tokens \in 0..Full /\ c.tokens \in 0..Full
    BY <1>1, <1>2, Zenon DEF Bucket
  <2> HIDE DEF T, c
  <2> QED
    BY <2>1, Constants DEF T
<1> HIDE DEF c, T, L
<1>4. Spent(c)
  <2>1. ASSUME NEW n \in 1..L
        PROVE  /\ T[n] <= now
               /\ Unit * (L - n + 1) + c.tokens <= Full + Rate * (now - T[n])
    <3>1. PICK t \in Nat : t = T[n]
      BY <1>3, Zenon
    <3> DEFINE u == Unit * (L - n + 1)
               x == Rate * (b.last - t)
               y == Rate * (now - b.last)
               z == Rate * (now - t)
    <3>2. t <= b.last /\ u + b.tokens <= Full + x /\ c.tokens <= b.tokens + y
      BY <1>1, <1>2, <3>1, Zenon DEF Spent, T, L
    <3>3. t \in Int /\ b.last \in Int /\ now \in Int
      BY <1>3
    <3>4. x \in Int /\ y \in Int /\ z \in Int /\ x + y = z
      BY <3>3, Flow, Zenon
    <3>5. u \in Int /\ t <= now
      BY <1>3, <3>2, Constants
    <3> HIDE DEF u, x, y, z
    <3>6. u + c.tokens <= Full + z
      BY <1>3, <3>2, <3>4, <3>5, Constants
    <3> QED
      BY <3>1, <3>5, <3>6, Zenon DEF u, z
  <2> QED
    BY <1>1, <1>2, <2>1, Zenon DEF Spent, T, L
<1>5. Missing(c)
  <2>1. CASE c.tokens = Full
    <3>1. Full + Rate * (now - now) <= c.tokens + Unit * (L - L)
      BY <1>3, <2>1, Constants
    <3>2. now \in 0..now /\ L \in 0..L /\ \A n \in L + 1 .. L : now <= T[n]
      BY <1>3
    <3> QED
      BY <1>2, <3>1, <3>2 DEF Missing, L
  <2>2. CASE c.tokens = b.tokens + Rate * (now - b.last)
    <3>1. PICK a \in 0..b.last, p \in 0..L :
             /\ \A n \in p + 1 .. L : a <= T[n]
             /\ Full + Rate * (b.last - a) <= b.tokens + Unit * (L - p)
      BY <1>1, Zenon DEF Missing, T, L
    <3> DEFINE u == Unit * (L - p)
               x == Rate * (b.last - a)
               y == Rate * (now - b.last)
               z == Rate * (now - a)
    <3>2. Full + x <= b.tokens + u /\ c.tokens = b.tokens + y
      BY <2>2, <3>1, Zenon
    <3>3. a \in Int /\ b.last \in Int /\ now \in Int
      BY <1>3
    <3>4. x \in Int /\ y \in Int /\ z \in Int /\ x + y = z
      BY <3>3, Flow, Zenon
    <3>5. u \in Int
      BY <1>3, Constants
    <3> HIDE DEF u, x, y, z
    <3>6. Full + z <= c.tokens + u
      BY <1>3, <3>2, <3>4, <3>5, Constants
    <3>7. a \in 0..now
      BY <1>3
    <3> QED
      BY <1>2, <3>1, <3>6, <3>7, Zenon DEF Missing, T, L, u, z
  <2> QED
    BY <1>2, <2>1, <2>2, Zenon
<1> QED
  BY <1>2, <1>4, <1>5, Zenon DEF Ledger, c

\* Taking a token now keeps the ledger of a bucket refilled now.
LEMMA TakeLedger ==
    ASSUME NEW b, Ledger(b), now \in Nat, b.last = now, Unit <= b.tokens
    PROVE  Ledger([b EXCEPT !.tokens = @ - Unit, !.taken = Append(@, now)])
<1> DEFINE c == [b EXCEPT !.tokens = @ - Unit, !.taken = Append(@, now)]
           T == b.taken
           L == Len(b.taken)
           U == Append(T, now)
           K == Len(U)
<1>1. b \in Bucket /\ Spent(b) /\ Missing(b)
  BY Zenon DEF Ledger
<1>2. T \in Seq(Nat) /\ L \in Nat /\ b.tokens \in 0..Full /\ \A n \in 1..L : T[n] \in Nat
  BY <1>1, Constants DEF Bucket
<1>3. /\ U \in Seq(Nat) /\ K = L + 1 /\ U[K] = now
      /\ \A n \in 1..L : U[n] = T[n]
  BY <1>2
<1>4. c \in Bucket /\ c.last = now /\ c.tokens = b.tokens - Unit /\ c.taken = U
  <2>1. b.tokens - Unit \in 0..Full
    BY <1>2, Constants
  <2> QED
    BY <1>1, <1>3, <2>1, Zenon DEF Bucket
<1> HIDE DEF c, T, L, U, K
<1>5. ASSUME NEW n \in 1..K
      PROVE  U[n] <= now /\ Unit * (K - n + 1) + c.tokens <= Full + Rate * (now - U[n])
  <2>1. CASE n = K
    <3>1. Unit * (K - K + 1) = Unit /\ Rate * (now - now) = 0
      BY <1>2, <1>3, Constants
    <3>2. Unit + c.tokens <= Full + 0 /\ now <= now
      BY <1>2, <1>4, Constants
    <3> QED
      BY <1>3, <2>1, <3>1, <3>2, Zenon
  <2>2. CASE n \in 1..L
    <3> DEFINE u == Unit * (L - n + 1)
               v == Unit * (K - n + 1)
               x == Rate * (now - T[n])
    <3>1. T[n] <= now /\ u + b.tokens <= Full + x
      BY <1>1, <2>2, Zenon DEF Spent, T, L
    <3>2. T[n] \in Nat
      BY <1>2, <2>2, Zenon
    <3>3. u \in Int /\ v = u + Unit /\ x \in Int
      BY <1>2, <1>3, <2>2, <3>2, Constants
    <3> HIDE DEF u, v, x
    <3>4. v + c.tokens <= Full + x
      BY <1>2, <1>4, <3>1, <3>3, Constants
    <3> QED
      BY <1>3, <2>2, <3>1, <3>4, Zenon DEF v, x
  <2> QED
    BY <1>2, <1>3, <2>1, <2>2
<1>6. ASSUME NEW n \in 1..K, NEW m \in 1..K, n <= m
      PROVE  U[n] <= U[m] /\ Unit * (m - n + 1) <= Full + Rate * (U[m] - U[n])
  <2>1. CASE m = K
    <3>1. PICK t \in Nat : t = U[n]
      BY <1>3 DEF K
    <3> DEFINE u == Unit * (K - n + 1)
               x == Rate * (now - t)
    <3>2. u \in Int /\ x \in Int
      BY <1>2, <1>3, Constants
    <3>3. c.tokens \in Nat
      BY <1>2, <1>4, Constants
    <3>4. t <= now /\ u + c.tokens <= Full + x
      BY <1>5, <3>1, Zenon
    <3> HIDE DEF u, x
    <3>5. u <= Full + x
      BY <3>2, <3>4, <3>3, Constants
    <3> QED
      BY <1>3, <2>1, <3>1, <3>4, <3>5, Zenon DEF u, x
  <2>2. CASE m \in 1..L
    <3>1. n \in 1..L
      BY <1>2, <1>6, <2>2
    <3>2. T[n] <= T[m] /\ Unit * (m - n + 1) <= Full + Rate * (T[m] - T[n])
      BY <1>1, <1>6, <2>2, <3>1, Zenon DEF Spent, T, L
    <3> QED
      BY <1>3, <2>2, <3>1, <3>2, Zenon
  <2> QED
    BY <1>2, <1>3, <2>1, <2>2
<1>7. Spent(c)
  BY <1>3, <1>4, <1>5, <1>6, Zenon DEF Spent, K
<1>8. Missing(c)
  <2>1. PICK a \in 0..now, p \in 0..L :
           /\ \A n \in p + 1 .. L : a <= T[n]
           /\ Full + Rate * (now - a) <= b.tokens + Unit * (L - p)
    BY <1>1, Zenon DEF Missing, T, L
  <2> DEFINE u == Unit * (L - p)
             v == Unit * (K - p)
             x == Rate * (now - a)
  <2>2. u \in Int /\ v = u + Unit /\ x \in Int
    BY <1>2, <1>3, Constants
  <2>3. Full + x <= b.tokens + u
    BY <2>1, Zenon
  <2> HIDE DEF u, v, x
  <2>4. Full + x <= c.tokens + v
    BY <1>2, <1>4, <2>2, <2>3, Constants
  <2>5. ASSUME NEW n \in p + 1 .. K PROVE a <= U[n]
    <3>1. CASE n = K
      BY <1>3, <3>1
    <3>2. CASE n \in p + 1 .. L
      <4>1. n \in 1..L
        BY <1>2, <3>2
      <4> QED
        BY <1>3, <2>1, <3>2, <4>1, Zenon
    <3> QED
      BY <1>2, <1>3, <3>1, <3>2
  <2>6. p \in 0..K
    BY <1>2, <1>3
  <2> QED
    BY <1>3, <1>4, <2>4, <2>5, <2>6, Zenon DEF Missing, v, x, K
<1> QED
  BY <1>4, <1>7, <1>8, Zenon DEF Ledger, c

-----------------------------------------------------------------------------

LEMMA InitInv == Init => Inv
<1> SUFFICES ASSUME Init PROVE Inv
  BY Zenon
<1>1. Cache
  BY LimitAssumption DEF Init, Cache, Range, IsInjective
<1>2. Holds
  BY Zenon DEF Init, Holds
<1>3. Ledgers
  BY Constants DEF Init, Ledgers
<1> QED
  BY <1>1, <1>2, <1>3, Zenon DEF Inv

\* A new element at the end.
LEMMA AppendNew ==
    ASSUME NEW S, NEW s \in Seq(S), NEW e \in S, IsInjective(s), e \notin Range(s)
    PROVE  /\ Append(s, e) \in Seq(S) /\ Len(Append(s, e)) = Len(s) + 1
           /\ IsInjective(Append(s, e)) /\ Range(Append(s, e)) = Range(s) \cup {e}
<1> DEFINE t == Append(s, e)
           L == Len(s)
<1>1. /\ t \in Seq(S) /\ Len(t) = L + 1 /\ L \in Nat
      /\ DOMAIN t = 1 .. L + 1 /\ DOMAIN s = 1..L
  OBVIOUS
<1>2. t[L + 1] = e
  OBVIOUS
<1>3. \A x \in 1..L : t[x] = s[x]
  OBVIOUS
<1> HIDE DEF t, L
<1>4. \A x \in 1..L : s[x] # e
  BY <1>1, Zenon DEF Range
<1>5. \A x, y \in 1..L : s[x] = s[y] => x = y
  BY <1>1, Zenon DEF IsInjective
<1>6. \A x \in 1 .. L + 1 : x = L + 1 \/ x \in 1..L
  BY <1>1
<1>7. \A x, y \in 1 .. L + 1 : t[x] = t[y] => x = y
  BY <1>2, <1>3, <1>4, <1>5, <1>6, Zenon
<1>8. L + 1 \in 1 .. L + 1 /\ 1..L \subseteq 1 .. L + 1
  BY <1>1
<1>9. Range(t) = Range(s) \cup {e}
  BY <1>1, <1>2, <1>3, <1>6, <1>8, Zenon DEF Range
<1> QED
  BY <1>1, <1>7, <1>9, Zenon DEF IsInjective, t, L

LEMMA TailRest ==
    ASSUME NEW S, NEW s \in Seq(S), IsInjective(s), s # <<>>
    PROVE  /\ Tail(s) \in Seq(S) /\ Len(Tail(s)) = Len(s) - 1
           /\ IsInjective(Tail(s)) /\ Range(Tail(s)) \subseteq Range(s)
<1>1. /\ Tail(s) \in Seq(S) /\ Len(Tail(s)) = Len(s) - 1 /\ Len(s) \in Nat
      /\ DOMAIN Tail(s) = 1 .. Len(s) - 1 /\ DOMAIN s = 1..Len(s)
  OBVIOUS
<1>2. \A x \in 1 .. Len(s) - 1 : x + 1 \in 1..Len(s) /\ Tail(s)[x] = s[x + 1]
  OBVIOUS
<1>3. ASSUME NEW x \in DOMAIN Tail(s), NEW y \in DOMAIN Tail(s), Tail(s)[x] = Tail(s)[y]
      PROVE  x = y
  <2>1. x + 1 = y + 1
    BY <1>1, <1>2, <1>3 DEF IsInjective
  <2> QED
    BY <1>1, <2>1
<1> QED
  BY <1>1, <1>2, <1>3 DEF IsInjective, Range

LEMMA WithoutRest ==
    ASSUME NEW S, NEW s \in Seq(S), IsInjective(s), NEW i \in 1..Len(s)
    PROVE  /\ Without(s, i) \in Seq(S) /\ Len(Without(s, i)) = Len(s) - 1
           /\ IsInjective(Without(s, i)) /\ Range(Without(s, i)) = Range(s) \ {s[i]}
<1> DEFINE r == Without(s, i)
           L == Len(s)
<1>1. DOMAIN s = 1..L /\ L \in Nat /\ i \in 1..L /\ \A x \in 1..L : s[x] \in S
  OBVIOUS
<1>2. \A x, y \in 1..L : s[x] = s[y] => x = y
  BY <1>1, Zenon DEF IsInjective
<1> HIDE DEF L
<1>3. /\ DOMAIN r = 1 .. L - 1
      /\ \A x \in 1 .. L - 1 : r[x] = IF x < i THEN s[x] ELSE s[x + 1]
  BY Zenon DEF Without, L
<1>4. r \in Seq(S) /\ Len(r) = L - 1
  BY <1>1 DEF Without, L
<1> HIDE DEF r
<1>5. ASSUME NEW x \in 1 .. L - 1
      PROVE  \E y \in 1..L : y # i /\ r[x] = s[y] /\ (IF x < i THEN y = x ELSE y = x + 1)
  <2>1. CASE x < i
    BY <1>1, <1>3, <2>1
  <2>2. CASE ~(x < i)
    <3>1. x + 1 \in 1..L /\ x + 1 # i
      BY <1>1, <2>2
    <3> QED
      BY <1>3, <2>2, <3>1, Zenon
  <2> QED
    BY <2>1, <2>2, Zenon
<1>6. ASSUME NEW x \in 1 .. L - 1, NEW y \in 1 .. L - 1, r[x] = r[y]
      PROVE  x = y
  <2>1. PICK u \in 1..L : r[x] = s[u] /\ (IF x < i THEN u = x ELSE u = x + 1)
    BY <1>5, Zenon
  <2>2. PICK v \in 1..L : r[y] = s[v] /\ (IF y < i THEN v = y ELSE v = y + 1)
    BY <1>5, Zenon
  <2>3. u = v
    BY <1>2, <1>6, <2>1, <2>2, Zenon
  <2> QED
    BY <1>1, <2>1, <2>2, <2>3
<1>7. ASSUME NEW y \in 1..L, y # i
      PROVE  \E x \in 1 .. L - 1 : r[x] = s[y]
  <2>1. CASE y < i
    <3>1. y \in 1 .. L - 1
      BY <1>1, <2>1
    <3> QED
      BY <1>3, <2>1, <3>1, Zenon
  <2>2. CASE y > i
    <3>1. y - 1 \in 1 .. L - 1 /\ ~(y - 1 < i) /\ y - 1 + 1 = y
      BY <1>1, <2>2
    <3> QED
      BY <1>3, <3>1, Zenon
  <2> QED
    BY <1>1, <1>7, <2>1, <2>2
<1>8. Range(r) = Range(s) \ {s[i]}
  <2>1. \A x \in 1 .. L - 1 : \E y \in 1..L : y # i /\ r[x] = s[y]
    BY <1>5, Zenon
  <2>2. \A y \in 1..L : y # i => \E x \in 1 .. L - 1 : r[x] = s[y]
    BY <1>7, Zenon
  <2>3. ASSUME NEW e PROVE e \in Range(r) => e \in Range(s) /\ e # s[i]
    <3> SUFFICES ASSUME NEW x \in 1 .. L - 1, e = r[x] PROVE e \in Range(s) /\ e # s[i]
      BY <1>3, Zenon DEF Range
    <3>1. PICK y \in 1..L : y # i /\ r[x] = s[y]
      BY <2>1, Zenon
    <3> QED
      BY <1>1, <1>2, <3>1, Zenon DEF Range
  <2>4. ASSUME NEW e PROVE e \in Range(s) /\ e # s[i] => e \in Range(r)
    <3> SUFFICES ASSUME NEW y \in 1..L, e = s[y], e # s[i] PROVE e \in Range(r)
      BY <1>1, Zenon DEF Range
    <3>1. PICK x \in 1 .. L - 1 : r[x] = s[y]
      BY <2>2, Zenon
    <3> QED
      BY <1>3, <3>1, Zenon DEF Range
  <2> QED
    BY <2>3, <2>4, Zenon
<1> QED
  BY <1>3, <1>4, <1>6, <1>8, Zenon DEF IsInjective, r, L

\* A hit keeps the keys of the cache, and each of them once.
LEMMA TouchCache ==
    ASSUME Cache, NEW k \in Range(lru)
    PROVE  /\ Touch(k) \in Seq(Keys) /\ Len(Touch(k)) <= Capacity
           /\ IsInjective(Touch(k)) /\ Range(Touch(k)) = Range(lru)
<1> DEFINE i == CHOOSE j \in DOMAIN lru : lru[j] = k
           r == Without(lru, i)
<1>1. lru \in Seq(Keys) /\ IsInjective(lru) /\ Len(lru) <= Capacity /\ k \in Keys
  BY DEF Cache, Range
<1>2. i \in 1..Len(lru) /\ lru[i] = k
  BY <1>1 DEF Range
<1>3. Touch(k) = Append(r, k)
  BY Zenon DEF Touch
<1> HIDE DEF i
<1>4. /\ r \in Seq(Keys) /\ Len(r) = Len(lru) - 1
      /\ IsInjective(r) /\ Range(r) = Range(lru) \ {k}
  BY <1>1, <1>2, WithoutRest, Zenon
<1> HIDE DEF r
<1>5. /\ Append(r, k) \in Seq(Keys) /\ Len(Append(r, k)) = Len(r) + 1
      /\ IsInjective(Append(r, k)) /\ Range(Append(r, k)) = Range(r) \cup {k}
  BY <1>1, <1>4, AppendNew
<1> QED
  BY <1>1, <1>3, <1>4, <1>5

\* A key that was not cached, added to some of those that were.
LEMMA AddNew ==
    ASSUME NEW k \in Keys \ Range(lru), NEW u \in Seq(Keys), IsInjective(u),
           Range(u) \subseteq Range(lru), Len(u) + 1 <= Capacity
    PROVE  /\ Append(u, k) \in Seq(Keys) /\ Len(Append(u, k)) <= Capacity
           /\ IsInjective(Append(u, k))
           /\ k \in Range(Append(u, k)) /\ Range(Append(u, k)) \subseteq Range(lru) \cup {k}
<1>1. /\ Append(u, k) \in Seq(Keys) /\ Len(Append(u, k)) = Len(u) + 1
      /\ IsInjective(Append(u, k)) /\ Range(Append(u, k)) = Range(u) \cup {k}
  BY AppendNew
<1> QED
  BY <1>1, Zenon

\* A miss adds the key, and drops the least recent one if the cache is full.
LEMMA AddCache ==
    ASSUME Cache, NEW k \in Keys \ Range(lru),
           NEW t, t = IF Len(lru) < Capacity THEN Append(lru, k) ELSE Append(Tail(lru), k)
    PROVE  /\ t \in Seq(Keys) /\ Len(t) <= Capacity /\ IsInjective(t)
           /\ k \in Range(t) /\ Range(t) \subseteq Range(lru) \cup {k}
<1>1. /\ lru \in Seq(Keys) /\ IsInjective(lru) /\ Len(lru) \in Nat /\ Len(lru) <= Capacity
      /\ Capacity \in Nat \ {0}
  BY LimitAssumption DEF Cache
<1>2. CASE Len(lru) < Capacity
  <2>1. Len(lru) + 1 <= Capacity
    BY <1>1, <1>2
  <2> QED
    BY <1>1, <1>2, <2>1, AddNew, Zenon
<1>3. CASE ~(Len(lru) < Capacity)
  <2>1. lru # <<>>
    BY <1>1, <1>3
  <2>2. /\ Tail(lru) \in Seq(Keys) /\ Len(Tail(lru)) = Len(lru) - 1
        /\ IsInjective(Tail(lru)) /\ Range(Tail(lru)) \subseteq Range(lru)
    BY <1>1, <2>1, TailRest, Zenon
  <2>3. (Len(lru) - 1) + 1 <= Capacity
    BY <1>1
  <2> QED
    BY <1>3, <2>2, <2>3, AddNew, Zenon
<1> QED
  BY <1>2, <1>3, Zenon

-----------------------------------------------------------------------------

\* A bucket replaced by one of the same key that has its own ledger.
LEMMA BucketStep ==
    ASSUME Ledgers, NEW i \in 1..Len(buckets), NEW c, Ledger(c), c.last = now,
           c.key = buckets[i].key, buckets' = [buckets EXCEPT ![i] = c], now' = now
    PROVE  Ledgers' /\ \A k \in Keys : BucketsOf(k)' = BucketsOf(k)
<1>1. buckets \in Seq(Bucket) /\ c \in Bucket /\ now \in Nat
  BY Constants DEF Ledgers, Ledger
<1>2. /\ buckets' \in Seq(Bucket) /\ Len(buckets') = Len(buckets)
      /\ DOMAIN buckets' = DOMAIN buckets /\ DOMAIN buckets = 1..Len(buckets)
      /\ \A j \in 1..Len(buckets) : buckets'[j] = IF j = i THEN c ELSE buckets[j]
  BY <1>1
<1>3. \A j \in 1..Len(buckets) : buckets'[j].last <= now /\ Ledger(buckets'[j])
  BY <1>1, <1>2 DEF Ledgers
<1>4. Ledgers'
  BY <1>2, <1>3, Zenon DEF Ledgers
<1>5. \A k \in Keys : BucketsOf(k)' = BucketsOf(k)
  BY <1>2, Zenon DEF BucketsOf
<1> QED
  BY <1>4, <1>5, Zenon

\* A request that holds a bucket holds one with a ledger, of its key.
LEMMA HeldLedger ==
    ASSUME Inv, NEW r \in Req, pc[r] # "idle"
    PROVE  /\ held[r] \in 1..Len(buckets) /\ key[r] \in Keys
           /\ buckets[held[r]].key = key[r] /\ buckets[held[r]].last <= now
           /\ Ledger(buckets[held[r]]) /\ now \in Nat
BY Constants DEF Inv, Holds, Ledgers, BucketsOf

LEMMA AllowInv ==
    ASSUME Inv, NEW r \in Req, Allow(r)
    PROVE  Inv'
<1> DEFINE b == Refill(buckets[held[r]])
           d == [b EXCEPT !.tokens = @ - Unit, !.taken = Append(@, now)]
<1>1. /\ held[r] \in 1..Len(buckets) /\ buckets[held[r]].key = key[r]
      /\ buckets[held[r]].last <= now /\ Ledger(buckets[held[r]]) /\ now \in Nat
  BY HeldLedger, Zenon DEF Allow
<1>2. Ledger(b) /\ b.last = now
  BY <1>1, RefillLedger, Zenon
<1>3. b.key = key[r] /\ b \in Bucket
  BY <1>1, RefillFields, Zenon DEF Ledger
<1>4. PICK c : /\ Ledger(c) /\ c.last = now /\ c.key = key[r]
               /\ buckets' = [buckets EXCEPT ![held[r]] = c]
  <2>1. CASE b.tokens < Unit
    BY <1>2, <1>3, <2>1, Constants DEF Allow, Bucket
  <2>2. CASE b.tokens >= Unit
    <3>1. Ledger(d)
      BY <1>1, <1>2, <2>2, TakeLedger, Constants, Zenon DEF Bucket
    <3>2. d.last = now /\ d.key = key[r]
      BY <1>2, <1>3, Zenon DEF Bucket
    <3>3. buckets' = [buckets EXCEPT ![held[r]] = d]
      BY <1>3, <2>2, Constants DEF Allow, Bucket
    <3> QED
      BY <3>1, <3>2, <3>3, Zenon
  <2> QED
    BY <2>1, <2>2, Zenon DEF Allow
<1>5. Ledgers' /\ \A k \in Keys : BucketsOf(k)' = BucketsOf(k)
  BY <1>1, <1>4, BucketStep, Zenon DEF Inv, Allow
<1>6. Cache'
  BY <1>5, Zenon DEF Allow, Inv, Cache
<1>7. Holds'
  BY <1>5 DEF Allow, Leave, Inv, Holds
<1> QED
  BY <1>5, <1>6, <1>7, Zenon DEF Inv

LEMMA TokensInv ==
    ASSUME Inv, NEW r \in Req, Tokens(r)
    PROVE  Inv'
<1> DEFINE b == Refill(buckets[held[r]])
<1>1. /\ held[r] \in 1..Len(buckets) /\ buckets[held[r]].key = key[r]
      /\ buckets[held[r]].last <= now /\ Ledger(buckets[held[r]]) /\ now \in Nat
  BY HeldLedger, Zenon DEF Tokens
<1>2. Ledger(b) /\ b.last = now
  BY <1>1, RefillLedger, Zenon
<1>3. b.key = key[r]
  BY <1>1, RefillFields, Zenon DEF Ledger
<1>4. buckets' = [buckets EXCEPT ![held[r]] = b]
  BY Zenon DEF Tokens
<1> HIDE DEF b
<1>5. Ledgers' /\ \A k \in Keys : BucketsOf(k)' = BucketsOf(k)
  BY <1>1, <1>2, <1>3, <1>4, BucketStep, Zenon DEF Inv, Tokens
<1>6. Cache'
  BY <1>5, Zenon DEF Tokens, Inv, Cache
<1>7. Holds'
  BY <1>5, Zenon DEF Tokens, Leave, Inv, Holds
<1> QED
  BY <1>5, <1>6, <1>7, Zenon DEF Inv

\* A hit.
LEMMA HitInv ==
    ASSUME Inv, NEW r \in Req, NEW k \in Keys, LimiterFor(r, k), k \in Range(lru)
    PROVE  Inv'
<1>1. /\ lru' = Touch(k) /\ held' = [held EXCEPT ![r] = bucketOf[k]]
      /\ pc' = [pc EXCEPT ![r] = "allow"] /\ key' = [key EXCEPT ![r] = k]
      /\ UNCHANGED <<bucketOf, buckets, now>>
  BY Zenon DEF LimiterFor
<1>2. Ledgers' /\ \A x \in Keys : BucketsOf(x)' = BucketsOf(x)
  BY <1>1, Zenon DEF Inv, Ledgers, BucketsOf
<1>3. Cache'
  BY <1>1, <1>2, TouchCache, Zenon DEF Inv, Cache
<1>4. bucketOf[k] \in BucketsOf(k) /\ bucketOf[k] \in Nat \cup {None}
  BY Zenon DEF Inv, Cache
<1>5. Holds'
  BY <1>1, <1>2, <1>4, Zenon DEF Inv, Holds
<1> QED
  BY <1>2, <1>3, <1>5, Zenon DEF Inv

\* A miss.
LEMMA MissInv ==
    ASSUME Inv, NEW r \in Req, NEW k \in Keys, LimiterFor(r, k), k \notin Range(lru)
    PROVE  Inv'
<1> DEFINE c == [key |-> k, tokens |-> Full, last |-> now, taken |-> <<>>]
           n == Len(buckets) + 1
<1>1. /\ lru' = IF Len(lru) < Capacity THEN Append(lru, k) ELSE Append(Tail(lru), k)
      /\ buckets' = Append(buckets, c)
      /\ bucketOf' = [x \in Keys |-> IF x = k THEN n
                                     ELSE IF x \in Range(lru') THEN bucketOf[x] ELSE None]
      /\ held' = [held EXCEPT ![r] = n] /\ pc' = [pc EXCEPT ![r] = "allow"]
      /\ key' = [key EXCEPT ![r] = k] /\ now' = now
  BY Zenon DEF LimiterFor
<1>2. buckets \in Seq(Bucket) /\ now \in Nat
  BY Constants DEF Inv, Ledgers
<1>3. Ledger(c) /\ c.last = now /\ c.key = k
  BY <1>2, NewLedger, Zenon
<1>4. c \in Bucket
  BY <1>3, Zenon DEF Ledger
<1> HIDE DEF c
<1>5. /\ buckets' \in Seq(Bucket) /\ Len(buckets') = n /\ buckets'[n] = c
      /\ DOMAIN buckets' = 1..n /\ DOMAIN buckets = 1..Len(buckets) /\ n \in Nat
      /\ \A j \in 1..Len(buckets) : buckets'[j] = buckets[j]
  BY <1>1, <1>2, <1>4
<1>6. \A j \in 1..n : j = n \/ j \in 1..Len(buckets)
  BY <1>2
<1>7. Ledgers'
  <2>1. \A j \in 1..n : buckets'[j].last <= now /\ Ledger(buckets'[j])
    BY <1>2, <1>3, <1>5, <1>6 DEF Inv, Ledgers
  <2> QED
    BY <1>1, <1>5, <2>1, Zenon DEF Inv, Ledgers
<1>8. n \in BucketsOf(k)' /\ \A x \in Keys : BucketsOf(x) \subseteq BucketsOf(x)'
  BY <1>2, <1>3, <1>5 DEF BucketsOf
<1>9. Cache'
  <2>1. /\ lru' \in Seq(Keys) /\ Len(lru') <= Capacity /\ IsInjective(lru')
        /\ k \in Range(lru') /\ Range(lru') \subseteq Range(lru) \cup {k}
    BY <1>1, AddCache, Zenon DEF Inv
  <2>2. bucketOf' \in [Keys -> Nat \cup {None}]
    BY <1>1, <1>5, Zenon DEF Inv, Cache
  <2>3. \A x \in Keys : IF x \in Range(lru') THEN bucketOf'[x] \in BucketsOf(x)'
                                             ELSE bucketOf'[x] = None
    BY <1>1, <1>8, <2>1, Zenon DEF Inv, Cache
  <2> QED
    BY <2>1, <2>2, <2>3, Zenon DEF Cache
<1>10. Holds'
  BY <1>1, <1>5, <1>8, Zenon DEF Inv, Holds
<1> QED
  BY <1>7, <1>9, <1>10, Zenon DEF Inv

LEMMA StepInv == Inv /\ [Next]_vars => Inv'
<1> SUFFICES ASSUME Inv, [Next]_vars PROVE Inv'
  BY Zenon
<1>1. CASE \E r \in Req : Allow(r)
  BY <1>1, AllowInv, Zenon
<1>2. CASE \E r \in Req : Tokens(r)
  BY <1>2, TokensInv, Zenon
<1>3. CASE \E r \in Req, k \in Keys : LimiterFor(r, k)
  BY <1>3, HitInv, MissInv, Zenon
<1>4. CASE Tick
  <2>1. now' \in 0..MaxTime /\ now < now' /\ now \in Nat
    BY <1>4, Constants DEF Tick, Inv, Ledgers
  <2>2. Ledgers'
    <3>1. ASSUME NEW i \in 1..Len(buckets) PROVE buckets[i].last <= now'
      <4>1. buckets[i].last <= now /\ buckets[i].last \in Nat
        BY Zenon DEF Inv, Ledgers, Ledger, Bucket
      <4> QED
        BY <2>1, <4>1
    <3> QED
      BY <1>4, <2>1, <3>1, Zenon DEF Tick, Inv, Ledgers
  <2> QED
    BY <1>4, <2>2, Zenon DEF Tick, Inv, Cache, Holds, BucketsOf
<1>5. CASE UNCHANGED vars
  BY <1>5, Zenon DEF vars, Inv, Cache, Holds, Ledgers, BucketsOf
<1> QED
  BY <1>1, <1>2, <1>3, <1>4, <1>5, Zenon DEF Next

-----------------------------------------------------------------------------

\* The tokens of a bucket are numbered.
LEMMA TakenIndex ==
    ASSUME Ledgers, NEW i \in 1..Len(buckets), NEW a, NEW e, NEW n \in TakenFrom(i, a, e)
    PROVE  n \in 1..Len(buckets[i].taken) /\ Len(buckets[i].taken) \in Nat /\ n \in Nat
<1> DEFINE T == buckets[i].taken
<1>1. T \in Seq(Nat)
  BY Zenon DEF Ledgers, Ledger, Bucket
<1>2. n \in DOMAIN T
  BY Zenon DEF TakenFrom
<1> HIDE DEF T
<1>3. DOMAIN T = 1..Len(T) /\ Len(T) \in Nat
  BY <1>1
<1> QED
  BY <1>2, <1>3 DEF T

\* Two tokens of one bucket within a window are at most what it may give then.
LEMMA WindowBound ==
    ASSUME Ledgers, NEW i \in 1..Len(buckets), NEW a \in Nat, NEW e \in Nat,
           NEW n \in TakenFrom(i, a, e), NEW m \in TakenFrom(i, a, e), n <= m
    PROVE  n \in Nat /\ m \in Nat /\ Unit * (m - n + 1) <= Full + Rate * (e - a)
<1> DEFINE T == buckets[i].taken
<1>1. T \in Seq(Nat) /\ Spent(buckets[i])
  BY Zenon DEF Ledgers, Ledger, Bucket
<1>2. n \in 1..Len(T) /\ m \in 1..Len(T) /\ Len(T) \in Nat
  BY TakenIndex, Zenon
<1>3. PICK s \in Nat, t \in Nat : s = T[n] /\ t = T[m]
  <2> HIDE DEF T
  <2>1. T[n] \in Nat /\ T[m] \in Nat
    BY <1>1, <1>2
  <2> QED
    BY <2>1, Zenon
<1>4. a <= s /\ t <= e
  BY <1>3 DEF TakenFrom
<1>5. Unit * (m - n + 1) <= Full + Rate * (t - s)
  BY <1>1, <1>2, <1>3, Zenon DEF Spent
<1> HIDE DEF T
<1>6. Rate * (t - s) <= Rate * (e - a)
  <2>1. t - s <= e - a /\ t - s \in Int /\ e - a \in Int
    BY <1>4
  <2>2. \A x, y \in Int : x <= y => Rate * x <= Rate * y
    BY Constants
  <2> QED
    BY <2>1, <2>2, Zenon
<1>7. Rate * (t - s) \in Int /\ Rate * (e - a) \in Int /\ Unit * (m - n + 1) \in Int
  BY <1>2, Constants
<1> QED
  BY <1>2, <1>5, <1>6, <1>7, Constants

\* The largest number of whole tokens in an amount.
LEMMA WholeTokens ==
    ASSUME NEW D \in Nat
    PROVE  \E Q \in Nat : Unit * Q <= D /\ \A x \in Int : Unit * x <= D => x <= Q
<1>1. D \div Unit \in Nat /\ Unit * (D \div Unit) <= D /\ D < Unit * (D \div Unit + 1)
  BY Constants
<1>2. PICK Q \in Nat : Unit * Q <= D /\ D < Unit * (Q + 1)
  BY <1>1, Zenon
<1>3. ASSUME NEW x \in Int, Unit * x <= D PROVE x <= Q
  <2> SUFFICES ASSUME Q + 1 <= x PROVE FALSE
    OBVIOUS
  <2>1. Unit * (Q + 1) <= Unit * x
    <3>1. \A u, v \in Int : u <= v => Unit * u <= Unit * v
      BY Constants
    <3> QED
      BY <3>1
  <2>2. Unit * (Q + 1) \in Int /\ Unit * x \in Int
    BY Constants
  <2> QED
    BY <1>2, <1>3, <2>1, <2>2
<1> QED
  BY <1>2, <1>3, Zenon

\* Every set of numbers that is not empty has a least one.
LEMMA Least ==
    ASSUME NEW T \in SUBSET Nat, T # {}
    PROVE  \E x \in T : \A y \in T : x <= y
<1> DEFINE R == {p \in Nat \X Nat : p[1] < p[2]}
<1>1. IsWellFoundedOn(R, Nat)
  BY NatLessThanWellFounded, Zenon DEF OpToRel
<1>2. PICK x \in T : \A y \in T : ~(<<y, x>> \in R)
  BY <1>1, WFMin, Zenon
<1>3. ASSUME NEW y \in T PROVE x <= y
  <2>1. x \in Nat /\ y \in Nat
    BY Zenon
  <2>2. y < x => <<y, x>> \in R
    BY <2>1, Zenon
  <2> QED
    BY <1>2, <2>1, <2>2
<1> QED
  BY <1>3, Zenon

\* All that a key took from tick a to tick e.
Takes(k, a, e) == UNION {{i} \X TakenFrom(i, a, e) : i \in BucketsOf(k)}

\* Counted from the first token it gave in the window, a token of a bucket has
\* a number up to Q: so there are at most Q of them per bucket of the key.
LEMMA TakesBound ==
    ASSUME Ledgers, NEW k, NEW a \in Nat, NEW e \in Nat, NEW Q \in Nat,
           \A x \in Int : Unit * x <= Full + Rate * (e - a) => x <= Q
    PROVE  /\ IsFiniteSet(Takes(k, a, e)) /\ IsFiniteSet(BucketsOf(k))
           /\ Cardinality(Takes(k, a, e)) <= Cardinality(BucketsOf(k)) * Q
<1> DEFINE G == Takes(k, a, e)
           B == BucketsOf(k)
           From(i) == TakenFrom(i, a, e)
           lo(i) == CHOOSE n \in From(i) : \A m \in From(i) : n <= m
           f == [p \in G |-> <<p[1], p[2] - lo(p[1]) + 1>>]
<1>1. B \subseteq 1..Len(buckets) /\ Len(buckets) \in Nat
  BY DEF BucketsOf, Ledgers
<1>2. ASSUME NEW p \in G
      PROVE  /\ p = <<p[1], p[2]>> /\ p[1] \in B /\ p[2] \in From(p[1])
             /\ lo(p[1]) \in Nat /\ p[2] \in Nat
             /\ p[2] - lo(p[1]) + 1 \in 1..Q
  <2>1. PICK i \in B : p \in {i} \X From(i)
    BY Zenon DEF Takes
  <2>2. PICK n \in From(i) : p = <<i, n>>
    BY <2>1
  <2>3. \A x \in From(i) : x \in Nat
    BY <1>1, TakenIndex, Zenon
  <2>4. lo(i) \in From(i) /\ lo(i) <= n
    <3>1. \E x \in From(i) : \A y \in From(i) : x <= y
      BY <2>3, Least, Zenon
    <3> QED
      BY <3>1, Zenon
  <2> HIDE DEF lo
  <2>5. lo(i) \in Nat /\ n \in Nat /\ Unit * (n - lo(i) + 1) <= Full + Rate * (e - a)
    BY <1>1, <2>4, WindowBound, Zenon
  <2>6. n - lo(i) + 1 <= Q /\ n - lo(i) + 1 \in Int /\ 1 <= n - lo(i) + 1
    BY <2>4, <2>5
  <2> QED
    BY <2>2, <2>5, <2>6
<1> HIDE DEF lo
<1>3. f \in Injection(G, B \X (1..Q))
  <2>1. f \in [G -> B \X (1..Q)]
    BY <1>2, Zenon
  <2>2. ASSUME NEW p \in G, NEW q \in G, f[p] = f[q] PROVE p = q
    <3>1. p[1] = q[1] /\ p[2] - lo(p[1]) + 1 = q[2] - lo(q[1]) + 1
      BY <2>2, Zenon
    <3>2. p[2] = q[2]
      BY <1>2, <3>1
    <3> QED
      BY <1>2, <3>1, <3>2, Zenon
  <2> QED
    BY <2>1, <2>2, Zenon DEF Injection, IsInjective
<1>4. IsFiniteSet(B)
  <2>1. IsFiniteSet(1..Len(buckets))
    BY <1>1, FS_Interval
  <2> QED
    BY <1>1, <2>1, FS_Subset, Zenon
<1>5. IsFiniteSet(1..Q) /\ Cardinality(1..Q) = Q
  BY FS_Interval
<1>6. IsFiniteSet(B \X (1..Q)) /\ Cardinality(B \X (1..Q)) = Cardinality(B) * Q
  BY <1>4, <1>5, FS_Product, Zenon
<1>7. IsFiniteSet(G) /\ Cardinality(G) <= Cardinality(B \X (1..Q))
  BY <1>3, <1>6, FS_Injection, Zenon
<1> QED
  BY <1>4, <1>6, <1>7, Zenon

LEMMA RateBoundHolds ==
    ASSUME Ledgers
    PROVE  RateBound
<1> SUFFICES ASSUME NEW k \in Keys, NEW a \in 0..now, NEW e \in 0..now, a <= e
             PROVE  Unit * Admitted(k, a, e) <= Cardinality(BucketsOf(k)) * (Full + Rate * (e - a))
  BY Zenon DEF RateBound
<1> DEFINE D == Full + Rate * (e - a)
           A == Admitted(k, a, e)
           N == Cardinality(BucketsOf(k))
<1>1. a \in Nat /\ e \in Nat
  BY Constants DEF Ledgers
<1>2. D \in Nat
  <2>1. e - a \in Nat
    BY <1>1
  <2> QED
    BY <2>1, Constants
<1>3. PICK Q \in Nat : Unit * Q <= D /\ \A x \in Int : Unit * x <= D => x <= Q
  BY <1>2, WholeTokens, Zenon
<1>4. /\ IsFiniteSet(Takes(k, a, e)) /\ IsFiniteSet(BucketsOf(k))
      /\ Cardinality(Takes(k, a, e)) <= N * Q
  BY <1>1, <1>3, TakesBound, Zenon
<1>5. A \in Nat /\ N \in Nat /\ A <= N * Q
  BY <1>4, FS_CardinalityType, Zenon DEF Admitted, Takes
<1> HIDE DEF D, A, N
<1>6. Unit * A <= Unit * (N * Q)
  BY <1>5, Constants
<1>7. N * (Unit * Q) <= N * D
  BY <1>2, <1>3, <1>5, Constants
<1>8. Unit * (N * Q) = N * (Unit * Q)
  BY <1>5, Constants
<1>9. Unit * A \in Int /\ Unit * (N * Q) \in Int /\ N * D \in Int
  BY <1>2, <1>5, Constants
<1> QED
  BY <1>6, <1>7, <1>8, <1>9 DEF D, A, N

\* A rejected request finds its bucket short of a token: what is missing was
\* taken since the bucket was last full, from that bucket of the same key.
LEMMA RejectedStep ==
    ASSUME Inv, NEW r \in Req, Allow(r), pc'[r] = "idle"
    PROVE  \E a \in 0..now : Full + Rate * (now - a) < Unit * (Admitted(key[r], a, now) + 1)
<1> DEFINE i == held[r]
           b == Refill(buckets[i])
           L == Len(b.taken)
<1>1. /\ i \in 1..Len(buckets) /\ key[r] \in Keys /\ buckets[i].key = key[r]
      /\ buckets[i].last <= now /\ Ledger(buckets[i]) /\ now \in Nat
  BY HeldLedger, Zenon DEF Allow
<1>2. Ledger(b) /\ b.last = now
  BY <1>1, RefillLedger, Zenon
<1>3. b.taken = buckets[i].taken
  BY <1>1, RefillFields, Zenon DEF Ledger
<1>4. b.tokens < Unit /\ b.tokens \in Nat /\ b.taken \in Seq(Nat)
  BY <1>2, Constants DEF Allow, Inv, Holds, Ledger, Bucket
<1>5. PICK a \in 0..now, p \in 0..L :
         /\ \A n \in p + 1 .. L : a <= b.taken[n]
         /\ Full + Rate * (now - a) <= b.tokens + Unit * (L - p)
  BY <1>2, Zenon DEF Ledger, Missing
<1>6. L \in Nat /\ a \in Nat /\ p \in Nat
  BY <1>1, <1>4
<1> DEFINE G == Takes(key[r], a, now)
           P == {i} \X (p + 1 .. L)
<1>7. P \subseteq G
  <2>1. i \in BucketsOf(key[r])
    BY <1>1 DEF BucketsOf, Inv, Ledgers
  <2>2. ASSUME NEW n \in p + 1 .. L PROVE n \in TakenFrom(i, a, now)
    <3>1. n \in 1..L /\ a <= b.taken[n]
      BY <1>5, <1>6
    <3>2. b.taken[n] \in Nat
      BY <1>4, <3>1
    <3>3. b.taken[n] <= now
      BY <1>2, <3>1, Zenon DEF Ledger, Spent
    <3>4. b.taken[n] \in a..now /\ n \in DOMAIN b.taken
      BY <1>1, <1>4, <1>6, <3>1, <3>2, <3>3
    <3> QED
      BY <1>3, <3>4, Zenon DEF TakenFrom
  <2> QED
    BY <2>1, <2>2 DEF Takes
<1>8. IsFiniteSet(G) /\ Cardinality(G) \in Nat /\ Cardinality(G) = Admitted(key[r], a, now)
  <2>1. Full + Rate * (now - a) \in Nat
    <3>1. now - a \in Nat
      BY <1>1, <1>6
    <3> QED
      BY <3>1, Constants
  <2>2. PICK Q \in Nat : \A x \in Int : Unit * x <= Full + Rate * (now - a) => x <= Q
    BY <2>1, WholeTokens, Zenon
  <2>3. IsFiniteSet(G)
    BY <1>1, <1>6, <2>2, TakesBound, Zenon DEF Inv
  <2> QED
    BY <2>3, FS_CardinalityType, Zenon DEF Admitted, Takes
<1>9. L - p <= Cardinality(G)
  <2>1. IsFiniteSet({i}) /\ Cardinality({i}) = 1
    BY FS_Singleton, Zenon
  <2>2. IsFiniteSet(p + 1 .. L) /\ Cardinality(p + 1 .. L) = L - p
    <3>1. p + 1 \in Int /\ L \in Int /\ p <= L
      BY <1>6
    <3> HIDE DEF L
    <3>2. /\ IsFiniteSet(p + 1 .. L)
          /\ Cardinality(p + 1 .. L) = IF p + 1 > L THEN 0 ELSE L - (p + 1) + 1
      BY <3>1, FS_Interval, Zenon
    <3> HIDE DEF P
    <3> QED
      BY <1>6, <3>1, <3>2
  <2>3. Cardinality(P) = 1 * (L - p)
    <3>1. Cardinality(P) = Cardinality({i}) * Cardinality(p + 1 .. L)
      BY <2>1, <2>2, FS_Product, Zenon
    <3> QED
      BY <2>1, <2>2, <3>1, Zenon
  <2>4. Cardinality(P) <= Cardinality(G)
    BY <1>7, <1>8, FS_Subset, Zenon
  <2> QED
    BY <1>6, <2>3, <2>4
<1> DEFINE A == Admitted(key[r], a, now)
           x == Rate * (now - a)
           y == Unit * (L - p)
           z == Unit * (A + 1)
<1> HIDE DEF L, A
<1>10. A \in Nat /\ L - p <= A
  BY <1>8, <1>9, Zenon DEF A
<1>11. x \in Int /\ y \in Int /\ z \in Int /\ y + Unit <= z
  <2>1. Unit * (L - p + 1) <= Unit * (A + 1) /\ Unit * (L - p + 1) = y + Unit
    BY <1>6, <1>10, Constants
  <2> QED
    BY <1>1, <1>6, <1>10, <2>1, Constants
<1>12. Full + x <= b.tokens + y
  BY <1>5, Zenon
<1> HIDE DEF x, y, z, b
<1>13. Full + x < z
  BY <1>4, <1>11, <1>12, Constants
<1> QED
  BY <1>13, Zenon DEF x, z, A

-----------------------------------------------------------------------------

LEMMA SeqIn ==
    ASSUME NEW S, NEW s \in Seq(S), NEW T, \A n \in 1..Len(s) : s[n] \in T
    PROVE  s \in Seq(T)
OBVIOUS

\* TypeOK, for any number of requests, keys, buckets and ticks: the cache
\* stays within its size and holds each key once, with a bucket.
THEOREM LimiterTypes == Spec => []TypeOK
<1>1. Inv => TypeOK
  <2> SUFFICES ASSUME Inv PROVE TypeOK
    BY Zenon
  <2>1. /\ now \in 0..MaxTime /\ lru \in Seq(Keys) /\ Len(lru) <= Capacity /\ IsInjective(lru)
        /\ buckets \in Seq(Bucket)
    BY Zenon DEF Inv, Cache, Ledgers
  <2>2. \A k \in Keys : bucketOf[k] \in IF k \in Range(lru) THEN 1..Len(buckets) ELSE {None}
    BY <2>1 DEF Inv, Cache, BucketsOf
  <2>3. ASSUME NEW i \in 1..Len(buckets)
        PROVE  buckets[i] \in [key : Keys, tokens : 0..Full, last : 0..now, taken : Seq(0..now)]
    <3>1. buckets[i] \in Bucket /\ Spent(buckets[i]) /\ buckets[i].last <= now
      BY Zenon DEF Inv, Ledgers, Ledger
    <3>2. buckets[i].taken \in Seq(Nat) /\ buckets[i].last \in 0..now
      BY <2>1, <3>1, Constants DEF Bucket
    <3>3. ASSUME NEW n \in 1..Len(buckets[i].taken) PROVE buckets[i].taken[n] \in 0..now
      <4>1. buckets[i].taken[n] \in Nat
        BY <3>2
      <4>2. buckets[i].taken[n] <= buckets[i].last
        BY <3>1, Zenon DEF Spent
      <4> QED
        BY <2>1, <3>2, <4>1, <4>2, Constants
    <3>4. buckets[i].taken \in Seq(0..now)
      BY <3>2, <3>3, SeqIn, Zenon
    <3> QED
      BY <3>1, <3>2, <3>4, Zenon DEF Bucket
  <2>4. \A r \in Req : (held[r] = None) <=> (pc[r] = "idle")
    BY <2>1, LimitAssumption DEF Inv, Holds, BucketsOf
  <2>5. buckets \in Seq([key : Keys, tokens : 0..Full, last : 0..now, taken : Seq(0..now)])
    BY <2>1, <2>3, SeqIn, Zenon
  <2> QED
    BY <2>1, <2>2, <2>4, <2>5, Zenon DEF TypeOK
<1> QED
  BY <1>1, InitInv, StepInv, PTL DEF Spec

\* RateBound: whatever the interleaving of requests, evictions and refills,
\* tokenBucket gives a key no more than its burst and its rate, once per
\* bucket that limiterFor made for it.
THEOREM RatesHold == Spec => []RateBound
<1>1. Inv => RateBound
  BY RateBoundHolds, Zenon DEF Inv
<1> QED
  BY <1>1, InitInv, StepInv, PTL DEF Spec

\* RejectedForOwnTraffic: Allow refuses a key only when its own requests have
\* used, over a window that ends now, all but a fraction of a token.
THEOREM RejectionsAreEarned == Spec => RejectedForOwnTraffic
<1>1. ASSUME Inv, [Next]_vars, NEW r \in Req, pc[r] = "allow", pc'[r] = "idle"
      PROVE  Allow(r)
  <2>1. CASE \E q \in Req : Allow(q) \/ Tokens(q)
    BY <1>1, <2>1, Zenon DEF Allow, Tokens, Leave, Inv, Holds
  <2>2. CASE \E q \in Req, k \in Keys : LimiterFor(q, k)
    BY <1>1, <2>2, Zenon DEF LimiterFor, Inv, Holds
  <2>3. CASE Tick \/ UNCHANGED vars
    BY <1>1, <2>3, Zenon DEF Tick, vars
  <2> QED
    BY <1>1, <2>1, <2>2, <2>3, Zenon DEF Next
<1>2. Inv /\ [Next]_vars =>
         [\A r \in Req : pc[r] = "allow" /\ pc'[r] = "idle" =>
             \E a \in 0..now :
                 Full + Rate * (now - a) < Unit * (Admitted(key[r], a, now) + 1)]_vars
  BY <1>1, RejectedStep, Zenon
<1> QED
  BY <1>2, InitInv, StepInv, PTL DEF Spec, RejectedForOwnTraffic

============================================================================
