------------------------------ MODULE KeyAuth ------------------------------
(***************************************************************************)
(* API keys: the table api_keys (internal/auth/store.go and                *)
(* internal/db/keyrevoke.go), the in-memory verify cache                   *)
(* (internal/auth/cache.go), the middleware that authenticates requests    *)
(* against both (internal/auth/middleware.go), and the handlers that       *)
(* rotate and create keys (internal/httpapi/api.go).                       *)
(*                                                                         *)
(* Requests are processes; Get and Put of the cache are split where the    *)
(* code releases a lock, and the database is read and written in between.  *)
(* Time is a clock; a request is in flight for at most MaxLag ticks.       *)
(***************************************************************************)
EXTENDS Naturals

CONSTANTS
    Req,        \* concurrent requests to one gateway process
    Keys,       \* ids of rows of api_keys
    Tokens,     \* well formed bearer tokens
    TokenKey,   \* the key id in each token; the row's env is not compared
    BadTokens,  \* tokens whose secret does not match the hash of the row
    FirstKeys,  \* the rows present at the start
    Admins,     \* those of them with pg_role dbadmin
    None,       \* no row, no cache entry, no record, no expires_at, no time
    TTL,        \* AuthCacheTTL
    Overlap,    \* KeyRotateOverlap
    MaxLag,     \* bound on the time a request is in flight
    MaxTime     \* bound on the clock

ASSUME TokenAssumption == TokenKey \in [Tokens -> Keys] /\ BadTokens \subseteq Tokens
ASSUME KeyAssumption == FirstKeys \subseteq Keys /\ Admins \subseteq FirstKeys
ASSUME TimeAssumption ==
    /\ TTL \in Nat /\ Overlap \in Nat /\ MaxLag \in Nat /\ MaxTime \in Nat
    /\ None \notin Nat
\* The defaults are 24 h of overlap, 5 min of cache.
ASSUME OverlapAssumption == Overlap >= TTL + 2 * MaxLag

VARIABLES
    now,
    db,        \* api_keys: key -> row or None
    cache,     \* VerifyCache.lru: token -> entry or None
    flagged,   \* VerifyCache.revoked
    pc, tok, rec, start,  \* each request: step, token, KeyRecord, arrival
    evicted    \* history: keys rotated and then evicted by RevokeByDBID

vars == <<now, db, cache, flagged, pc, tok, rec, start, evicted>>
locals == <<tok, rec, start>>

Time == 0..MaxTime
\* revoked_at, expires_at and role are the columns the code decides on.
Row == [revoked : Time \cup {None}, expires : 0..(MaxTime + Overlap) \cup {None},
        role : {"dbadmin", "dbuser"}]
Entry == [rec : Row, at : Time]
ASSUME NoneAssumption == None \notin Row \cup Entry
Steps == {"idle", "lookup", "flag", "find", "verify", "add", "active",
          "serve", "evict"}

KeyOf(r) == TokenKey[tok[r]]
NewRow(role) == [revoked |-> None, expires |-> None, role |-> role]
Goto(r, step) == pc' = [pc EXCEPT ![r] = step] /\ UNCHANGED <<tok, rec, start>>
Keep(r, step, row) ==
    /\ pc' = [pc EXCEPT ![r] = step]
    /\ rec' = [rec EXCEPT ![r] = row]
    /\ UNCHANGED <<tok, start>>
\* The request is answered.
Done(r) ==
    /\ pc' = [pc EXCEPT ![r] = "idle"]
    /\ tok' = [tok EXCEPT ![r] = None]
    /\ rec' = [rec EXCEPT ![r] = None]
    /\ start' = [start EXCEPT ![r] = 0]

\* Seeded fault: expires_at is not looked at.
ActiveIfExpired(row, t) == row.revoked = None
Active(row, t) == row.revoked = None /\ (row.expires # None => row.expires > t)

Init ==
    /\ now = 0
    /\ db = [k \in Keys |-> IF k \notin FirstKeys THEN None
                            ELSE NewRow(IF k \in Admins THEN "dbadmin" ELSE "dbuser")]
    /\ cache = [t \in Tokens |-> None]
    /\ flagged = {}
    /\ pc = [r \in Req |-> "idle"]
    /\ tok = [r \in Req |-> None]
    /\ rec = [r \in Req |-> None]
    /\ start = [r \in Req |-> 0]
    /\ evicted = {}

---------------------------------------------------------------------------
(* Middleware.Authenticate and resolve *)

\* ParseBearer accepted the header.
Begin(r, t) ==
    /\ pc[r] = "idle"
    /\ pc' = [pc EXCEPT ![r] = "lookup"]
    /\ tok' = [tok EXCEPT ![r] = t]
    /\ start' = [start EXCEPT ![r] = now]
    /\ UNCHANGED <<now, db, cache, flagged, rec, evicted>>

\* Seeded fault: a hit renews verifiedAt.
LookupSliding(r) ==
    LET e == cache[tok[r]] IN
    /\ pc[r] = "lookup"
    /\ \/ /\ e # None => now - e.at > TTL
          /\ Goto(r, "find")
          /\ UNCHANGED cache
       \/ /\ e # None /\ now - e.at <= TTL
          /\ cache' = [cache EXCEPT ![tok[r]].at = now]
          /\ Keep(r, "flag", e.rec)
    /\ UNCHANGED <<now, db, flagged, evicted>>

\* VerifyCache.Get up to the TTL check.
Lookup(r) ==
    LET e == cache[tok[r]] IN
    /\ pc[r] = "lookup"
    /\ \/ /\ e = None
          /\ Goto(r, "find")
          /\ UNCHANGED cache
       \/ /\ e # None /\ now - e.at > TTL
          /\ cache' = [cache EXCEPT ![tok[r]] = None]
          /\ Goto(r, "find")
       \/ /\ e # None /\ now - e.at <= TTL
          /\ Keep(r, "flag", e.rec)
          /\ UNCHANGED cache
    /\ UNCHANGED <<now, db, flagged, evicted>>

\* The rest of Get: the entry counts as a miss when its row is flagged.
CheckFlag(r) ==
    /\ pc[r] = "flag"
    /\ \/ /\ KeyOf(r) \in flagged
          /\ cache' = [cache EXCEPT ![tok[r]] = None]
          /\ Keep(r, "find", None)
       \/ /\ KeyOf(r) \notin flagged
          /\ Goto(r, "active")
          /\ UNCHANGED cache
    /\ UNCHANGED <<now, db, flagged, evicted>>

\* Store.FindByKeyID; no row, or an error, ends the request.
Find(r) ==
    /\ pc[r] = "find"
    /\ \/ db[KeyOf(r)] # None /\ Keep(r, "verify", db[KeyOf(r)])
       \/ Done(r)
    /\ UNCHANGED <<now, db, cache, flagged, evicted>>

\* VerifySecret, argon2id over the hash that was read, fails.
Mismatch(r) ==
    /\ pc[r] = "verify"
    /\ tok[r] \in BadTokens
    /\ Done(r)
    /\ UNCHANGED <<now, db, cache, flagged, evicted>>

\* It succeeds; VerifyCache.Put, under the mutex, forgets that the row was
\* flagged.
PutUnflag(r) ==
    /\ pc[r] = "verify"
    /\ tok[r] \notin BadTokens
    /\ flagged' = flagged \ {KeyOf(r)}
    /\ Goto(r, "add")
    /\ UNCHANGED <<now, db, cache, evicted>>

\* VerifyCache.Put, after the mutex: the record that was read, dated now.
PutAdd(r) ==
    /\ pc[r] = "add"
    /\ cache' = [cache EXCEPT ![tok[r]] = [rec |-> rec[r], at |-> now]]
    /\ Goto(r, "active")
    /\ UNCHANGED <<now, db, flagged, evicted>>

\* KeyRecord.Active on the record, cached or fresh, then the handler.
CheckActive(r) ==
    /\ pc[r] = "active"
    /\ \/ Active(rec[r], now) /\ Goto(r, "serve")
       \/ ~Active(rec[r], now) /\ Done(r)
    /\ UNCHANGED <<now, db, cache, flagged, evicted>>

---------------------------------------------------------------------------
(* The handlers *)

\* Any handler that leaves the keys alone, or an error of Rotate or Create.
Serve(r) ==
    /\ pc[r] = "serve"
    /\ Done(r)
    /\ UNCHANGED <<now, db, cache, flagged, evicted>>

\* Store.Rotate, one transaction, begun at time began (Postgres' now()).
\* Nothing asks whether the old row is still active; it is given its overlap
\* unless it is revoked.  COMMIT may report an error although it took effect,
\* and then nothing is evicted.
Rotate(r, n, began) ==
    LET old == db[KeyOf(r)] IN
    /\ pc[r] = "serve"
    /\ db[n] = None
    /\ db' = [db EXCEPT ![n] = NewRow(old.role),
                        ![KeyOf(r)] = IF old.revoked # None THEN old
                                      ELSE [old EXCEPT !.expires = began + Overlap]]
    /\ Goto(r, "evict") \/ Done(r)
    /\ UNCHANGED <<now, cache, flagged, evicted>>

\* RevokeFromCache after a successful rotation.
RevokeByDBID(r) ==
    /\ pc[r] = "evict"
    /\ flagged' = flagged \cup {KeyOf(r)}
    /\ evicted' = evicted \cup {KeyOf(r)}
    /\ Done(r)
    /\ UNCHANGED <<now, db, cache>>

\* handleKeyCreate, for the role the middleware found in the record.
Create(r, n, role) ==
    /\ pc[r] = "serve"
    /\ rec[r].role = "dbadmin"
    /\ db[n] = None
    /\ db' = [db EXCEPT ![n] = NewRow(role)]
    /\ Done(r)
    /\ UNCHANGED <<now, cache, flagged, evicted>>

---------------------------------------------------------------------------
(* The environment *)

\* agentic-coop-db-server -revoke-key, a process of its own (or Store.Revoke,
\* which no handler calls): it cannot reach the cache of the gateway.
RevokeKey(k) ==
    /\ db[k] # None
    /\ db[k].revoked = None
    /\ db' = [db EXCEPT ![k].revoked = now]
    /\ UNCHANGED <<now, cache, flagged, pc, locals, evicted>>

\* The LRU drops an entry to stay within its size.
Evict(t) ==
    /\ cache[t] # None
    /\ cache' = [cache EXCEPT ![t] = None]
    /\ UNCHANGED <<now, db, flagged, pc, locals, evicted>>

\* The gateway restarts: its memory and the requests in flight are gone.
Restart ==
    /\ cache' = [t \in Tokens |-> None]
    /\ flagged' = {}
    /\ pc' = [r \in Req |-> "idle"]
    /\ tok' = [r \in Req |-> None]
    /\ rec' = [r \in Req |-> None]
    /\ start' = [r \in Req |-> 0]
    /\ UNCHANGED <<now, db, evicted>>

Tick ==
    /\ now < MaxTime
    /\ \A r \in Req : pc[r] # "idle" => now < start[r] + MaxLag
    /\ now' = now + 1
    /\ UNCHANGED <<db, cache, flagged, pc, locals, evicted>>

Authenticate(r) ==
    \/ \E t \in Tokens : Begin(r, t)
    \/ Lookup(r) \/ CheckFlag(r) \/ Find(r) \/ Mismatch(r) \/ PutUnflag(r)
    \/ PutAdd(r) \/ CheckActive(r)

Handle(r) ==
    \/ Serve(r) \/ RevokeByDBID(r)
    \/ \E n \in Keys, began \in start[r]..now : Rotate(r, n, began)
    \/ \E n \in Keys, role \in {"dbadmin", "dbuser"} : Create(r, n, role)

Next ==
    \/ \E r \in Req : Authenticate(r) \/ Handle(r)
    \/ \E k \in Keys : RevokeKey(k)
    \/ \E t \in Tokens : Evict(t)
    \/ Restart
    \/ Tick

Spec == Init /\ [][Next]_vars

---------------------------------------------------------------------------
(* Properties *)

\* The shape of the table, of the cache and of each request's record.
TypeOK ==
    /\ now \in Time
    /\ db \in [Keys -> Row \cup {None}]
    /\ cache \in [Tokens -> Entry \cup {None}]
    /\ flagged \subseteq Keys
    /\ pc \in [Req -> Steps]
    /\ tok \in [Req -> Tokens \cup {None}]
    /\ \A r \in Req : rec[r] \in IF pc[r] \in {"idle", "lookup", "find"} THEN {None} ELSE Row
    /\ DOMAIN rec = Req
    /\ start \in [Req -> Time]
    /\ evicted \subseteq Keys

\* The bound on how long a change of a row goes unnoticed: a record read just
\* before it is cached MaxLag later, hit TTL after that, and served MaxLag on.
Grace == TTL + 2 * MaxLag

\* A revoked key is refused from Grace after its revocation, although nothing
\* tells the cache: the TTL counts from Put, not from the last hit.
RevocationTakesEffect ==
    \A r \in Req :
        pc[r] \in {"serve", "evict"} /\ db[KeyOf(r)].revoked # None
            => now <= db[KeyOf(r)].revoked + Grace

\* A rotated key is refused once its overlap is over, but for a request in
\* flight and for two rotations of it that overlapped: a cached record without
\* expires_at does not outlive the overlap.
ExpiryTakesEffect ==
    \A r \in Req :
        pc[r] = "serve" /\ db[KeyOf(r)].expires # None
            => now <= db[KeyOf(r)].expires + 2 * MaxLag

\* cache.go:19-22: eviction makes a rotation "take effect immediately rather
\* than waiting for the LRU TTL": "the next cache lookup for any token bound to
\* that row falls through to the database".  So, between requests, no live
\* entry of an evicted key holds a record from before the rotation.
RotationIsImmediate ==
    \A t \in Tokens :
        /\ TokenKey[t] \in evicted \ flagged
        /\ \A r \in Req : pc[r] = "idle"
        /\ cache[t] # None
        /\ now - cache[t].at <= TTL
        => cache[t].rec.expires # None

============================================================================
