--------------------------- MODULE KeyAuthProofs ---------------------------
(***************************************************************************)
(* RevocationTakesEffect and ExpiryTakesEffect of KeyAuth, for any number  *)
(* of requests, keys and tokens, and any TTL, overlap and delay.           *)
(*                                                                         *)
(* Everywhere but in the table a row is a copy: in the cache, and in the   *)
(* request that read it or found it there.  The argument bounds the age of *)
(* every copy (Fresh): it was the row at time t, up to a lag.  The lag is  *)
(* 0 for a request that read the table, with t its arrival; MaxLag for a   *)
(* cache entry, with t its date; MaxLag + TTL for a request that took the  *)
(* entry.  A request lives MaxLag more, which makes Grace.                 *)
(***************************************************************************)
EXTENDS KeyAuth, TLAPS

\* Row copy is not older than time t by more than lag: if row has since been
\* revoked, or has since got an expiry, that was at t - lag or later.  A row
\* rotated twice may expire earlier than the copy says, by MaxLag.
Fresh(copy, row, t, lag, n) ==
    /\ copy \in Row /\ row \in Row
    /\ copy.revoked = None /\ row.revoked # None => t <= row.revoked + lag
    /\ copy.expires = None /\ row.expires # None
         => t + Overlap <= row.expires + MaxLag + lag
    /\ copy.expires # None
         => row.expires # None /\ copy.expires <= row.expires + MaxLag /\ copy.expires <= n + Overlap

Early == {"idle", "lookup", "find"}

\* A request at a step, with its token, record and arrival, at time n.
ReqOk(step, token, copy, st, table, n) ==
    /\ step \in Steps /\ token \in Tokens \cup {None} /\ st \in Time
    /\ copy \in IF step \in Early THEN {None} ELSE Row
    /\ step # "idle" => token \in Tokens /\ st <= n /\ n <= st + MaxLag
    /\ step \in {"verify", "add"} => Fresh(copy, table[TokenKey[token]], st, 0, n)
    /\ step \in {"flag", "active", "serve", "evict"}
         => Fresh(copy, table[TokenKey[token]], st, MaxLag + TTL, n)
    /\ step \in {"serve", "evict"}
         => copy.revoked = None /\ (copy.expires # None => st < copy.expires)

EntryOk(e, row, n) ==
    e # None => e \in Entry /\ e.at <= n /\ Fresh(e.rec, row, e.at, MaxLag, n)

\* No expiry is set further ahead than the overlap.
RowOk(row, n) ==
    /\ row \in Row \cup {None}
    /\ row # None /\ row.expires # None => row.expires <= n + Overlap

Domains ==
    /\ DOMAIN db = Keys /\ DOMAIN cache = Tokens
    /\ db = [k \in Keys |-> db[k]] /\ cache = [t \in Tokens |-> cache[t]]
    /\ pc = [r \in Req |-> pc[r]] /\ tok = [r \in Req |-> tok[r]]
    /\ rec = [r \in Req |-> rec[r]] /\ start = [r \in Req |-> start[r]]
    /\ flagged \subseteq Keys /\ evicted \subseteq Keys

Inv ==
    /\ Domains
    /\ now \in Time
    /\ \A k \in Keys : RowOk(db[k], now)
    /\ \A t \in Tokens : EntryOk(cache[t], db[TokenKey[t]], now)
    /\ \A r \in Req : ReqOk(pc[r], tok[r], rec[r], start[r], db, now)

---------------------------------------------------------------------------
(* Copies *)

\* What one step may do to a row: Create, RevokeKey, and Rotate by a
\* transaction that began at most MaxLag ago.
Grows(old, new, n) ==
    \/ new = old
    \/ old = None /\ new \in Row /\ new.expires = None
    \/ old \in Row /\ old.revoked = None /\ new = [old EXCEPT !.revoked = n]
    \/ /\ old \in Row
       /\ \E b \in Time : b <= n /\ n <= b + MaxLag /\ new = [old EXCEPT !.expires = b + Overlap]

\* A copy of a row that changes stays fresh.
LEMMA FreshKept ==
  ASSUME NEW copy, NEW old, NEW new, NEW t \in Time, NEW lag \in Nat, NEW n \in Time,
         Fresh(copy, old, t, lag, n), Grows(old, new, n), t <= n
  PROVE  Fresh(copy, new, t, lag, n)
  <1> USE TimeAssumption DEF Time
  <1>1. copy \in Row /\ old \in Row
    BY Zenon DEF Fresh
  <1>2. CASE new = old
    BY <1>2, Zenon
  <1>3. CASE old.revoked = None /\ new = [old EXCEPT !.revoked = n]
    <2>1. new \in Row /\ new.revoked = n /\ new.expires = old.expires
      BY <1>1, <1>3, Zenon DEF Row
    <2> QED
      BY <1>1, <2>1 DEF Fresh, Row
  <1>4. ASSUME NEW b \in Time, b <= n, n <= b + MaxLag, new = [old EXCEPT !.expires = b + Overlap]
        PROVE  Fresh(copy, new, t, lag, n)
    <2>1. new \in Row /\ new.revoked = old.revoked /\ new.expires = b + Overlap /\ new.expires # None
      BY <1>1, <1>4 DEF Row
    <2> QED
      BY <1>1, <1>4, <2>1 DEF Fresh, Row
  <1> QED
    BY <1>1, <1>2, <1>3, <1>4, NoneAssumption, Zenon DEF Grows

\* A copy that is fresh at t is fresh at a later date with a greater lag, and
\* at any later time.
LEMMA FreshLater ==
  ASSUME NEW copy, NEW row, NEW t \in Time, NEW u \in Time, NEW lag \in Nat, NEW more \in Nat,
         NEW n \in Time, NEW m \in Time, n <= m,
         Fresh(copy, row, t, lag, n), u <= t + more
  PROVE  Fresh(copy, row, u, lag + more, m)
  BY TimeAssumption DEF Fresh, Row, Time

\* A row just read is its own copy.
LEMMA FreshSelf ==
  ASSUME NEW row \in Row, NEW t \in Time, NEW n \in Time, RowOk(row, n), t <= n
  PROVE  Fresh(row, row, t, 0, n)
  BY TimeAssumption, NoneAssumption DEF Fresh, Row, RowOk, Time

---------------------------------------------------------------------------
(* What a change of the table, or of the time, leaves good *)

LEMMA ReqKept ==
  ASSUME NEW D, NEW E, NEW n \in Time, \A k \in Keys : Grows(D[k], E[k], n),
         NEW s, NEW tk, NEW c, NEW st, ReqOk(s, tk, c, st, D, n)
  PROVE  ReqOk(s, tk, c, st, E, n)
  <1>1. CASE s = "idle"
    BY <1>1, Zenon DEF ReqOk
  <1>2. CASE s # "idle"
    <2> DEFINE k == TokenKey[tk]
    <2>1. k \in Keys /\ st \in Time /\ st <= n
      BY <1>2, TokenAssumption, Zenon DEF ReqOk
    <2>2. Grows(D[k], E[k], n)
      BY <2>1, Zenon
    <2>3. \A lag \in Nat : Fresh(c, D[k], st, lag, n) => Fresh(c, E[k], st, lag, n)
      BY <2>1, <2>2, FreshKept, Zenon
    <2>4. 0 \in Nat /\ MaxLag + TTL \in Nat
      BY TimeAssumption
    <2> HIDE DEF k
    <2> QED
      BY <1>2, <2>1, <2>3, <2>4, Zenon DEF ReqOk, k
  <1> QED
    BY <1>1, <1>2, Zenon

LEMMA EntryKept ==
  ASSUME NEW old, NEW new, NEW n \in Time, Grows(old, new, n), NEW e, EntryOk(e, old, n)
  PROVE  EntryOk(e, new, n)
  BY FreshKept, TimeAssumption, Zenon DEF EntryOk, Entry

LEMMA RowKept ==
  ASSUME NEW old, NEW new, NEW n \in Time, Grows(old, new, n), RowOk(old, n)
  PROVE  RowOk(new, n)
  <1> USE TimeAssumption DEF Time
  <1>1. CASE new = old
    BY <1>1, Zenon
  <1>2. CASE old = None /\ new \in Row /\ new.expires = None
    BY <1>2, Zenon DEF RowOk
  <1>3. CASE old \in Row /\ new = [old EXCEPT !.revoked = n]
    BY <1>3, NoneAssumption, Zenon DEF RowOk, Row
  <1>4. ASSUME old \in Row, NEW b \in Time, b <= n, new = [old EXCEPT !.expires = b + Overlap]
        PROVE  RowOk(new, n)
    BY <1>4 DEF RowOk, Row
  <1> QED
    BY <1>1, <1>2, <1>3, <1>4, Zenon DEF Grows

---------------------------------------------------------------------------
(* The steps *)

LEMMA InitInv == Init => Inv
  <1> SUFFICES ASSUME Init PROVE Inv
    BY Zenon
  <1>1. Domains
    BY Zenon DEF Init, Domains
  <1>2. now \in Time
    BY TimeAssumption DEF Init, Time
  <1>3. ASSUME NEW k \in Keys PROVE RowOk(db[k], now)
    <2>1. \A role \in {"dbadmin", "dbuser"} : NewRow(role) \in Row /\ NewRow(role).expires = None
      BY Zenon DEF NewRow, Row
    <2> QED
      BY <2>1, Zenon DEF Init, RowOk
  <1>4. ASSUME NEW t \in Tokens PROVE EntryOk(cache[t], db[TokenKey[t]], now)
    BY Zenon DEF Init, EntryOk
  <1>5. ASSUME NEW r \in Req PROVE ReqOk(pc[r], tok[r], rec[r], start[r], db, now)
    BY TimeAssumption DEF Init, ReqOk, Steps, Early, Time
  <1> QED
    BY <1>1, <1>2, <1>3, <1>4, <1>5, Zenon DEF Inv

\* A step of request r, that may change rows and cache entries.
LEMMA RequestInv ==
  ASSUME Inv, NEW r \in Req, Domains', now' = now,
         \A q \in Req : q # r => /\ pc'[q] = pc[q] /\ tok'[q] = tok[q]
                                 /\ rec'[q] = rec[q] /\ start'[q] = start[q],
         \A k \in Keys : Grows(db[k], db'[k], now),
         \A t \in Tokens : cache'[t] = cache[t] \/ EntryOk(cache'[t], db'[TokenKey[t]], now),
         ReqOk(pc'[r], tok'[r], rec'[r], start'[r], db', now)
  PROVE  Inv'
  <1>1. now \in Time
    BY Zenon DEF Inv
  <1>2. ASSUME NEW k \in Keys PROVE RowOk(db'[k], now)
    BY <1>1, RowKept, Zenon DEF Inv
  <1>3. ASSUME NEW t \in Tokens PROVE EntryOk(cache'[t], db'[TokenKey[t]], now)
    <2>1. TokenKey[t] \in Keys
      BY TokenAssumption, Zenon
    <2>2. EntryOk(cache[t], db[TokenKey[t]], now) /\ Grows(db[TokenKey[t]], db'[TokenKey[t]], now)
      BY <2>1, Zenon DEF Inv
    <2>3. EntryOk(cache[t], db'[TokenKey[t]], now)
      BY <1>1, <2>2, EntryKept, Zenon
    <2> QED
      BY <2>3, Zenon
  <1>4. ASSUME NEW q \in Req, q # r
        PROVE  ReqOk(pc'[q], tok'[q], rec'[q], start'[q], db', now)
    <2>1. ReqOk(pc[q], tok[q], rec[q], start[q], db, now)
      BY Zenon DEF Inv
    <2>2. ReqOk(pc[q], tok[q], rec[q], start[q], db', now)
      BY <1>1, <2>1, ReqKept, Zenon
    <2> QED
      BY <1>4, <2>2, Zenon
  <1> QED
    BY <1>1, <1>2, <1>3, <1>4, Zenon DEF Inv

\* What Inv says of request r.
LEMMA Mine ==
  ASSUME Inv, NEW r \in Req
  PROVE  /\ ReqOk(pc[r], tok[r], rec[r], start[r], db, now)
         /\ pc[r] # "idle" => tok[r] \in Tokens /\ KeyOf(r) \in Keys /\ KeyOf(r) = TokenKey[tok[r]]
         /\ now \in Time /\ start[r] \in Time
  BY TokenAssumption, Zenon DEF Inv, ReqOk, KeyOf

\* Done: an idle request has no obligations.
LEMMA IdleOk ==
  ASSUME NEW D, NEW n PROVE ReqOk("idle", None, None, 0, D, n)
  BY TimeAssumption DEF ReqOk, Steps, Early, Time

\* The request goes on to step l with the record c, or is answered.
LEMMA MoveInv ==
  ASSUME Inv, NEW r \in Req, NEW l, NEW c, Keep(r, l, c) \/ Done(r),
         Keep(r, l, c) => ReqOk(l, tok[r], c, start[r], db', now),
         now' = now, db' = [k \in Keys |-> db'[k]], cache' = [t \in Tokens |-> cache'[t]],
         \A k \in Keys : Grows(db[k], db'[k], now),
         \A t \in Tokens : cache'[t] = cache[t] \/ EntryOk(cache'[t], db'[TokenKey[t]], now),
         flagged' \subseteq Keys, evicted' \subseteq Keys
  PROVE  Inv'
  <1>1. Domains'
    BY Zenon DEF Inv, Domains, Keep, Done
  <1>2. \A q \in Req : q # r => /\ pc'[q] = pc[q] /\ tok'[q] = tok[q]
                                 /\ rec'[q] = rec[q] /\ start'[q] = start[q]
    BY Zenon DEF Inv, Domains, Keep, Done
  <1>3. ReqOk(pc'[r], tok'[r], rec'[r], start'[r], db', now)
    <2>1. CASE Keep(r, l, c)
      <3>1. pc'[r] = l /\ tok'[r] = tok[r] /\ rec'[r] = c /\ start'[r] = start[r]
        BY <2>1, Zenon DEF Inv, Domains, Keep
      <3> QED
        BY <2>1, <3>1, Zenon
    <2>2. CASE Done(r)
      <3>1. pc'[r] = "idle" /\ tok'[r] = None /\ rec'[r] = None /\ start'[r] = 0
        BY <2>2, Zenon DEF Inv, Domains, Done
      <3> QED
        BY <3>1, IdleOk, Zenon
    <2> QED
      BY <2>1, <2>2, Zenon
  <1> QED
    BY <1>1, <1>2, <1>3, RequestInv, Zenon

\* The same when neither the table nor the cache change, but for entries that
\* are dropped.
LEMMA PlainInv ==
  ASSUME Inv, NEW r \in Req, NEW l, NEW c, Keep(r, l, c) \/ Done(r),
         Keep(r, l, c) => ReqOk(l, tok[r], c, start[r], db, now),
         UNCHANGED <<now, db>>,
         cache' = cache \/ \E t \in Tokens : cache' = [cache EXCEPT ![t] = None],
         flagged' \subseteq Keys, evicted' \subseteq Keys
  PROVE  Inv'
  <1>1. \A k \in Keys : Grows(db[k], db'[k], now)
    BY Zenon DEF Grows
  <1>2. /\ cache' = [t \in Tokens |-> cache'[t]]
        /\ \A t \in Tokens : cache'[t] = cache[t] \/ EntryOk(cache'[t], db'[TokenKey[t]], now)
    BY DEF Inv, Domains, EntryOk
  <1>3. db' = [k \in Keys |-> db'[k]]
    BY Zenon DEF Inv, Domains
  <1> QED
    BY <1>1, <1>2, <1>3, MoveInv, Zenon

LEMMA GotoKeeps ==
  ASSUME Inv, NEW r \in Req, NEW l, Goto(r, l)
  PROVE  Keep(r, l, rec[r])
  BY Zenon DEF Inv, Domains, Goto, Keep

\* The request is answered and nothing else happens.
LEMMA AnswerInv ==
  ASSUME Inv, NEW r \in Req, Done(r),
         UNCHANGED <<now, db, cache>>, flagged' \subseteq Keys, evicted' \subseteq Keys
  PROVE  Inv'
  <1>1. ~Keep(r, "lookup", None)
    BY Zenon DEF Keep, Done, Inv, Domains
  <1> QED
    BY <1>1, PlainInv, Zenon

LEMMA BeginInv == ASSUME Inv, NEW r \in Req, NEW t \in Tokens, Begin(r, t) PROVE Inv'
  <1>1. ReqOk("idle", tok[r], rec[r], start[r], db, now) /\ now \in Time
    BY Mine, Zenon DEF Begin
  <1>2. ReqOk("lookup", t, rec[r], now, db, now)
    BY <1>1, TimeAssumption DEF ReqOk, Steps, Early, Time
  <1>3. Domains'
    BY Zenon DEF Inv, Domains, Begin
  <1>4. /\ pc'[r] = "lookup" /\ tok'[r] = t /\ rec'[r] = rec[r] /\ start'[r] = now
        /\ \A q \in Req : q # r => /\ pc'[q] = pc[q] /\ tok'[q] = tok[q]
                                   /\ rec'[q] = rec[q] /\ start'[q] = start[q]
    BY Zenon DEF Inv, Domains, Begin
  <1>5. \A k \in Keys : Grows(db[k], db'[k], now)
    BY Zenon DEF Grows, Begin
  <1>6. UNCHANGED <<now, db, cache>>
    BY Zenon DEF Begin
  <1> QED
    BY <1>2, <1>3, <1>4, <1>5, <1>6, RequestInv, Zenon

LEMMA LookupInv == ASSUME Inv, NEW r \in Req, Lookup(r) PROVE Inv'
  <1> DEFINE e == cache[tok[r]]
  <1>1. /\ ReqOk("lookup", tok[r], rec[r], start[r], db, now) /\ now \in Time
        /\ tok[r] \in Tokens /\ UNCHANGED <<now, db, flagged, evicted>>
        /\ flagged \subseteq Keys /\ evicted \subseteq Keys
    BY Mine, Zenon DEF Lookup, Inv, Domains
  <1>2. CASE Goto(r, "find") /\ (cache' = cache \/ cache' = [cache EXCEPT ![tok[r]] = None])
    <2>1. ReqOk("find", tok[r], rec[r], start[r], db, now)
      BY <1>1, Zenon DEF ReqOk, Steps, Early
    <2> QED
      BY <1>1, <1>2, <2>1, GotoKeeps, PlainInv, Zenon
  <1>3. CASE e # None /\ now - e.at <= TTL /\ Keep(r, "flag", e.rec) /\ UNCHANGED cache
    <2>1. /\ e \in Entry /\ e.at <= now
          /\ Fresh(e.rec, db[TokenKey[tok[r]]], e.at, MaxLag, now)
      BY <1>1, <1>3, Zenon DEF Inv, EntryOk
    <2>2. start[r] \in Time /\ start[r] <= now
      BY <1>1, Zenon DEF ReqOk
    <2>3. start[r] <= e.at + TTL /\ e.at \in Time
      BY <1>1, <1>3, <2>1, <2>2, TimeAssumption DEF Entry, Time
    <2>4. Fresh(e.rec, db[TokenKey[tok[r]]], start[r], MaxLag + TTL, now)
      <3>1. MaxLag \in Nat /\ TTL \in Nat /\ now <= now
        BY <1>1, TimeAssumption DEF Time
      <3> QED
        BY <1>1, <2>1, <2>2, <2>3, <3>1, FreshLater, Zenon
    <2>5. ReqOk("flag", tok[r], e.rec, start[r], db, now)
      BY <1>1, <2>4, Zenon DEF ReqOk, Steps, Early, Fresh
    <2> HIDE DEF e
    <2> QED
      BY <1>1, <1>3, <2>5, PlainInv, Zenon
  <1> QED
    BY <1>2, <1>3, Zenon DEF Lookup

LEMMA CheckFlagInv == ASSUME Inv, NEW r \in Req, CheckFlag(r) PROVE Inv'
  <1>1. /\ ReqOk("flag", tok[r], rec[r], start[r], db, now)
        /\ tok[r] \in Tokens /\ UNCHANGED <<now, db, flagged, evicted>>
        /\ flagged \subseteq Keys /\ evicted \subseteq Keys
    BY Mine, Zenon DEF CheckFlag, Inv, Domains
  <1>2. CASE cache' = [cache EXCEPT ![tok[r]] = None] /\ Keep(r, "find", None)
    <2>1. ReqOk("find", tok[r], None, start[r], db, now)
      BY <1>1, Zenon DEF ReqOk, Steps, Early
    <2> QED
      BY <1>1, <1>2, <2>1, PlainInv, Zenon
  <1>3. CASE Goto(r, "active") /\ UNCHANGED cache
    <2>1. ReqOk("active", tok[r], rec[r], start[r], db, now)
      BY <1>1, Zenon DEF ReqOk, Steps, Early
    <2> QED
      BY <1>1, <1>3, <2>1, GotoKeeps, PlainInv, Zenon
  <1> QED
    BY <1>2, <1>3, Zenon DEF CheckFlag

\* FindByKeyID reads the row, and the request has arrived before.
LEMMA FindInv == ASSUME Inv, NEW r \in Req, Find(r) PROVE Inv'
  <1> DEFINE row == db[KeyOf(r)]
  <1>1. /\ ReqOk("find", tok[r], rec[r], start[r], db, now) /\ KeyOf(r) = TokenKey[tok[r]]
        /\ KeyOf(r) \in Keys /\ UNCHANGED <<now, db, cache, flagged, evicted>>
        /\ flagged \subseteq Keys /\ evicted \subseteq Keys /\ now \in Time /\ start[r] \in Time
    BY Mine, Zenon DEF Find, Inv, Domains
  <1>2. CASE row # None /\ Keep(r, "verify", row)
    <2>1. RowOk(row, now)
      BY <1>1, Zenon DEF Inv
    <2>2. row \in Row /\ start[r] <= now
      BY <1>1, <1>2, <2>1, Zenon DEF RowOk, ReqOk
    <2>3. Fresh(row, row, start[r], 0, now)
      BY <1>1, <2>1, <2>2, FreshSelf, Zenon
    <2>4. ReqOk("verify", tok[r], row, start[r], db, now)
      BY <1>1, <2>2, <2>3, Zenon DEF ReqOk, Steps, Early
    <2> HIDE DEF row
    <2> QED
      BY <1>1, <1>2, <2>4, PlainInv, Zenon
  <1>3. CASE Done(r)
    BY <1>1, <1>3, AnswerInv, Zenon
  <1> QED
    BY <1>2, <1>3, Zenon DEF Find

\* VerifyCache.Put dates an entry now; the row was read since the arrival.
LEMMA PutAddInv == ASSUME Inv, NEW r \in Req, PutAdd(r) PROVE Inv'
  <1> DEFINE e == [rec |-> rec[r], at |-> now]
  <1>1. /\ ReqOk("add", tok[r], rec[r], start[r], db, now) /\ tok[r] \in Tokens
        /\ Goto(r, "active") /\ cache' = [cache EXCEPT ![tok[r]] = e]
        /\ UNCHANGED <<now, db, flagged, evicted>> /\ db = [k \in Keys |-> db[k]]
        /\ flagged \subseteq Keys /\ evicted \subseteq Keys /\ now \in Time /\ start[r] \in Time
    BY Mine, Zenon DEF PutAdd, Inv, Domains
  <1>2. Fresh(rec[r], db[TokenKey[tok[r]]], start[r], 0, now) /\ now <= start[r] + MaxLag
    BY <1>1, Zenon DEF ReqOk
  <1>3. /\ 0 \in Nat /\ MaxLag \in Nat /\ MaxLag + TTL \in Nat /\ now <= now
        /\ start[r] <= start[r] + (MaxLag + TTL)
        /\ 0 + MaxLag = MaxLag /\ 0 + (MaxLag + TTL) = MaxLag + TTL
    BY <1>1, TimeAssumption DEF Time
  <1>4. Fresh(rec[r], db[TokenKey[tok[r]]], now, 0 + MaxLag, now)
    BY ONLY <1>1, <1>2, <1>3, FreshLater, Zenon
  <1>5. Fresh(rec[r], db[TokenKey[tok[r]]], start[r], 0 + (MaxLag + TTL), now)
    BY ONLY <1>1, <1>2, <1>3, FreshLater, Zenon
  <1>6. EntryOk(e, db[TokenKey[tok[r]]], now)
    BY <1>1, <1>3, <1>4, Zenon DEF EntryOk, Entry, Fresh
  <1>7. ReqOk("active", tok[r], rec[r], start[r], db, now)
    BY <1>1, <1>3, <1>5, Zenon DEF ReqOk, Steps, Early
  <1>8. \A k \in Keys : Grows(db[k], db'[k], now)
    BY <1>1, Zenon DEF Grows
  <1> HIDE DEF e
  <1>9. /\ cache' = [t \in Tokens |-> cache'[t]]
        /\ \A t \in Tokens : cache'[t] = cache[t] \/ EntryOk(cache'[t], db'[TokenKey[t]], now)
    BY <1>1, <1>6, Zenon DEF Inv, Domains
  <1> QED
    BY <1>1, <1>7, <1>8, <1>9, GotoKeeps, MoveInv, Zenon

LEMMA PutUnflagInv == ASSUME Inv, NEW r \in Req, PutUnflag(r) PROVE Inv'
  <1>1. /\ ReqOk("verify", tok[r], rec[r], start[r], db, now) /\ Goto(r, "add")
        /\ UNCHANGED <<now, db, cache, evicted>> /\ flagged' \subseteq Keys /\ evicted \subseteq Keys
    BY Mine, Zenon DEF PutUnflag, Inv, Domains
  <1>2. ReqOk("add", tok[r], rec[r], start[r], db, now)
    BY <1>1, Zenon DEF ReqOk, Steps, Early
  <1> QED
    BY <1>1, <1>2, GotoKeeps, PlainInv, Zenon

LEMMA CheckActiveInv == ASSUME Inv, NEW r \in Req, CheckActive(r) PROVE Inv'
  <1>1. /\ ReqOk("active", tok[r], rec[r], start[r], db, now) /\ now \in Time /\ start[r] \in Time
        /\ UNCHANGED <<now, db, cache, flagged, evicted>>
        /\ flagged \subseteq Keys /\ evicted \subseteq Keys
    BY Mine, Zenon DEF CheckActive, Inv, Domains
  <1>2. CASE Active(rec[r], now) /\ Goto(r, "serve")
    <2>1. rec[r] \in Row /\ start[r] <= now
      BY <1>1, Zenon DEF ReqOk, Early
    <2>2. rec[r].revoked = None /\ (rec[r].expires # None => start[r] < rec[r].expires)
      BY <1>1, <1>2, <2>1, TimeAssumption DEF Active, Row, Time
    <2>3. ReqOk("serve", tok[r], rec[r], start[r], db, now)
      BY <1>1, <2>2, Zenon DEF ReqOk, Steps, Early
    <2> QED
      BY <1>1, <1>2, <2>3, GotoKeeps, PlainInv, Zenon
  <1>3. CASE Done(r)
    BY <1>1, <1>3, AnswerInv, Zenon
  <1> QED
    BY <1>2, <1>3, Zenon DEF CheckActive

\* Rotate changes the row of the request's key and adds one.
LEMMA RotateInv ==
  ASSUME Inv, NEW r \in Req, NEW n \in Keys, NEW began \in start[r]..now, Rotate(r, n, began)
  PROVE  Inv'
  <1> DEFINE old == db[KeyOf(r)]
             new == IF old.revoked # None THEN old ELSE [old EXCEPT !.expires = began + Overlap]
  <1>1. /\ ReqOk("serve", tok[r], rec[r], start[r], db, now) /\ now \in Time /\ start[r] \in Time
        /\ KeyOf(r) \in Keys /\ KeyOf(r) = TokenKey[tok[r]]
        /\ UNCHANGED <<now, cache, flagged, evicted>> /\ cache = [t \in Tokens |-> cache[t]]
        /\ flagged \subseteq Keys /\ evicted \subseteq Keys /\ db[n] = None
    BY Mine, Zenon DEF Rotate, Inv, Domains
  <1>2. old \in Row /\ n # KeyOf(r) /\ now <= start[r] + MaxLag
    BY <1>1, NoneAssumption, Zenon DEF ReqOk, Fresh
  <1>3. db' = [db EXCEPT ![n] = NewRow(old.role), ![KeyOf(r)] = new]
    BY SMTT(30), Zenon DEF Rotate
  <1>4. /\ db' = [k \in Keys |-> db'[k]]
        /\ db'[n] = NewRow(old.role) /\ db'[KeyOf(r)] = new
        /\ \A k \in Keys : k # n /\ k # KeyOf(r) => db'[k] = db[k]
    BY <1>1, <1>2, <1>3, ZenonT(30) DEF Inv, Domains
  <1>5. Grows(db[n], db'[n], now)
    BY <1>1, <1>2, <1>4 DEF Grows, NewRow, Row
  <1>6. Grows(old, new, now)
    <2>1. began \in Time /\ began <= now /\ now <= began + MaxLag
      BY <1>1, <1>2, TimeAssumption DEF Time
    <2> QED
      BY <1>2, <2>1, Zenon DEF Grows
  <1>7. \A k \in Keys : Grows(db[k], db'[k], now)
    BY <1>4, <1>5, <1>6, ZenonT(30) DEF Grows
  <1> HIDE DEF old, new
  <1>8. ReqOk("serve", tok[r], rec[r], start[r], db', now)
    BY <1>1, <1>7, ReqKept, Zenon
  <1>9. ReqOk("evict", tok[r], rec[r], start[r], db', now)
    BY <1>8, Zenon DEF ReqOk, Steps, Early
  <1>10. Keep(r, "evict", rec[r]) \/ Done(r)
    BY GotoKeeps, Zenon DEF Rotate
  <1> QED
    BY <1>1, <1>4, <1>7, <1>9, <1>10, MoveInv, Zenon

LEMMA RevokeByDBIDInv == ASSUME Inv, NEW r \in Req, RevokeByDBID(r) PROVE Inv'
  <1>1. /\ Done(r) /\ UNCHANGED <<now, db, cache>> /\ KeyOf(r) \in Keys
        /\ flagged' \subseteq Keys /\ evicted' \subseteq Keys
    BY Mine, Zenon DEF RevokeByDBID, Inv, Domains
  <1> QED
    BY <1>1, AnswerInv, Zenon

LEMMA CreateInv ==
  ASSUME Inv, NEW r \in Req, NEW n \in Keys, NEW role \in {"dbadmin", "dbuser"}, Create(r, n, role)
  PROVE  Inv'
  <1>1. /\ Done(r) /\ UNCHANGED <<now, cache, flagged, evicted>> /\ db[n] = None
        /\ db' = [db EXCEPT ![n] = NewRow(role)] /\ cache = [t \in Tokens |-> cache[t]]
        /\ flagged \subseteq Keys /\ evicted \subseteq Keys
    BY Zenon DEF Create, Inv, Domains
  <1>2. NewRow(role) \in Row /\ NewRow(role).expires = None
    BY Zenon DEF NewRow, Row
  <1>3. db' = [k \in Keys |-> db'[k]] /\ \A k \in Keys : Grows(db[k], db'[k], now)
    BY <1>1, <1>2, Zenon DEF Grows, Inv, Domains
  <1>4. ~Keep(r, "lookup", None)
    BY <1>1, Zenon DEF Keep, Done, Inv, Domains
  <1> QED
    BY <1>1, <1>3, <1>4, MoveInv, Zenon

LEMMA RevokeKeyInv == ASSUME Inv, NEW k \in Keys, RevokeKey(k) PROVE Inv'
  <1>1. /\ UNCHANGED <<now, cache, flagged, pc, tok, rec, start, evicted>>
        /\ db' = [db EXCEPT ![k].revoked = now] /\ db[k] # None /\ db[k].revoked = None
        /\ now \in Time
    BY Zenon DEF RevokeKey, locals, Inv
  <1>2. db[k] \in Row
    BY <1>1, Zenon DEF Inv, RowOk
  <1>3. Domains'
    BY <1>1, Zenon DEF Inv, Domains
  <1>4. \A x \in Keys : Grows(db[x], db'[x], now)
    BY <1>1, <1>2, Zenon DEF Grows, Inv, Domains
  <1>5. ASSUME NEW x \in Keys PROVE RowOk(db'[x], now)
    BY <1>1, <1>4, RowKept, Zenon DEF Inv
  <1>6. ASSUME NEW t \in Tokens PROVE EntryOk(cache[t], db'[TokenKey[t]], now)
    <2>1. TokenKey[t] \in Keys
      BY TokenAssumption, Zenon
    <2> QED
      BY <1>1, <1>4, <2>1, EntryKept, Zenon DEF Inv
  <1>7. ASSUME NEW r \in Req PROVE ReqOk(pc[r], tok[r], rec[r], start[r], db', now)
    BY <1>1, <1>4, ReqKept, Zenon DEF Inv
  <1> QED
    BY <1>1, <1>3, <1>5, <1>6, <1>7, Zenon DEF Inv

LEMMA EvictInv == ASSUME Inv, NEW t \in Tokens, Evict(t) PROVE Inv'
  BY Zenon DEF Inv, Evict, locals, Domains, EntryOk

LEMMA RestartInv == ASSUME Inv, Restart PROVE Inv'
  <1>1. Domains'
    BY Zenon DEF Inv, Restart, Domains
  <1>2. \A t \in Tokens : EntryOk(cache'[t], db[TokenKey[t]], now)
    BY Zenon DEF Restart, EntryOk
  <1>3. ASSUME NEW r \in Req PROVE ReqOk(pc'[r], tok'[r], rec'[r], start'[r], db, now)
    BY IdleOk, Zenon DEF Restart
  <1> QED
    BY <1>1, <1>2, <1>3, Zenon DEF Inv, Restart

\* Time passes only while no request has used up its MaxLag.
LEMMA TickInv == ASSUME Inv, Tick PROVE Inv'
  <1>1. /\ UNCHANGED <<db, cache, flagged, pc, tok, rec, start, evicted>>
        /\ now' = now + 1 /\ now \in Time /\ now' \in Time /\ now <= now'
    BY TimeAssumption DEF Tick, locals, Inv, Time
  <1>2. ASSUME NEW copy, NEW row, NEW t, NEW lag, Fresh(copy, row, t, lag, now)
        PROVE  Fresh(copy, row, t, lag, now')
    BY <1>1, <1>2, TimeAssumption DEF Fresh, Row, Time
  <1>3. Domains'
    BY <1>1, Zenon DEF Inv, Domains
  <1>4. ASSUME NEW k \in Keys PROVE RowOk(db[k], now')
    BY <1>1, TimeAssumption DEF Inv, RowOk, Row, Time
  <1>5. ASSUME NEW t \in Tokens PROVE EntryOk(cache[t], db[TokenKey[t]], now')
    BY <1>1, <1>2, TimeAssumption DEF Inv, EntryOk, Entry, Time
  <1>6. ASSUME NEW r \in Req PROVE ReqOk(pc[r], tok[r], rec[r], start[r], db, now')
    <2>1. ReqOk(pc[r], tok[r], rec[r], start[r], db, now)
      BY Zenon DEF Inv
    <2>2. pc[r] # "idle" => start[r] <= now' /\ now' <= start[r] + MaxLag
      BY <1>1, <2>1, TimeAssumption DEF Tick, ReqOk, Time
    <2> QED
      BY <1>2, <2>1, <2>2, Zenon DEF ReqOk
  <1> QED
    BY <1>1, <1>3, <1>4, <1>5, <1>6, Zenon DEF Inv

LEMMA StepInv == Inv /\ [Next]_vars => Inv'
  <1> SUFFICES ASSUME Inv, [Next]_vars PROVE Inv'
    BY Zenon
  <1>1. ASSUME NEW r \in Req, Mismatch(r) \/ Serve(r) PROVE Inv'
    BY <1>1, AnswerInv, Zenon DEF Mismatch, Serve, Inv, Domains
  <1>2. CASE UNCHANGED vars
    BY <1>2, Zenon DEF vars, Inv, Domains
  <1> QED
    BY <1>1, <1>2, BeginInv, LookupInv, CheckFlagInv, FindInv, PutUnflagInv, PutAddInv,
       CheckActiveInv, RotateInv, RevokeByDBIDInv, CreateInv, RevokeKeyInv, EvictInv,
       RestartInv, TickInv
       DEF Next, Authenticate, Handle

---------------------------------------------------------------------------
(* Theorems *)

\* The table, the cache and the records keep their shape: a request past
\* FindByKeyID has a row, never "no row".
THEOREM KeyTypes == Spec => []TypeOK
  <1>1. Inv => TypeOK
    <2> SUFFICES ASSUME Inv PROVE TypeOK
      BY Zenon
    <2>1. now \in Time /\ db \in [Keys -> Row \cup {None}] /\ flagged \subseteq Keys /\ evicted \subseteq Keys
      BY Zenon DEF Inv, Domains, RowOk
    <2>2. cache \in [Tokens -> Entry \cup {None}]
      BY Zenon DEF Inv, Domains, EntryOk
    <2>3. /\ pc \in [Req -> Steps] /\ tok \in [Req -> Tokens \cup {None}] /\ start \in [Req -> Time]
          /\ \A r \in Req : rec[r] \in IF pc[r] \in {"idle", "lookup", "find"} THEN {None} ELSE Row
          /\ DOMAIN rec = Req
      BY Zenon DEF Inv, Domains, ReqOk, Early
    <2> QED
      BY <2>1, <2>2, <2>3, Zenon DEF TypeOK
  <1> QED
    BY InitInv, StepInv, <1>1, PTL DEF Spec

\* A key revoked behind the gateway's back is refused after Grace at the
\* latest: VerifyCache dates an entry once, at Put, and Active is asked of
\* every copy.
THEOREM RevokedKeysAreRefused == Spec => []RevocationTakesEffect
  <1>1. Inv => RevocationTakesEffect
    <2> SUFFICES ASSUME Inv, NEW r \in Req, pc[r] \in {"serve", "evict"}, db[KeyOf(r)].revoked # None
                 PROVE  now <= db[KeyOf(r)].revoked + Grace
      BY Zenon DEF RevocationTakesEffect
    <2>1. /\ Fresh(rec[r], db[KeyOf(r)], start[r], MaxLag + TTL, now)
          /\ rec[r].revoked = None /\ now <= start[r] + MaxLag /\ now \in Time /\ start[r] \in Time
      BY Zenon DEF Inv, ReqOk, KeyOf
    <2> QED
      BY <2>1, TimeAssumption DEF Fresh, Row, Time, Grace
  <1> QED
    BY InitInv, StepInv, <1>1, PTL DEF Spec

\* A rotated key is refused 2 * MaxLag after its overlap at the latest, though
\* its cached record may not have the expiry: the entry is too old by then,
\* because the overlap is longer than a copy can last.
THEOREM RotatedKeysAreRefused == Spec => []ExpiryTakesEffect
  <1>1. Inv => ExpiryTakesEffect
    <2> SUFFICES ASSUME Inv, NEW r \in Req, pc[r] = "serve", db[KeyOf(r)].expires # None
                 PROVE  now <= db[KeyOf(r)].expires + 2 * MaxLag
      BY Zenon DEF ExpiryTakesEffect
    <2>1. /\ Fresh(rec[r], db[KeyOf(r)], start[r], MaxLag + TTL, now)
          /\ rec[r].expires # None => start[r] < rec[r].expires
          /\ now <= start[r] + MaxLag /\ now \in Time /\ start[r] \in Time
      BY Zenon DEF Inv, ReqOk, KeyOf
    <2> QED
      BY <2>1, TimeAssumption, OverlapAssumption DEF Fresh, Row, Time
  <1> QED
    BY InitInv, StepInv, <1>1, PTL DEF Spec

============================================================================
