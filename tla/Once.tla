-------------------------------- MODULE Once --------------------------------
(***************************************************************************)
(* What an idempotency layer promises its callers, without a table, a      *)
(* clock or a handler: a key opens a window for one request, the window is *)
(* given one response, the response is replayed until the window ends.     *)
(*                                                                         *)
(* A window can end under a request that is still at work.  Such a stray   *)
(* still has one response to store, and may store it in the window of      *)
(* another: everything else in this module is what callers can rely on.    *)
(***************************************************************************)
CONSTANTS Req, Keys

VARIABLES
    holder,  \* key -> the request its window belongs to: {} or {r}
    resp,    \* key -> the request whose response the window replays: {} or {r}
    strays,  \* requests at work whose window has ended
    got      \* request -> the request whose response it was replayed

vars == <<holder, resp, strays, got>>

Init ==
    /\ holder = [k \in Keys |-> {}]
    /\ resp = [k \in Keys |-> {}]
    /\ strays = {}
    /\ got = [r \in Req |-> {}]

\* A key without a window is given to r.
Grant(k, r) ==
    /\ holder[k] = {}
    /\ holder' = [holder EXCEPT ![k] = {r}]
    /\ UNCHANGED <<resp, strays, got>>

\* The holder stores its response, once.
Answer(k) ==
    /\ holder[k] # {} /\ resp[k] # holder[k]
    /\ resp' = [resp EXCEPT ![k] = holder[k]]
    /\ UNCHANGED <<holder, strays, got>>

\* A stray stores its response in whatever window its key has by now.
Misfile(k, r) ==
    /\ r \in strays /\ holder[k] # {}
    /\ resp' = [resp EXCEPT ![k] = {r}]
    /\ strays' = strays \ {r}
    /\ UNCHANGED <<holder, got>>

\* A stray finishes, or dies, without a trace.
Leave(r) ==
    /\ r \in strays
    /\ strays' = strays \ {r}
    /\ UNCHANGED <<holder, resp, got>>

\* r is sent the response of the window, which stays as it is.
Replay(k, r) ==
    /\ resp[k] # {}
    /\ got' = [got EXCEPT ![r] = resp[k]]
    /\ UNCHANGED <<holder, resp, strays>>

\* The windows of K end; a holder that is still at work becomes a stray.
End(K) ==
    /\ \A k \in K : holder[k] # {}
    /\ holder' = [k \in Keys |-> IF k \in K THEN {} ELSE holder[k]]
    /\ resp' = [k \in Keys |-> IF k \in K THEN {} ELSE resp[k]]
    /\ strays \subseteq strays'
    /\ strays' \subseteq strays \cup UNION {holder[k] : k \in K}
    /\ UNCHANGED got

Next ==
    \/ \E k \in Keys, r \in Req : Grant(k, r) \/ Misfile(k, r) \/ Replay(k, r)
    \/ \E k \in Keys : Answer(k)
    \/ \E r \in Req : Leave(r)
    \/ \E K \in SUBSET Keys : End(K)

Spec == Init /\ [][Next]_vars

=============================================================================
