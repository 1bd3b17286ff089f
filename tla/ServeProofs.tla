----------------------------- MODULE ServeProofs -----------------------------
(***************************************************************************)
(* Proofs about Serve, for any number of requests and connections and for  *)
(* every environment: whose settings are in force, what a connection keeps *)
(* and how the process ends.                                               *)
(***************************************************************************)
EXTENDS Serve, TLAPS

Holding == {"setup", "stmt", "commit", "rollback"}

\* What the proof needs of the types; of the configuration, nothing.
PoolShape ==
    /\ owner \in [Conns -> Calls \cup {None, Purger}]
    /\ now \in [Conns -> [Settings -> Calls \cup {Base}]]
    /\ sess \in [Conns -> [Settings -> Calls \cup {Base}]]
    /\ setters \in [Settings -> SUBSET Calls]
    /\ at \in [Calls -> Conns \cup {None}]

CallShape ==
    /\ pc \in [Calls -> {"new", "stream", "auth", "validate", "begin", "setup",
                         "stmt", "commit", "rollback", "reply", "audit", "done"}]
    /\ route \in [Calls -> Rest \cup Mcp \cup {"none"}]
    /\ stmt \in [Calls -> ClientSets \cup {"plain"}]
    /\ audit \in [Calls -> {"none", "exempt", "written", "missed"}]

\* A request has a connection from BeginTx to the end of its transaction, and
\* the pool knows it for the owner.
Held ==
    \A r \in Calls :
        /\ at[r] # None <=> pc[r] \in Holding
        /\ at[r] # None => owner[at[r]] = r

\* What the session of a connection has is the base value or a client's own SET;
\* without a transaction that is what is in force.
Sessions ==
    \A c \in Conns :
        /\ \A s \in Settings : sess[c][s] \in {Base} \cup setters[s]
        /\ owner[c] \notin Calls => now[c] = sess[c]

InForce ==
    \A r \in Calls : pc[r] \in {"stmt", "commit"} =>
        \A s \in Settings : now[at[r]][s] = r

\* A request that is through has its audit row, or none to write.
Audited ==
    \A r \in Calls :
        pc[r] = "done" \/ (pc[r] = "reply" /\ route[r] \notin Rest) => audit[r] # "none"

\* Once the process reports a clean stop no handler is left.
CleanStop ==
    /\ clean => life \in {"close", "exited"} /\ \A r \in Calls : ~InHandler(r)
    /\ life = "exited" => \A c \in Conns : Free(c)

PoolInv == PoolShape /\ Held /\ Sessions /\ InForce
CallInv == CallShape /\ Audited
Inv == PoolInv /\ CallInv /\ CleanStop

LEMMA InitInv == Init => Inv
<1> SUFFICES ASSUME Init PROVE Inv
  BY Zenon
<1>1. PoolShape
  BY Zenon DEF Init, PoolShape, Fresh
<1>2. Held /\ InForce
  BY Zenon DEF Init, Held, InForce, Holding
<1>3. Sessions
  BY Zenon DEF Init, Sessions, Fresh
<1>4. CallShape /\ Audited
  BY Zenon DEF Init, CallShape, Audited
<1>5. CleanStop
  BY Zenon DEF Init, CleanStop
<1> QED
  BY <1>1, <1>2, <1>3, <1>4, <1>5, Zenon DEF Inv, PoolInv, CallInv

-----------------------------------------------------------------------------

(* The pool *)

\* Steps that neither take nor return a connection.
LEMMA QuietPool ==
    ASSUME PoolInv, UNCHANGED <<pool, at>>,
           \A r \in Calls : /\ pc'[r] \in Holding <=> pc[r] \in Holding
                            /\ pc'[r] \in {"stmt", "commit"} => pc[r] \in {"stmt", "commit"}
    PROVE  PoolInv'
BY Zenon DEF PoolInv, PoolShape, Held, Sessions, InForce, pool

\* A transaction ends: its connection goes back with new as the settings of the
\* session.
LEMMA ReleasePool ==
    ASSUME PoolInv, NEW r \in Calls, at[r] # None,
           NEW new \in [Settings -> Calls \cup {Base}],
           Release(at[r], new),
           setters' \in [Settings -> SUBSET Calls],
           \A s \in Settings : setters[s] \subseteq setters'[s],
           \A s \in Settings : new[s] \in {Base} \cup setters'[s],
           at' = [at EXCEPT ![r] = None],
           pc'[r] \notin Holding, \A o \in Calls \ {r} : pc'[o] = pc[o]
    PROVE  PoolInv'
<1> USE DEF PoolInv
<1>1. PoolShape'
  BY ServeAssumption, Zenon DEF PoolShape, Release
<1>2. /\ at[r] \in Conns /\ owner[at[r]] = r
      /\ owner'[at[r]] = None /\ sess'[at[r]] = new /\ now'[at[r]] = new
      /\ \A c \in Conns \ {at[r]} : owner'[c] = owner[c] /\ sess'[c] = sess[c] /\ now'[c] = now[c]
      /\ at'[r] = None /\ \A o \in Calls \ {r} : at'[o] = at[o]
  BY DEF PoolShape, Held, Release
<1>3. \A o \in Calls \ {r} : at[o] # at[r]
  BY <1>2 DEF Held
<1>4. Held'
  BY <1>2, <1>3 DEF Held, PoolShape
<1>5. Sessions'
  BY <1>2 DEF Sessions
<1>6. InForce'
  <2>1. ASSUME NEW o \in Calls, pc'[o] \in {"stmt", "commit"}
        PROVE  \A s \in Settings : now'[at'[o]][s] = o
    <3>1. o # r /\ pc[o] \in {"stmt", "commit"} /\ at'[o] = at[o]
      BY <1>2, <2>1, Zenon DEF Holding
    <3>2. at[o] \in Conns \ {at[r]}
      BY <1>3, <3>1 DEF Held, Holding, PoolShape
    <3> QED
      BY <1>2, <3>1, <3>2 DEF InForce
  <2> QED
    BY <2>1, Zenon DEF InForce
<1> QED
  BY <1>1, <1>4, <1>5, <1>6, Zenon

\* The session as it was, and a new connection, may go back.
LEMMA ReleaseOld ==
    ASSUME PoolInv, NEW r \in Calls, at[r] # None,
           Release(at[r], sess[at[r]]) \/ Destroy(at[r]), UNCHANGED setters,
           at' = [at EXCEPT ![r] = None],
           pc'[r] \notin Holding, \A o \in Calls \ {r} : pc'[o] = pc[o]
    PROVE  PoolInv'
<1>1. at[r] \in Conns
  BY Zenon DEF PoolInv, PoolShape
<1>2. setters' \in [Settings -> SUBSET Calls] /\ \A s \in Settings : setters[s] \subseteq setters'[s]
  BY Zenon DEF PoolInv, PoolShape
<1>3. CASE Release(at[r], sess[at[r]])
  <2>1. /\ sess[at[r]] \in [Settings -> Calls \cup {Base}]
        /\ \A s \in Settings : sess[at[r]][s] \in {Base} \cup setters'[s]
    BY <1>1, Zenon DEF PoolInv, PoolShape, Sessions
  <2> QED
    BY <1>2, <1>3, <2>1, ReleasePool, Zenon
<1>4. CASE Destroy(at[r])
  <2>1. /\ Fresh \in [Settings -> Calls \cup {Base}]
        /\ \A s \in Settings : Fresh[s] \in {Base} \cup setters'[s]
    BY Zenon DEF Fresh
  <2>2. Release(at[r], Fresh)
    BY <1>4, Zenon DEF Destroy
  <2> QED
    BY <1>2, <2>1, <2>2, ReleasePool, Zenon
<1> QED
  BY <1>3, <1>4, Zenon

-----------------------------------------------------------------------------

(* Requests *)

\* A handler that runs shows that the process has not stopped cleanly.
LEMMA HandlerRuns ==
    ASSUME CleanStop, NEW r \in Calls, Running, InHandler(r), UNCHANGED <<life, clean>>
    PROVE  CleanStop'
BY Zenon DEF CleanStop, Running

LEMMA AcceptInv ==
    ASSUME Inv, NEW r \in Calls, Accept(r)
    PROVE  Inv'
<1> USE DEF Inv, CallInv
<1>1. CallShape'
  <2>1. pc' \in [Calls -> {"new", "stream", "auth", "validate", "begin", "setup",
                         "stmt", "commit", "rollback", "reply", "audit", "done"}]
    BY DEF CallShape, Accept, Goto
  <2>2. route' \in [Calls -> Rest \cup Mcp \cup {"none"}] /\ UNCHANGED audit
    BY DEF CallShape, Accept
  <2>3. stmt' \in [Calls -> ClientSets \cup {"plain"}]
    BY Zenon DEF CallShape, Accept
  <2> QED
    BY <2>1, <2>2, <2>3, Zenon DEF CallShape
<1>2. /\ UNCHANGED <<pool, at, audit, life, clean>> /\ life \in {"up", "mcp"}
      /\ pc[r] = "new" /\ pc'[r] \in {"auth", "validate", "stream"}
      /\ \A o \in Calls \ {r} : pc'[o] = pc[o] /\ route'[o] = route[o]
  BY DEF CallShape, Accept, Goto
<1>3. PoolInv'
  <2>1. \A o \in Calls : /\ pc'[o] \in Holding <=> pc[o] \in Holding
                         /\ pc'[o] \in {"stmt", "commit"} => pc[o] \in {"stmt", "commit"}
    BY <1>2, Zenon DEF Holding
  <2> QED
    BY <1>2, <2>1, QuietPool, Zenon
<1>4. Audited'
  BY <1>2, Zenon DEF Audited
<1>5. CleanStop'
  BY <1>2, Zenon DEF CleanStop
<1> QED
  BY <1>1, <1>3, <1>4, <1>5, Zenon

\* One request moves on without its connection: the steps before BeginTx and
\* after the transaction.
LEMMA QuietInv ==
    ASSUME Inv, NEW r \in Calls, Running,
           pc[r] \notin Holding \cup {"new", "done"},
           UNCHANGED <<life, clean, pool, at>>,
           pc'[r] \notin Holding, \A o \in Calls \ {r} : pc'[o] = pc[o],
           CallInv'
    PROVE  Inv'
<1>1. PoolInv'
  <2>1. \A o \in Calls : /\ pc'[o] \in Holding <=> pc[o] \in Holding
                         /\ pc'[o] \in {"stmt", "commit"} => pc[o] \in {"stmt", "commit"}
    BY Zenon DEF Holding
  <2> QED
    BY <2>1, QuietPool, Zenon DEF Inv
<1>2. CleanStop'
  <2>1. InHandler(r)
    BY Zenon DEF InHandler
  <2> QED
    BY <2>1, HandlerRuns, Zenon DEF Inv
<1> QED
  BY <1>1, <1>2, Zenon DEF Inv

\* The two ends of a handler, and the way to them.
LEMMA CallEnds ==
    ASSUME CallInv, NEW r \in Calls,
           \/ Refuse(r)
           \/ /\ audit'[r] # "none" /\ Done(r)
              /\ audit' \in [Calls -> {"none", "exempt", "written", "missed"}]
              /\ \A o \in Calls \ {r} : audit'[o] = audit[o]
    PROVE  CallInv' /\ pc'[r] = "done" /\ \A o \in Calls \ {r} : pc'[o] = pc[o]
<1> USE DEF CallInv
<1>1. /\ audit'[r] # "none" /\ Done(r)
      /\ audit' \in [Calls -> {"none", "exempt", "written", "missed"}]
      /\ \A o \in Calls \ {r} : audit'[o] = audit[o]
  BY Zenon DEF Refuse, CallShape
<1>2. CallShape'
  BY <1>1, Zenon DEF CallShape, Done, Goto
<1>3. pc'[r] = "done" /\ \A o \in Calls \ {r} : pc'[o] = pc[o] /\ route'[o] = route[o]
  BY <1>1 DEF CallShape, Done, Goto
<1>4. Audited'
  BY <1>1, <1>3, Zenon DEF Audited
<1> QED
  BY <1>2, <1>3, <1>4, Zenon

LEMMA CallGoes ==
    ASSUME CallInv, NEW r \in Calls, UNCHANGED <<route, stmt, audit>>,
           NEW l \in {"validate", "begin", "setup", "stmt", "commit", "rollback", "audit"},
           Goto(r, l) \/ Settle(r)
    PROVE  /\ CallInv'
           /\ pc'[r] = l \/ pc'[r] \in {"reply", "audit"}
           /\ Goto(r, l) => pc'[r] = l
           /\ Settle(r) => pc'[r] \in {"reply", "audit"}
           /\ \A o \in Calls \ {r} : pc'[o] = pc[o]
<1> USE DEF CallInv
<1>1. CallShape'
  BY DEF CallShape, Goto, Settle
<1>2. /\ Goto(r, l) => pc'[r] = l
      /\ Settle(r) => pc'[r] = (IF route[r] \in Rest THEN "reply" ELSE "audit")
      /\ \A o \in Calls \ {r} : pc'[o] = pc[o]
  BY Zenon DEF CallShape, Goto, Settle
<1>3. Audited'
  BY <1>2, Zenon DEF Audited
<1> QED
  BY <1>1, <1>2, <1>3, Zenon

\* Steps of a handler that has no connection.
LEMMA QuietStepsInv ==
    ASSUME Inv, NEW r \in Calls,
           StreamEnds(r) \/ Authenticate(r) \/ Validate(r) \/ Reply(r) \/ Audit(r)
    PROVE  Inv'
<1> USE DEF Inv
<1>1. CASE StreamEnds(r)
  <2>1. CallInv' /\ pc'[r] = "done" /\ \A o \in Calls \ {r} : pc'[o] = pc[o]
    BY <1>1, CallEnds, Zenon DEF StreamEnds
  <2> QED
    BY <1>1, <2>1, QuietInv, Zenon DEF StreamEnds, Holding
<1>2. CASE Authenticate(r)
  <2>1. \/ Refuse(r)
        \/ Goto(r, "validate") /\ UNCHANGED <<route, stmt, audit>>
    BY <1>2, Zenon DEF Authenticate
  <2>2. CallInv' /\ pc'[r] \in {"validate", "reply", "audit", "done"} /\ \A o \in Calls \ {r} : pc'[o] = pc[o]
    BY <2>1, CallEnds, CallGoes, Zenon
  <2> QED
    BY <1>2, <2>2, QuietInv, Zenon DEF Authenticate, Holding
<1>3. CASE Validate(r)
  <2>1. \/ Refuse(r)
        \/ (Goto(r, "begin") \/ Settle(r)) /\ UNCHANGED <<route, stmt, audit>>
    BY <1>3, Zenon DEF Validate
  <2>2. CallInv' /\ pc'[r] \in {"begin", "reply", "audit", "done"} /\ \A o \in Calls \ {r} : pc'[o] = pc[o]
    BY <2>1, CallEnds, CallGoes, Zenon
  <2> QED
    BY <1>3, <2>2, QuietInv, Zenon DEF Validate, Holding
<1>4. CASE Reply(r)
  <2>1. CallInv' /\ pc'[r] \in {"reply", "audit", "done"} /\ \A o \in Calls \ {r} : pc'[o] = pc[o]
    <3>1. CASE route[r] \in Rest
      <4>1. Goto(r, "audit") /\ UNCHANGED <<route, stmt, audit>>
        BY <1>4, <3>1, Zenon DEF Reply
      <4> QED
        BY <4>1, CallGoes, Zenon
    <3>2. CASE route[r] \notin Rest
      <4>1. Done(r) /\ UNCHANGED audit /\ audit[r] # "none"
        BY <1>4, <3>2, Zenon DEF Reply, CallInv, Audited
      <4>2. audit' \in [Calls -> {"none", "exempt", "written", "missed"}] /\ \A o \in Calls \ {r} : audit'[o] = audit[o]
        BY <4>1, Zenon DEF CallInv, CallShape
      <4> QED
        BY <4>1, <4>2, CallEnds, Zenon
    <3> QED
      BY <3>1, <3>2, Zenon
  <2> QED
    BY <1>4, <2>1, QuietInv, Zenon DEF Reply, Holding
<1>5. CASE Audit(r)
  <2>1. \E a \in {"exempt", "written", "missed"} : audit' = [audit EXCEPT ![r] = a]
    BY <1>5, Zenon DEF Audit
  <2>2. /\ audit' \in [Calls -> {"none", "exempt", "written", "missed"}] /\ audit'[r] # "none"
        /\ \A o \in Calls \ {r} : audit'[o] = audit[o]
    BY <2>1 DEF CallInv, CallShape
  <2>3. CallInv' /\ pc'[r] \in {"reply", "done"} /\ \A o \in Calls \ {r} : pc'[o] = pc[o]
    <3>1. CASE route[r] \in Rest
      BY <1>5, <2>2, <3>1, CallEnds, Zenon DEF Audit
    <3>2. CASE route[r] \notin Rest
      <4>1. Goto(r, "reply") /\ UNCHANGED <<route, stmt>>
        BY <1>5, <3>2, Zenon DEF Audit
      <4>2. CallShape' /\ pc'[r] = "reply" /\ \A o \in Calls \ {r} : pc'[o] = pc[o]
        BY <2>2, <4>1, Zenon DEF CallInv, CallShape, Goto
      <4>3. Audited'
        BY <2>2, <4>1, <4>2, Zenon DEF CallInv, Audited
      <4> QED
        BY <4>2, <4>3, Zenon DEF CallInv
    <3> QED
      BY <3>1, <3>2, Zenon
  <2> QED
    BY <1>5, <2>3, QuietInv, Zenon DEF Audit, Holding
<1> QED
  BY <1>1, <1>2, <1>3, <1>4, <1>5, Zenon

\* BeginTx: the connection it gets has no other owner.
LEMMA BeginInv ==
    ASSUME Inv, NEW r \in Calls, Begin(r)
    PROVE  Inv'
<1> USE DEF Inv
<1>1. CASE Settle(r) /\ UNCHANGED <<owner, at>>
  <2>1. UNCHANGED <<route, stmt, audit, life, clean, pool, at>> /\ Running /\ pc[r] = "begin"
    BY <1>1, Zenon DEF Begin, pool
  <2>2. CallInv' /\ pc'[r] \in {"reply", "audit"} /\ \A o \in Calls \ {r} : pc'[o] = pc[o]
    BY <1>1, <2>1, CallGoes, Zenon
  <2> QED
    BY <2>1, <2>2, QuietInv, Zenon DEF Holding
<1>2. ASSUME NEW c \in Conns, Acquire(c, r), at' = [at EXCEPT ![r] = c], Goto(r, "setup")
      PROVE  Inv'
  <2>1. /\ UNCHANGED <<route, stmt, audit, life, clean, now, sess, setters>>
        /\ Running /\ pc[r] = "begin" /\ owner[c] = None
    BY <1>2, Zenon DEF Begin, Acquire, Free
  <2>2. CallInv' /\ pc'[r] = "setup" /\ \A o \in Calls \ {r} : pc'[o] = pc[o]
    BY <1>2, <2>1, CallGoes, Zenon
  <2>3. CleanStop'
    BY <2>1, HandlerRuns, Zenon DEF InHandler
  <2>4. /\ owner'[c] = r /\ \A d \in Conns \ {c} : owner'[d] = owner[d]
        /\ at'[r] = c /\ \A o \in Calls \ {r} : at'[o] = at[o]
    BY <1>2, Zenon DEF Acquire, PoolInv, PoolShape
  <2>5. PoolShape'
    BY <1>2, <2>1, Zenon DEF Acquire, PoolInv, PoolShape
  <2>6. \A o \in Calls : at[o] # c
    BY <2>1, ServeAssumption, Zenon DEF PoolInv, Held
  <2>7. Held'
    BY <2>2, <2>4, <2>6, ServeAssumption DEF PoolInv, PoolShape, Held, Holding
  <2>8. Sessions'
    BY <2>1, <2>4, Zenon DEF PoolInv, Sessions
  <2>9. InForce'
    BY <2>1, <2>2, <2>4 DEF PoolInv, InForce
  <2> QED
    BY <2>2, <2>3, <2>5, <2>7, <2>8, <2>9, Zenon DEF PoolInv
<1> QED
  BY <1>1, <1>2, Zenon DEF Begin

\* Setup: only the last of its statements leads on to the client's.
LEMMA SetupInv ==
    ASSUME Inv, NEW r \in Calls, Setup(r)
    PROVE  Inv'
<1> USE DEF Inv
<1> DEFINE c == at[r]
<1>1. PICK n \in 0..Len(SetupOrder) :
          /\ now' = [now EXCEPT ![c] = SetLocal(c, r, n)]
          /\ Goto(r, IF n = Len(SetupOrder) THEN "stmt" ELSE "rollback")
  BY Zenon DEF Setup
<1>2. /\ UNCHANGED <<route, stmt, audit, life, clean, owner, sess, setters, at>>
      /\ Running /\ pc[r] = "setup"
  BY Zenon DEF Setup
<1>3. c \in Conns /\ owner[c] = r /\ \A o \in Calls \ {r} : at[o] # c
  BY <1>2 DEF PoolInv, PoolShape, Held, Holding
<1>4. SetLocal(c, r, n) \in [Settings -> Calls \cup {Base}]
  BY <1>3 DEF PoolInv, PoolShape, SetLocal
<1>5. ASSUME n = Len(SetupOrder) PROVE \A s \in Settings : SetLocal(c, r, n)[s] = r
  BY <1>5, Zenon DEF SetLocal, Settings
<1> DEFINE new == SetLocal(c, r, n)
<1> HIDE DEF c, new
<1>6. now'[c] = new /\ \A d \in Conns \ {c} : now'[d] = now[d]
  BY <1>1, <1>3, Zenon DEF PoolInv, PoolShape, new
<1>7. /\ CallInv' /\ \A o \in Calls \ {r} : pc'[o] = pc[o]
      /\ pc'[r] = IF n = Len(SetupOrder) THEN "stmt" ELSE "rollback"
  BY <1>1, <1>2, CallGoes, Zenon
<1>8. CleanStop'
  BY <1>2, HandlerRuns, Zenon DEF InHandler
<1>9. PoolShape'
  <2>1. now' = [now EXCEPT ![c] = new] /\ new \in [Settings -> Calls \cup {Base}]
    BY <1>1, <1>4, Zenon DEF new
  <2> QED
    BY <1>2, <2>1, Zenon DEF PoolInv, PoolShape
<1>10. Held'
  BY <1>2, <1>7, Zenon DEF PoolInv, Held, Holding
<1>11. Sessions'
  BY <1>2, <1>3, <1>6, Zenon DEF PoolInv, Sessions
<1>12. InForce'
  <2>1. ASSUME NEW o \in Calls, pc'[o] \in {"stmt", "commit"}, NEW s \in Settings
        PROVE  now'[at'[o]][s] = o
    <3>1. CASE o = r
      <4>1. n = Len(SetupOrder)
        BY <1>7, <2>1, <3>1, Zenon
      <4> QED
        BY <1>2, <1>5, <1>6, <3>1, <4>1, Zenon DEF c, new
    <3>2. CASE o # r
      <4>1. at[o] \in Conns \ {c} /\ pc[o] \in {"stmt", "commit"}
        BY <1>3, <1>7, <2>1, <3>2 DEF PoolInv, PoolShape, Held, Holding
      <4> QED
        BY <1>2, <1>6, <4>1 DEF PoolInv, InForce
    <3> QED
      BY <3>1, <3>2, Zenon
  <2> QED
    BY <2>1, Zenon DEF InForce
<1> QED
  BY <1>7, <1>8, <1>9, <1>10, <1>11, <1>12, Zenon DEF PoolInv

\* The statement, however it returns.
LEMMA StatementInv ==
    ASSUME Inv, NEW r \in Calls, Statement(r) \/ StatementTimesOut(r)
    PROVE  Inv'
<1> USE DEF Inv
<1>1. /\ UNCHANGED <<route, stmt, audit, life, clean, pool, at>>
      /\ Running /\ pc[r] = "stmt" /\ (Goto(r, "commit") \/ Goto(r, "rollback"))
  BY Zenon DEF Statement, StatementTimesOut
<1>2. CallInv' /\ pc'[r] \in {"commit", "rollback", "reply", "audit"} /\ \A o \in Calls \ {r} : pc'[o] = pc[o]
  BY <1>1, CallGoes, Zenon
<1>3. pc'[r] \in {"commit", "rollback"}
  BY <1>1, Zenon DEF CallInv, CallShape, Goto
<1>4. \A o \in Calls : /\ pc'[o] \in Holding <=> pc[o] \in Holding
                       /\ pc'[o] \in {"stmt", "commit"} => pc[o] \in {"stmt", "commit"}
  BY <1>1, <1>2, <1>3, Zenon DEF Holding
<1>5. PoolInv'
  BY <1>1, <1>4, QuietPool, Zenon
<1>6. CleanStop'
  BY <1>1, HandlerRuns, Zenon DEF InHandler
<1> QED
  BY <1>2, <1>5, <1>6, Zenon

\* The ways a transaction ends.  Only a COMMIT that Postgres confirms keeps what
\* the client's statement SET.
LEMMA EndInv ==
    ASSUME Inv, NEW r \in Calls, Commit(r) \/ Rollback(r) \/ ClientLeaves(r)
    PROVE  Inv'
<1> USE DEF Inv
<1>1. /\ UNCHANGED <<route, stmt, audit, life, clean>>
      /\ Running /\ pc[r] \in Holding \cup {"begin"} /\ Settle(r)
      /\ at' = [at EXCEPT ![r] = None]
  BY Zenon DEF Commit, Rollback, ClientLeaves, Holding
<1>2. CallInv' /\ pc'[r] \in {"reply", "audit"} /\ \A o \in Calls \ {r} : pc'[o] = pc[o]
  BY <1>1, CallGoes, Zenon
<1>3. pc'[r] \notin Holding
  BY <1>2, Zenon DEF Holding
<1>4. CleanStop'
  BY <1>1, HandlerRuns, Zenon DEF InHandler, Holding
<1>5. CASE at[r] = None
  <2>1. ClientLeaves(r) /\ pc[r] = "begin"
    BY <1>1, <1>5, Zenon DEF PoolInv, Held, Commit, Rollback, ClientLeaves, Holding
  <2>2. UNCHANGED <<owner, now, sess, setters>>
    BY <1>5, <2>1, Zenon DEF ClientLeaves
  <2>3. at' = at
    BY <1>1, <1>5, Zenon DEF PoolInv, PoolShape
  <2> QED
    BY <1>1, <1>2, <1>3, <2>1, <2>2, <2>3, QuietInv, Zenon DEF pool, Holding
<1>6. ASSUME at[r] # None, Release(at[r], sess[at[r]]) \/ Destroy(at[r]), UNCHANGED setters
      PROVE  Inv'
  BY <1>1, <1>2, <1>3, <1>4, <1>6, ReleaseOld, Zenon
<1>7. ASSUME at[r] # None, stmt[r] # "plain",
             Release(at[r], [sess[at[r]] EXCEPT ![stmt[r]] = r]),
             setters' = [setters EXCEPT ![stmt[r]] = @ \cup {r}]
      PROVE  Inv'
  <2> DEFINE new == [sess[at[r]] EXCEPT ![stmt[r]] = r]
  <2>1. at[r] \in Conns /\ stmt[r] \in Settings
    BY <1>7, ServeAssumption, Zenon DEF PoolInv, PoolShape, CallInv, CallShape
  <2>2. /\ sess[at[r]] \in [Settings -> Calls \cup {Base}]
        /\ \A s \in Settings : sess[at[r]][s] \in {Base} \cup setters[s]
    BY <2>1, Zenon DEF PoolInv, PoolShape, Sessions
  <2>3. new \in [Settings -> Calls \cup {Base}]
    BY <2>1, <2>2, Zenon
  <2>4. setters' \in [Settings -> SUBSET Calls]
    BY <1>7, <2>1, Zenon DEF PoolInv, PoolShape
  <2>5. \A s \in Settings : setters'[s] = IF s = stmt[r] THEN setters[s] \cup {r} ELSE setters[s]
    BY <1>7, <2>1, Zenon DEF PoolInv, PoolShape
  <2>6. \A s \in Settings : setters[s] \subseteq setters'[s]
    BY <2>5, Zenon
  <2>7. \A s \in Settings : new[s] \in {Base} \cup setters'[s]
    BY <2>1, <2>2, <2>5, ZenonT(30)
  <2>8. Release(at[r], new)
    BY <1>7, Zenon
  <2> HIDE DEF new
  <2> QED
    BY <1>1, <1>2, <1>3, <1>4, <1>7, <2>3, <2>4, <2>6, <2>7, <2>8, ReleasePool, Zenon
<1>8. CASE at[r] # None
  <2>1. CASE Commit(r)
    BY <1>6, <1>7, <1>8, <2>1, Zenon DEF Commit
  <2>2. CASE Rollback(r)
    BY <1>6, <1>8, <2>2, Zenon DEF Rollback
  <2>3. CASE ClientLeaves(r)
    BY <1>6, <1>8, <2>3, Zenon DEF ClientLeaves
  <2> QED
    BY <2>1, <2>2, <2>3, Zenon
<1> QED
  BY <1>5, <1>8, Zenon

-----------------------------------------------------------------------------

(* The process *)

\* Its life goes on; only a stream may end with it.
LEMMA LifeInv ==
    ASSUME Inv, Start \/ ListenFails \/ Signal \/ McpShutdown \/ Shutdown \/ ClosePool
    PROVE  Inv'
<1> USE DEF Inv
<1>1. CASE McpShutdown
  <2>1. PICK S \in SUBSET {r \in Calls : pc[r] = "stream"} :
            /\ pc' = [r \in Calls |-> IF r \in S THEN "done" ELSE pc[r]]
            /\ audit' = [r \in Calls |-> IF r \in S THEN "exempt" ELSE audit[r]]
    BY <1>1, Zenon DEF McpShutdown
  <2>2. UNCHANGED <<pool, at, route, stmt, clean>> /\ life = "mcp" /\ life' = "drain"
    BY <1>1, Zenon DEF McpShutdown
  <2>3. \A r \in Calls : /\ pc'[r] \in Holding <=> pc[r] \in Holding
                         /\ pc'[r] \in {"stmt", "commit"} => pc[r] \in {"stmt", "commit"}
    BY <2>1, Zenon DEF Holding
  <2>4. PoolInv'
    BY <2>2, <2>3, QuietPool, Zenon
  <2>5. CallShape'
    BY <2>1, <2>2, Zenon DEF CallInv, CallShape
  <2>6. Audited'
    BY <2>1, <2>2, Zenon DEF CallInv, Audited
  <2>7. CleanStop'
    BY <2>2, Zenon DEF CleanStop
  <2> QED
    BY <2>4, <2>5, <2>6, <2>7, Zenon DEF CallInv
<1>2. CASE Start \/ ListenFails \/ Signal \/ Shutdown \/ ClosePool
  <2>1. UNCHANGED <<pool, call>>
    BY <1>2, Zenon DEF Start, ListenFails, Signal, Shutdown, ClosePool
  <2>2. PoolInv'
    BY <2>1, QuietPool, Zenon DEF call
  <2>3. CallInv'
    BY <2>1, Zenon DEF CallInv, CallShape, Audited, call
  <2>4. CleanStop'
    <3>1. CASE Start \/ ListenFails \/ Signal
      <4>1. UNCHANGED clean /\ life \in {"down", "up"}
        BY <3>1, Zenon DEF Start, ListenFails, Signal
      <4>2. ASSUME Start PROVE life' \in {"refused", "up"}
        <5>1. PICK env \in Envs : life' = "refused" \/ life' = "up"
          BY <4>2, Zenon DEF Start
        <5> QED
          BY <5>1, Zenon
      <4>3. life' # "exited"
        BY <3>1, <4>2, Zenon DEF ListenFails, Signal
      <4> QED
        BY <4>1, <4>3, Zenon DEF CleanStop
    <3>2. CASE Shutdown
      BY <2>1, <3>2, Zenon DEF CleanStop, Shutdown, InHandler, call
    <3>3. CASE ClosePool
      BY <2>1, <3>3, Zenon DEF CleanStop, ClosePool, InHandler, Free, call, pool
    <3> QED
      BY <1>2, <3>1, <3>2, <3>3, Zenon
  <2> QED
    BY <2>2, <2>3, <2>4, Zenon
<1> QED
  BY <1>1, <1>2, Zenon

\* The sweep leaves a connection as it found it, or replaces it.
LEMMA PurgeInv ==
    ASSUME Inv, Purge
    PROVE  Inv'
<1> USE DEF Inv
<1>1. UNCHANGED <<life, clean, setters, pc, route, stmt, at, audit>> /\ Running
  BY Zenon DEF Purge, call
<1>2. CallInv'
  BY <1>1, Zenon DEF CallInv, CallShape, Audited
<1>3. CleanStop'
  BY <1>1, Zenon DEF CleanStop, Running, InHandler
<1>4. CASE UNCHANGED <<owner, now, sess>>
  <2>1. PoolInv'
    BY <1>1, <1>4, QuietPool, Zenon DEF pool
  <2> QED
    BY <1>2, <1>3, <2>1, Zenon
<1>5. ASSUME NEW c \in Conns, Acquire(c, Purger), UNCHANGED <<now, sess>>
      PROVE  Inv'
  <2>1. /\ owner[c] = None /\ owner'[c] = Purger /\ \A d \in Conns \ {c} : owner'[d] = owner[d]
        /\ owner' \in [Conns -> Calls \cup {None, Purger}]
    BY <1>5, Zenon DEF Acquire, Free, PoolInv, PoolShape
  <2>2. PoolShape'
    BY <1>1, <1>5, <2>1, Zenon DEF PoolInv, PoolShape
  <2>3. Held'
    BY <1>1, <2>1, ServeAssumption DEF PoolInv, PoolShape, Held
  <2>4. Sessions'
    BY <1>1, <1>5, <2>1, ServeAssumption, Zenon DEF PoolInv, Sessions
  <2>5. InForce'
    BY <1>1, <1>5, Zenon DEF PoolInv, InForce
  <2> QED
    BY <1>2, <1>3, <2>2, <2>3, <2>4, <2>5, Zenon DEF PoolInv
<1>6. ASSUME NEW c \in Conns, owner[c] = Purger, Release(c, sess[c]) \/ Destroy(c)
      PROVE  Inv'
  <2>1. PICK new \in [Settings -> Calls \cup {Base}] :
            Release(c, new) /\ \A s \in Settings : new[s] \in {Base} \cup setters[s]
    <3>1. sess[c] \in [Settings -> Calls \cup {Base}] /\ \A s \in Settings : sess[c][s] \in {Base} \cup setters[s]
      BY Zenon DEF PoolInv, PoolShape, Sessions
    <3>2. Fresh \in [Settings -> Calls \cup {Base}] /\ \A s \in Settings : Fresh[s] \in {Base} \cup setters[s]
      BY Zenon DEF Fresh
    <3>3. Release(c, sess[c]) \/ Release(c, Fresh)
      BY <1>6, Zenon DEF Destroy
    <3> QED
      BY <3>1, <3>2, <3>3, Zenon
  <2>2. /\ owner'[c] = None /\ now'[c] = new /\ sess'[c] = new
        /\ \A d \in Conns \ {c} : owner'[d] = owner[d] /\ now'[d] = now[d] /\ sess'[d] = sess[d]
    BY <2>1, Zenon DEF Release, PoolInv, PoolShape
  <2>3. PoolShape'
    BY <1>1, <2>1, Zenon DEF Release, PoolInv, PoolShape
  <2>4. \A o \in Calls : at[o] # c
    BY <1>6, ServeAssumption, Zenon DEF PoolInv, Held
  <2>5. Held'
    BY <1>1, <2>2, <2>4 DEF PoolInv, PoolShape, Held
  <2>6. Sessions'
    BY <1>1, <2>1, <2>2, Zenon DEF PoolInv, Sessions
  <2>7. InForce'
    <3>1. ASSUME NEW o \in Calls, pc[o] \in {"stmt", "commit"} PROVE at[o] \in Conns \ {c}
      BY <2>4, <3>1 DEF PoolInv, PoolShape, Held, Holding
    <3> QED
      BY <1>1, <2>2, <3>1 DEF PoolInv, InForce
  <2> QED
    BY <1>2, <1>3, <2>3, <2>5, <2>6, <2>7, Zenon DEF PoolInv
<1> QED
  BY <1>4, <1>5, <1>6, Zenon DEF Purge

LEMMA StepInv == Inv /\ [Next]_vars => Inv'
<1> SUFFICES ASSUME Inv, [Next]_vars PROVE Inv'
  BY Zenon
<1>1. CASE UNCHANGED vars
  <2>1. UNCHANGED <<life, clean, pool, call>>
    BY <1>1, Zenon DEF vars
  <2>2. PoolInv'
    BY <2>1, QuietPool, Zenon DEF Inv, call
  <2>3. CallInv'
    BY <2>1, Zenon DEF Inv, CallInv, CallShape, Audited, call
  <2>4. CleanStop'
    BY <2>1, Zenon DEF Inv, CleanStop, InHandler, Free, call, pool
  <2> QED
    BY <2>2, <2>3, <2>4, Zenon DEF Inv
<1>2. ASSUME NEW r \in Calls, Handle(r) PROVE Inv'
  BY <1>2, QuietStepsInv, BeginInv, SetupInv, EndInv, Zenon DEF Handle
<1> QED
  BY <1>1, <1>2, LifeInv, PurgeInv, AcceptInv, QuietStepsInv, StatementInv, EndInv, Zenon
     DEF Next

-----------------------------------------------------------------------------

(* What follows *)

\* A statement runs under the settings of its own request, for any number of
\* requests that share a pool of any size.
THEOREM StatementsHaveOwnSettings == Spec => []OwnSettings
<1>1. Inv => OwnSettings
  BY ServeAssumption, Zenon DEF Inv, PoolInv, PoolShape, Held, InForce, OwnSettings, Holding
<1> QED
  BY <1>1, InitInv, StepInv, PTL DEF Spec

\* An idle connection carries nothing that Setup has set.
THEOREM IdleConnectionsRevert == Spec => []IdleReverts
<1>1. Inv => IdleReverts
  BY ServeAssumption, Zenon DEF Inv, PoolInv, Sessions, IdleReverts, Free
<1> QED
  BY <1>1, InitInv, StepInv, PTL DEF Spec

\* What Load hands on is typed, whatever the environment held: a text that does not
\* parse becomes a default or stops the process, and the timeouts are numbers.
LifeShape ==
    /\ life \in {"down", "refused", "up", "mcp", "drain", "close", "exited"}
    /\ clean \in BOOLEAN
    /\ cfg \in [sql : Int, rpc : Int, mcp : BOOLEAN, audit : BOOLEAN]
    /\ purge \in {"waiting", "running", "stopped"}

LEMMA MillisType == ASSUME NEW d \in Int PROVE Milliseconds(d) \in Int
BY DEF Milliseconds

LEMMA LoadTypes ==
    ASSUME NEW env \in Envs, ~LoadFails(env)
    PROVE  /\ SqlMillis(env) \in Int /\ RpcMillis(env) \in Int
           /\ EnvBool(env.mcp, FALSE) \in BOOLEAN /\ EnvBool(env.noaudit, FALSE) \in BOOLEAN
<1>1. StatementTimeout(env) \in Int
  BY EnvAssumption DEF LoadFails, StatementTimeout, EnvNumber, Second
<1>2. NewExecutor(StatementTimeout(env)) \in Int
  BY <1>1 DEF NewExecutor, Second
<1>3. EnvBool(env.mcp, FALSE) \in BOOLEAN /\ EnvBool(env.noaudit, FALSE) \in BOOLEAN
  BY EnvAssumption, Zenon DEF EnvBool
<1> QED
  BY <1>1, <1>2, <1>3, MillisType, Zenon DEF SqlMillis, RpcMillis

LEMMA StartType == LifeShape /\ Start => LifeShape'
<1> SUFFICES ASSUME LifeShape, Start PROVE LifeShape'
  BY Zenon
<1>1. UNCHANGED <<clean, purge>> /\ life' \in {"refused", "up"}
  BY Zenon DEF Start
<1>2. cfg' \in [sql : Int, rpc : Int, mcp : BOOLEAN, audit : BOOLEAN]
  <2>1. CASE UNCHANGED cfg
    BY <2>1, Zenon DEF LifeShape
  <2>2. ASSUME NEW env \in Envs, ~LoadFails(env),
               cfg' = [sql |-> SqlMillis(env), rpc |-> RpcMillis(env),
                       mcp |-> EnvBool(env.mcp, FALSE),
                       audit |-> ~EnvBool(env.noaudit, FALSE)]
        PROVE  cfg' \in [sql : Int, rpc : Int, mcp : BOOLEAN, audit : BOOLEAN]
    <3>1. (~EnvBool(env.noaudit, FALSE)) \in BOOLEAN
      BY Zenon
    <3> QED
      BY <2>2, <3>1, LoadTypes, Zenon
  <2> QED
    BY <2>1, <2>2, Zenon DEF Start
<1> QED
  BY <1>1, <1>2, Zenon DEF LifeShape

LEMMA LifeShapeStep == LifeShape /\ [Next]_vars => LifeShape'
<1> SUFFICES ASSUME LifeShape, [Next]_vars PROVE LifeShape'
  BY Zenon
<1>1. ASSUME NEW r \in Calls, Handle(r) PROVE UNCHANGED <<life, clean, cfg, purge>>
  BY <1>1, Zenon DEF Handle, Authenticate, Validate, Begin, Setup, Commit, Rollback, Reply,
                     Audit
<1>2. ASSUME NEW r \in Calls,
             \/ Accept(r) \/ StreamEnds(r) \/ Statement(r) \/ StatementTimesOut(r)
             \/ ClientLeaves(r)
      PROVE  UNCHANGED <<life, clean, cfg, purge>>
  BY <1>2, Zenon DEF Accept, StreamEnds, Statement, StatementTimesOut, ClientLeaves
<1>3. CASE UNCHANGED <<life, clean, cfg, purge>>
  BY <1>3, Zenon DEF LifeShape
<1>4. CASE ListenFails \/ Signal \/ McpShutdown \/ Shutdown \/ ClosePool
  BY <1>4, Zenon DEF LifeShape, ListenFails, Signal, McpShutdown, Shutdown, ClosePool
<1>5. CASE Purge
  BY <1>5, Zenon DEF LifeShape, Purge
<1>6. CASE UNCHANGED vars
  BY <1>3, <1>6, Zenon DEF vars
<1> QED
  BY <1>1, <1>2, <1>3, <1>4, <1>5, <1>6, StartType, Zenon DEF Next

\* Requests, connections and the configuration keep their shape, from every
\* environment Load accepts.
THEOREM ServeTypes == Spec => []TypeOK
<1>1. Init => LifeShape
  <2>1. 0 \in Int
    OBVIOUS
  <2>2. NoCfg \in [sql : Int, rpc : Int, mcp : BOOLEAN, audit : BOOLEAN]
    BY <2>1, Zenon DEF NoCfg
  <2> QED
    BY <2>2, Zenon DEF Init, LifeShape
<1>2. Inv /\ LifeShape => TypeOK
  BY Zenon DEF Inv, PoolInv, CallInv, PoolShape, CallShape, LifeShape, TypeOK
<1> QED
  BY <1>1, <1>2, LifeShapeStep, InitInv, StepInv, PTL DEF Spec

\* The process ends with its pool full, and a clean stop cuts nobody off.
THEOREM StopsAreOrderly == Spec => []StopIsOrderly
<1>1. Inv => StopIsOrderly
  BY Zenon DEF Inv, CallInv, Audited, CleanStop, StopIsOrderly, InHandler
<1> QED
  BY <1>1, InitInv, StepInv, PTL DEF Spec

=============================================================================
