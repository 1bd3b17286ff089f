------------------------- MODULE IdempotencyProofs -------------------------
(***************************************************************************)
(* Proofs about Idempotency for any set of requests, keys and payloads,    *)
(* with or without handlers that outlive the TTL of their row: who may     *)
(* execute, what clients and the audit log are told of it, and that the    *)
(* store implements the abstract layer of module Once.                     *)
(***************************************************************************)
EXTENDS Idempotency, TLAPS

\* Only a request with a key reaches the statements on idempotency_keys.
KeyedSteps ==
    \A r \in Req :
        pc[r] \in {"insert", "select", "delete", "complete"} => key[r] \in Keys

\* Whoever is about to audit, or to complete on the SQL route, has answered.
AnsweredSteps ==
    \A r \in Req :
        \/ pc[r] = "audit"
        \/ pc[r] = "complete" /\ payload[r] \in SqlPayloads
        => answer[r] \in Answer

\* The type invariant with what makes it inductive.
TypeInv == TypeOK /\ KeyedSteps /\ AnsweredSteps

\* MapError always yields one of the statuses of the gateway, and never success.
LEMMA MapErrorType == \A e : MapError(e) \in Statuses \ {200}
  BY DEF MapError, Statuses

LEMMA AuditStatusType ==
  \A r : /\ AuditStatus(r) \in Statuses
         /\ AuditStatus(r) = 200 <=> outcome[r] = "ok"
  BY MapErrorType DEF AuditStatus, Statuses

\* BeginFails and Refuse answer a problem and leave the handler at "done" or
\* "audit".
LEMMA RefuseType ==
  ASSUME NEW r \in Req, NEW kind \in Kinds, NEW status \in Statuses,
         TypeInv, Refuse(r, kind, status)
  PROVE  /\ answer' \in [Req -> Answer \cup {NoAnswer}]
         /\ answer'[r] \in Answer
         /\ answer'[r].kind = kind /\ answer'[r].status = status
         /\ \A s \in Req \ {r} : answer'[s] = answer[s] /\ pc'[s] = pc[s]
         /\ pc' \in [Req -> Steps]
         /\ pc'[r] \in {"done", "audit"}
         /\ IsSql(r) => pc'[r] = "done"
  <1>1. Problem(r, kind, status) \in Answer
    BY Zenon DEF Problem, Answer, Bodies
  <1>2. QED
    BY <1>1, Zenon DEF Refuse, TypeInv, TypeOK, Goto, Steps, Problem

LEMMA BeginFailsType ==
  ASSUME NEW r \in Req, TypeInv, BeginFails(r)
  PROVE  /\ answer' \in [Req -> Answer \cup {NoAnswer}]
         /\ answer'[r] \in Answer
         /\ answer'[r].kind = "error" /\ answer'[r].status # 200
         /\ \A s \in Req \ {r} : answer'[s] = answer[s] /\ pc'[s] = pc[s]
         /\ pc' \in [Req -> Steps]
         /\ pc'[r] \in {"done", "audit"}
         /\ IsSql(r) => pc'[r] = "done"
  <1>1. PICK status \in Statuses \ {200} : Refuse(r, "error", status)
    BY MapErrorType DEF BeginFails, Statuses
  <1>2. QED
    BY <1>1, RefuseType DEF Kinds

LEMMA InitType == Init => TypeInv
  BY KeyAssumption DEF Init, TypeInv, TypeOK, KeyedSteps, AnsweredSteps, Steps

\* Every step keeps the shape of the table, of the answers and of the handlers.
LEMMA NextType == TypeInv /\ [Next]_vars => TypeInv'
  <1> SUFFICES ASSUME TypeInv, [Next]_vars PROVE TypeInv'
    BY Zenon
  <1> USE DEF TypeInv, TypeOK, KeyedSteps, AnsweredSteps, Goto, IsSql, Keyed,
              HasRow, Steps
  <1>1. ASSUME NEW r \in Req, Arrive(r) PROVE TypeInv'
    BY <1>1, Zenon DEF Arrive
  <1>2. ASSUME NEW r \in Req, Reject(r) PROVE TypeInv'
    <2>1. \A status \in {400, 403, 404, 413, 500} :
             Problem(r, "rejected", status) \in Answer
      BY DEF Problem, Answer, Bodies, Kinds, Statuses
    <2>2. QED
      BY <1>2, <2>1 DEF Reject
  <1>3. ASSUME NEW r \in Req, BeginInsert(r) PROVE TypeInv'
    <2>1. PendingRow(r, payload[r]) \in Row
      BY Zenon DEF PendingRow, Row
    <2>2. table' \in [Keys -> Row \cup {NoRow}]
      BY <1>3, <2>1, Zenon DEF BeginInsert
    <2>3. CASE BeginFails(r)
      BY <1>3, <2>2, <2>3, BeginFailsType DEF BeginInsert
    <2>4. CASE ~BeginFails(r)
      BY <1>3, <2>2, <2>4 DEF BeginInsert
    <2>5. QED
      BY <2>3, <2>4, Zenon
  <1>4. ASSUME NEW r \in Req, BeginConflict(r) PROVE TypeInv'
    BY <1>4, Zenon DEF BeginConflict
  <1>5. ASSUME NEW r \in Req, BeginSelect(r) PROVE TypeInv'
    <2>1. key[r] \in Keys /\ pc[r] = "select"
      BY <1>5, Zenon DEF BeginSelect
    <2>2. ASSUME NEW kind \in Kinds, NEW status \in Statuses,
                 Refuse(r, kind, status)
          PROVE  TypeInv'
      BY <1>5, <2>2, RefuseType DEF BeginSelect
    <2>3. CASE \/ Refuse(r, "error", 500) \/ Refuse(r, "conflict", 409)
               \/ Refuse(r, "in_progress", 500)
      BY <2>2, <2>3 DEF Kinds, Statuses
    <2>4. CASE Goto(r, "delete") /\ UNCHANGED answer
      BY <1>5, <2>1, <2>4, Zenon DEF BeginSelect
    <2>5. ASSUME HasRow(key[r]), table[key[r]].state # "pending",
                 answer' = [answer EXCEPT ![r] =
                          [kind |-> "replay", status |-> table[key[r]].resp.status,
                           body |-> table[key[r]].resp.body,
                           of |-> table[key[r]].resp.of]],
                 Goto(r, "done")
          PROVE  TypeInv'
      <3>1. table[key[r]].resp \in Resp
        BY <2>1, <2>5, Zenon DEF Row
      <3>2. answer'[r] \in Answer
        BY <3>1, <2>5, Zenon DEF Resp, Answer, Kinds
      <3>3. QED
        BY <1>5, <2>5, <3>2, Zenon DEF BeginSelect
    <2>6. QED
      BY <1>5, <2>3, <2>4, <2>5 DEF BeginSelect, Replay
  <1>6. ASSUME NEW r \in Req, BeginDelete(r) PROVE TypeInv'
    <2>1. table' \in [Keys -> Row \cup {NoRow}]
      BY <1>6, Zenon DEF BeginDelete
    <2>2. stolen' \subseteq Req
      BY <1>6 DEF BeginDelete, Row
    <2>3. CASE BeginFails(r)
      BY <1>6, <2>1, <2>2, <2>3, BeginFailsType DEF BeginDelete
    <2>4. CASE ~BeginFails(r)
      BY <1>6, <2>1, <2>2, <2>4 DEF BeginDelete
    <2>5. QED
      BY <2>3, <2>4, Zenon
  <1>7. ASSUME NEW r \in Req, BeginError(r) PROVE TypeInv'
    BY <1>7, BeginFailsType DEF BeginError
  <1>8. ASSUME NEW r \in Req, Execute(r) PROVE TypeInv'
    BY <1>8, ErrorAssumption DEF Execute, AfterExecute, ErrorNames
  <1>9. ASSUME NEW r \in Req, Reply(r) PROVE TypeInv'
    <2>1. answer'[r] \in Answer
      BY <1>9, MapErrorType
      DEF Reply, Problem, Answer, Kinds, Statuses, Bodies
    <2>2. QED
      BY <1>9, <2>1 DEF Reply, AfterReply
  <1>10. ASSUME NEW r \in Req, Complete(r) PROVE TypeInv'
    <2>1. Stored(r) \in Resp
      BY MapErrorType DEF Stored, Resp, Statuses, Bodies
    <2>2. table' \in [Keys -> Row \cup {NoRow}]
      BY <1>10, <2>1 DEF Complete, Row
    <2>3. QED
      BY <1>10, <2>2, Zenon DEF Complete, AfterComplete
  <1>11. ASSUME NEW r \in Req, Audit(r) PROVE TypeInv'
    <2>1. AuditStatus(r) \in Statuses
      BY AuditStatusType
    <2>2. audited' \in [Req -> Statuses \cup {0}]
      BY <1>11, <2>1 DEF Audit, Statuses
    <2>3. QED
      BY <1>11, <2>2 DEF Audit, AfterAudit
  <1>12. ASSUME NEW r \in Req, Crash(r) PROVE TypeInv'
    BY <1>12, Zenon DEF Crash
  <1>13. ASSUME NEW k \in Keys, Lapse(k) PROVE TypeInv'
    BY <1>13, Zenon DEF Lapse, Row
  <1>14. CASE PurgeExpired
    BY <1>14, Zenon DEF PurgeExpired
  <1>15. CASE UNCHANGED vars
    BY <1>15, Zenon DEF vars
  <1> HIDE DEF TypeInv, TypeOK
  <1>16. QED
    BY <1>1, <1>2, <1>3, <1>4, <1>5, <1>6, <1>7, <1>8, <1>9, <1>10, <1>11,
       <1>12, <1>13, <1>14, <1>15, Zenon DEF Next, Handle

\* The table, the handlers and the answers keep their shape in every behaviour.
THEOREM TypeCorrect == Spec => []TypeOK
  <1>1. Spec => []TypeInv
    BY InitType, NextType, PTL DEF Spec
  <1>2. TypeInv => TypeOK
    BY Zenon DEF TypeInv
  <1>3. QED
    BY <1>1, <1>2, PTL

---------------------------------------------------------------------------
(* The steps by what they write *)

\* The steps of a handler that leave the table alone.
Local(r) ==
    \/ Arrive(r) \/ Reject(r) \/ BeginConflict(r) \/ BeginSelect(r) \/ BeginError(r)
    \/ Execute(r) \/ Reply(r) \/ Audit(r) \/ Crash(r)

LEMMA NextCases ==
  [Next]_vars => \/ \E r \in Req : \/ Local(r) \/ BeginInsert(r)
                                   \/ BeginDelete(r) \/ Complete(r)
                 \/ \E k \in Keys : Lapse(k)
                 \/ PurgeExpired
                 \/ UNCHANGED vars
  BY Zenon DEF Next, Handle, Local

LEMMA LocalFrame ==
  ASSUME NEW r \in Req, Local(r)
  PROVE  UNCHANGED <<table, granted, lapsed, stolen, key, payload>>
  <1>1. CASE Arrive(r)
    BY <1>1, Zenon DEF Arrive
  <1>2. CASE Reject(r)
    BY <1>2, Zenon DEF Reject
  <1>3. CASE BeginConflict(r)
    BY <1>3, Zenon DEF BeginConflict
  <1>4. CASE BeginSelect(r)
    BY <1>4, Zenon DEF BeginSelect
  <1>5. CASE BeginError(r)
    BY <1>5, Zenon DEF BeginError
  <1>6. CASE Execute(r)
    BY <1>6, Zenon DEF Execute
  <1>7. CASE Reply(r)
    BY <1>7, Zenon DEF Reply
  <1>8. CASE Audit(r)
    BY <1>8, Zenon DEF Audit
  <1>9. CASE Crash(r)
    BY <1>9, Zenon DEF Crash
  <1>10. QED
    BY <1>1, <1>2, <1>3, <1>4, <1>5, <1>6, <1>7, <1>8, <1>9, Zenon DEF Local

---------------------------------------------------------------------------
(* The row is a lock *)

\* A granted request that is still covered is the owner of the row of its key.
\* This is what OneGrantPerWindow lacks to be inductive: BeginInsert grants
\* only where there is no row, hence where no covered request holds a grant.
GrantHoldsRow ==
    \A r \in granted :
        Covered(r) => /\ key[r] \in Keys
                      /\ HasRow(key[r])
                      /\ table[key[r]].id = r

LEMMA OwnerIsUnique == GrantHoldsRow => OneGrantPerWindow
  BY SMTT(30) DEF GrantHoldsRow, OneGrantPerWindow

\* Coverage is only ever lost.
LEMMA CoverShrinks ==
  [Next]_vars => lapsed \subseteq lapsed' /\ stolen \subseteq stolen'
  BY NextCases, LocalFrame, Zenon
  DEF vars, BeginInsert, BeginDelete, Complete, Lapse, PurgeExpired

\* Keys and payloads are inputs and never change.
LEMMA InputsFixed == [Next]_vars => UNCHANGED <<key, payload>>
  BY NextCases, LocalFrame, Zenon
  DEF vars, BeginInsert, BeginDelete, Complete, Lapse, PurgeExpired

\* Every step keeps each covered grant's row in place.
LEMMA NextGrant == TypeInv /\ GrantHoldsRow /\ [Next]_vars => GrantHoldsRow'
  <1> SUFFICES ASSUME TypeInv, GrantHoldsRow, [Next]_vars,
                      NEW g \in granted', Covered(g)'
               PROVE  /\ key[g] \in Keys
                      /\ table'[key[g]] # NoRow
                      /\ table'[key[g]].id = g
    BY InputsFixed, Zenon DEF GrantHoldsRow, HasRow
  <1>1. Covered(g)
    BY CoverShrinks, Zenon DEF Covered
  <1>2. g \in granted => key[g] \in Keys /\ HasRow(key[g]) /\ table[key[g]].id = g
    BY <1>1, Zenon DEF GrantHoldsRow
  <1> USE <1>1, <1>2 DEF HasRow
  <1>3. CASE UNCHANGED <<table, granted>>
    BY <1>3, Zenon
  <1>4. ASSUME NEW r \in Req, BeginInsert(r)
        PROVE  key[g] \in Keys /\ table'[key[g]] # NoRow /\ table'[key[g]].id = g
    <2>1. key[r] \in Keys /\ table[key[r]] = NoRow
      BY <1>4, Zenon DEF BeginInsert, TypeInv, KeyedSteps
    <2>2. table'[key[r]].id = r /\ table'[key[r]] # NoRow
      BY <1>4, <2>1, Zenon DEF BeginInsert, PendingRow, TypeInv, TypeOK, NoRow
    <2>3. CASE g \in granted
      BY <1>4, <2>1, <2>3, Zenon DEF BeginInsert, TypeInv, TypeOK
    <2>4. CASE g = r
      BY <2>1, <2>2, <2>4, Zenon
    <2>5. QED
      BY <1>4, <2>3, <2>4, Zenon DEF BeginInsert
  <1>5. ASSUME NEW r \in Req, BeginDelete(r)
        PROVE  key[g] \in Keys /\ table'[key[g]] # NoRow /\ table'[key[g]].id = g
    <2>1. g \in granted
      BY <1>5, Zenon DEF BeginDelete
    <2>2. key[g] # key[r]
      BY <1>5, <2>1, Zenon DEF BeginDelete, Covered
    <2>3. QED
      BY <1>5, <2>1, <2>2, Zenon DEF BeginDelete, TypeInv, TypeOK
  <1>6. ASSUME NEW r \in Req, Complete(r)
        PROVE  key[g] \in Keys /\ table'[key[g]] # NoRow /\ table'[key[g]].id = g
    <2>1. g \in granted
      BY <1>6, Zenon DEF Complete
    <2>2. QED
      BY <1>6, <2>1 DEF Complete, TypeInv, TypeOK, NoRow
  <1>7. CASE PurgeExpired
    BY <1>7, Zenon DEF PurgeExpired, Covered
  <1>8. QED
    BY <1>3, <1>4, <1>5, <1>6, <1>7, NextCases, LocalFrame, Zenon DEF vars, Lapse

\* At most one request per key may execute while its row lives: for every
\* interleaving of BeginOrReplay, Complete, the sweep, crashes and lost
\* COMMITs, a second grant needs the first row to be expired or deleted by a
\* reclaim that read an older one.
THEOREM OneGrant == Spec => []OneGrantPerWindow
  <1>1. Init => TypeInv /\ GrantHoldsRow
    BY InitType, Zenon DEF Init, GrantHoldsRow
  <1>2. TypeInv /\ GrantHoldsRow /\ [Next]_vars => (TypeInv /\ GrantHoldsRow)'
    BY NextType, NextGrant, Zenon
  <1>3. QED
    BY <1>1, <1>2, OwnerIsUnique, PTL DEF Spec

---------------------------------------------------------------------------
(* Replays *)

\* Only granted requests execute and complete under a key.
GrantedSteps ==
    \A r \in Req :
        /\ pc[r] = "execute" /\ key[r] \in Keys => r \in granted
        /\ outcome[r] # "none" /\ key[r] \in Keys => r \in granted
        /\ pc[r] \in {"reply", "complete"} => outcome[r] # "none"

\* A row carries the hash of the request that inserted it.
RowHash == \A k \in Keys : HasRow(k) => table[k].hash = payload[table[k].id]

\* A covered response in a row was stored by the request that inserted it.
RespByOwner ==
    \A k \in Keys :
        /\ HasRow(k) /\ table[k].state # "pending" /\ Covered(table[k].resp.of)
        => table[k].resp.of = table[k].id

\* Whoever stored a response has passed its only Complete.
StoredOnce ==
    \A k \in Keys :
        HasRow(k) /\ table[k].state # "pending" => Settled(table[k].resp.of)

ReplayInv == /\ TypeInv /\ GrantHoldsRow /\ GrantedSteps /\ RowHash
             /\ RespByOwner /\ StoredOnce /\ ReplayOfSameRequest

LEMMA InitReplay == Init => ReplayInv
  BY InitType, SMTT(30) DEF Init, ReplayInv, GrantHoldsRow, GrantedSteps, RowHash,
                            RespByOwner, StoredOnce, ReplayOfSameRequest, HasRow, NoAnswer

LEMMA NextGrantedSteps == ReplayInv /\ [Next]_vars => GrantedSteps'
  <1> SUFFICES ASSUME ReplayInv, [Next]_vars PROVE GrantedSteps'
    BY Zenon
  <1> USE DEF ReplayInv, TypeInv, TypeOK, KeyedSteps, GrantedSteps, Goto, Keyed,
              IsSql, Steps
  <1>1. ASSUME NEW r \in Req, Arrive(r) PROVE GrantedSteps'
    BY <1>1, Zenon DEF Arrive
  <1>2. ASSUME NEW r \in Req, Reject(r) PROVE GrantedSteps'
    BY <1>2 DEF Reject
  <1>3. ASSUME NEW r \in Req, BeginInsert(r) PROVE GrantedSteps'
    <2>1. CASE BeginFails(r)
      BY <1>3, <2>1, BeginFailsType DEF BeginInsert
    <2>2. CASE ~BeginFails(r)
      BY <1>3, <2>2, Zenon DEF BeginInsert
    <2>3. QED
      BY <2>1, <2>2, Zenon
  <1>4. ASSUME NEW r \in Req, BeginConflict(r) PROVE GrantedSteps'
    BY <1>4, Zenon DEF BeginConflict
  <1>5. ASSUME NEW r \in Req, BeginSelect(r) PROVE GrantedSteps'
    BY <1>5 DEF BeginSelect, Refuse, Replay
  <1>6. ASSUME NEW r \in Req, BeginDelete(r) PROVE GrantedSteps'
    <2>1. CASE BeginFails(r)
      BY <1>6, <2>1, BeginFailsType DEF BeginDelete
    <2>2. CASE ~BeginFails(r)
      BY <1>6, <2>2, Zenon DEF BeginDelete
    <2>3. QED
      BY <2>1, <2>2, Zenon
  <1>7. ASSUME NEW r \in Req, BeginError(r) PROVE GrantedSteps'
    BY <1>7, BeginFailsType DEF BeginError
  <1>8. ASSUME NEW r \in Req, Execute(r) PROVE GrantedSteps'
    <2>1. "none" \notin ExecErrors
      BY ErrorAssumption, Zenon DEF ErrorNames, PgErrors
    <2>2. QED
      BY <1>8, <2>1 DEF Execute, AfterExecute
  <1>9. ASSUME NEW r \in Req, Reply(r) PROVE GrantedSteps'
    BY <1>9, Zenon DEF Reply, AfterReply
  <1>10. ASSUME NEW r \in Req, Complete(r) PROVE GrantedSteps'
    BY <1>10, Zenon DEF Complete, AfterComplete
  <1>11. ASSUME NEW r \in Req, Audit(r) PROVE GrantedSteps'
    BY <1>11, Zenon DEF Audit, AfterAudit
  <1>12. ASSUME NEW r \in Req, Crash(r) PROVE GrantedSteps'
    BY <1>12, Zenon DEF Crash
  <1>13. CASE UNCHANGED <<pc, outcome, key, granted>>
    BY <1>13, SMTT(30)
  <1>14. QED
    BY <1>1, <1>2, <1>3, <1>4, <1>5, <1>6, <1>7, <1>8, <1>9, <1>10, <1>11,
       <1>12, <1>13 DEF Next, Handle, vars, Lapse, PurgeExpired

\* A step of one handler leaves the others where they are.
LEMMA OthersStay ==
  ASSUME ReplayInv, NEW r \in Req, NEW s \in Req, r # s,
         Arrive(r) \/ Reject(r) \/ Handle(r) \/ Crash(r)
  PROVE  /\ pc'[s] = pc[s] /\ outcome'[s] = outcome[s]
         /\ answer'[s] = answer[s] /\ audited'[s] = audited[s]
         /\ s \in committed' <=> s \in committed
  <1>1. CASE Arrive(r) \/ Reject(r) \/ Crash(r)
    BY <1>1 DEF Arrive, Reject, Crash, ReplayInv, TypeInv, TypeOK, Goto
  <1>2. CASE BeginInsert(r) \/ BeginConflict(r) \/ BeginDelete(r)
    BY <1>2, BeginFailsType
    DEF BeginInsert, BeginConflict, BeginDelete, ReplayInv, TypeInv, TypeOK, Goto
  <1>3. CASE BeginSelect(r)
    BY <1>3 DEF BeginSelect, Refuse, Replay, ReplayInv, TypeInv, TypeOK, Goto
  <1>4. CASE BeginError(r)
    BY <1>4, BeginFailsType DEF BeginError, ReplayInv, TypeInv, TypeOK, Goto
  <1>5. CASE Execute(r) \/ Reply(r)
    BY <1>5 DEF Execute, Reply, ReplayInv, TypeInv, TypeOK, Goto
  <1>6. CASE Complete(r) \/ Audit(r)
    BY <1>6 DEF Complete, Audit, ReplayInv, TypeInv, TypeOK, Goto
  <1>7. QED
    BY <1>1, <1>2, <1>3, <1>4, <1>5, <1>6, Zenon DEF Handle

\* A settled handler stays settled.
LEMMA SettledStays ==
  ASSUME ReplayInv, [Next]_vars, NEW s \in Req, Settled(s)
  PROVE  Settled(s)'
  <1> USE DEF ReplayInv, TypeInv, TypeOK, Settled, Goto, IsSql
  <1>1. \A r \in Req : ~(Arrive(r) /\ r = s) /\ ~(Reject(r) /\ r = s)
    BY SMTT(30) DEF Arrive, Reject
  <1>2. ASSUME NEW r \in Req, r = s, Handle(r) \/ Crash(r)
        PROVE  Settled(s)'
    BY <1>2, SMTT(30) DEF Handle, BeginInsert, BeginConflict, BeginSelect, BeginDelete,
                          BeginError, Execute, Reply, AfterReply, Complete, Audit,
                          AfterAudit, Crash
  <1>3. CASE pc'[s] = pc[s] /\ outcome'[s] = outcome[s]
    BY <1>3, InputsFixed, SMTT(30)
  <1>4. ASSUME NEW r \in Req, r # s, Arrive(r) \/ Reject(r) \/ Handle(r) \/ Crash(r)
        PROVE  pc'[s] = pc[s] /\ outcome'[s] = outcome[s]
    BY <1>4, OthersStay, Zenon
  <1>5. CASE UNCHANGED <<pc, outcome>>
    BY <1>3, <1>5, SMTT(30)
  <1>6. QED
    BY <1>1, <1>2, <1>3, <1>4, <1>5, Zenon DEF Next, vars, Lapse, PurgeExpired

\* What a step can do to one row: nothing, remove it, insert a pending row of
\* an arriving request where there was none, or store a response of a handler
\* at its Complete.
LEMMA RowStep ==
  ASSUME ReplayInv, [Next]_vars, NEW k \in Keys, table'[k] # NoRow
  PROVE  \/ table'[k] = table[k]
         \/ ~HasRow(k) /\ \E r \in Req : table'[k] = PendingRow(r, payload[r])
         \/ \E r \in Req :
              /\ Complete(r) /\ key[r] = k /\ HasRow(k)
              /\ table'[k].id = table[k].id
              /\ table'[k].hash = table[k].hash
              /\ table'[k].resp = Stored(r) /\ table'[k].state # "pending"
  <1> USE DEF ReplayInv, TypeInv, TypeOK, HasRow
  <1>1. ASSUME NEW r \in Req, BeginInsert(r)
        PROVE  \/ table'[k] = table[k]
               \/ ~HasRow(k) /\ table'[k] = PendingRow(r, payload[r])
    BY <1>1, Zenon DEF BeginInsert
  <1>2. ASSUME NEW r \in Req, BeginDelete(r) PROVE table'[k] = table[k]
    BY <1>2, Zenon DEF BeginDelete
  <1>3. ASSUME NEW r \in Req, Complete(r)
        PROVE  \/ table'[k] = table[k]
               \/ /\ key[r] = k /\ HasRow(k)
                  /\ table'[k].id = table[k].id
                  /\ table'[k].hash = table[k].hash
                  /\ table'[k].resp = Stored(r) /\ table'[k].state # "pending"
    BY <1>3 DEF Complete
  <1>4. CASE PurgeExpired
    BY <1>4, Zenon DEF PurgeExpired
  <1>5. CASE UNCHANGED table
    BY <1>5, SMTT(30)
  <1>6. QED
    BY <1>1, <1>2, <1>3, <1>4, <1>5, NextCases, LocalFrame, Zenon DEF vars, Lapse

\* A row never changes its inserter's hash, and its response comes from its
\* inserter unless a request that lost its own row stored it.
LEMMA NextRows == ReplayInv /\ [Next]_vars => RowHash' /\ RespByOwner' /\ StoredOnce'
  <1> SUFFICES ASSUME ReplayInv, [Next]_vars
               PROVE  RowHash' /\ RespByOwner' /\ StoredOnce'
    BY Zenon
  <1> SUFFICES ASSUME NEW k \in Keys, table'[k] # NoRow
               PROVE  /\ table'[k].hash = payload[table'[k].id]
                      /\ \A o \in Req :
                           table'[k].state # "pending" /\ table'[k].resp.of = o
                             => Settled(o)' /\ (Covered(o)' => o = table'[k].id)
    <2>1. \A k \in Keys : table'[k] # NoRow /\ table'[k].state # "pending"
                            => table'[k].resp.of \in Req
      BY NextType, SMTT(30) DEF ReplayInv, TypeInv, TypeOK, Row, Resp
    <2>2. QED
      BY <2>1, InputsFixed, SMTT(30)
      DEF RowHash, RespByOwner, StoredOnce, HasRow, Settled, Covered
  <1> USE DEF ReplayInv, HasRow
  <1>1. CASE table'[k] = table[k]
    BY <1>1, SettledStays, CoverShrinks, Zenon
    DEF RowHash, RespByOwner, StoredOnce, Covered
  <1>2. ASSUME NEW r \in Req, table'[k] = PendingRow(r, payload[r])
        PROVE  table'[k].hash = payload[table'[k].id] /\ table'[k].state = "pending"
    BY <1>2 DEF PendingRow
  <1>3. ASSUME NEW r \in Req, Complete(r), key[r] = k, HasRow(k),
               table'[k].id = table[k].id, table'[k].hash = table[k].hash,
               table'[k].resp = Stored(r)
        PROVE  /\ table'[k].hash = payload[table'[k].id]
               /\ table'[k].resp.of = r
               /\ Settled(r)' /\ (Covered(r)' => r = table'[k].id)
    <2>1. table'[k].resp.of = r
      BY <1>3, SMTT(30) DEF Stored
    <2>2. Settled(r)'
      BY <1>3, InputsFixed, Zenon
      DEF Complete, Settled, AfterComplete, Goto, IsSql, TypeInv, TypeOK
    <2>3. r \in granted
      BY <1>3, Zenon DEF Complete, GrantedSteps
    <2>4. Covered(r)' => table[k].id = r
      BY <1>3, <2>3, CoverShrinks, Zenon DEF GrantHoldsRow, Covered
    <2>5. QED
      BY <1>3, <2>1, <2>2, <2>4, SMTT(30) DEF RowHash
  <1>4. QED
    BY <1>1, <1>2, <1>3, RowStep, SMTT(30)

\* The SELECT goes on to the DELETE, refuses, or replays a terminal row with
\* the request's hash.
LEMMA SelectCases ==
  ASSUME NEW s \in Req, BeginSelect(s)
  PROVE  \/ UNCHANGED answer
         \/ \E kind \in Kinds \ {"replay"}, status \in Statuses : Refuse(s, kind, status)
         \/ /\ HasRow(key[s]) /\ table[key[s]].hash = payload[s]
            /\ table[key[s]].state # "pending"
            /\ Replay(s, table[key[s]])
  <1>1. /\ {"error", "conflict", "in_progress"} \subseteq Kinds \ {"replay"}
        /\ {409, 500} \subseteq Statuses
    BY DEF Kinds, Statuses
  <1>2. \/ UNCHANGED answer
        \/ Refuse(s, "error", 500) \/ Refuse(s, "conflict", 409)
        \/ Refuse(s, "in_progress", 500)
        \/ /\ HasRow(key[s]) /\ table[key[s]].hash = payload[s]
           /\ table[key[s]].state # "pending"
           /\ Replay(s, table[key[s]])
    BY SMTT(30) DEF BeginSelect
  <1>3. QED
    BY <1>1, <1>2

\* A step that produces a replay hands out the response of a terminal row whose
\* hash is the request's.
LEMMA ReplayStep ==
  ASSUME ReplayInv, [Next]_vars, NEW r \in Req, answer'[r].kind = "replay"
  PROVE  \/ answer'[r] = answer[r]
         \/ /\ key[r] \in Keys /\ HasRow(key[r])
            /\ table[key[r]].state # "pending"
            /\ table[key[r]].hash = payload[r]
            /\ answer'[r].of = table[key[r]].resp.of
            /\ answer'[r].status = table[key[r]].resp.status
            /\ answer'[r].body = table[key[r]].resp.body
  <1> USE DEF ReplayInv, TypeInv, TypeOK, KeyedSteps
  <1>1. ASSUME NEW s \in Req, Reject(s) PROVE answer'[r] = answer[r]
    BY <1>1 DEF Reject, Problem
  <1>2. ASSUME NEW s \in Req, BeginFails(s) PROVE answer'[r] = answer[r]
    BY <1>2, BeginFailsType
  <1>3. ASSUME NEW s \in Req, BeginSelect(s)
        PROVE  \/ answer'[r] = answer[r]
               \/ /\ key[r] \in Keys /\ HasRow(key[r])
                  /\ table[key[r]].state # "pending"
                  /\ table[key[r]].hash = payload[r]
                  /\ answer'[r].of = table[key[r]].resp.of
                  /\ answer'[r].status = table[key[r]].resp.status
                  /\ answer'[r].body = table[key[r]].resp.body
    <2>1. CASE s # r
      BY <1>3, <2>1, SMTT(30) DEF BeginSelect, Refuse, Replay
    <2>2. ASSUME NEW kind \in Kinds, NEW status, Refuse(s, kind, status), kind # "replay"
          PROVE  answer'[r] = answer[r]
      BY <2>2, Zenon DEF Refuse, Problem
    <2>3. \/ UNCHANGED answer
          \/ \E kind \in Kinds \ {"replay"}, status \in Statuses : Refuse(s, kind, status)
          \/ /\ HasRow(key[s]) /\ table[key[s]].hash = payload[s]
             /\ table[key[s]].state # "pending"
             /\ Replay(s, table[key[s]])
      BY <1>3, SelectCases, SMTT(30)
    <2>4. key[s] \in Keys
      BY <1>3, Zenon DEF BeginSelect
    <2>5. CASE s = r /\ Replay(s, table[key[s]])
      <3>1. /\ answer'[r].of = table[key[r]].resp.of
            /\ answer'[r].status = table[key[r]].resp.status
            /\ answer'[r].body = table[key[r]].resp.body
        BY <2>5, Zenon DEF Replay
      <3>2. QED
        BY <2>2, <2>3, <2>4, <2>5, <3>1, Zenon
    <2>6. QED
      BY <2>1, <2>2, <2>3, <2>5, Zenon
  <1>4. ASSUME NEW s \in Req, Reply(s) PROVE answer'[r] = answer[r]
    BY <1>4, Zenon DEF Reply, Problem
  <1>5. CASE UNCHANGED answer
    BY <1>5, Zenon
  <1>6. QED
    BY <1>1, <1>2, <1>3, <1>4, <1>5, Zenon DEF Next, Handle, vars, Arrive, BeginInsert,
                                               BeginConflict, BeginDelete, BeginError,
                                               Execute, Complete, Audit, Crash, Lapse,
                                               PurgeExpired

LEMMA NextReplay == ReplayInv /\ [Next]_vars => ReplayOfSameRequest'
  <1> SUFFICES ASSUME ReplayInv, [Next]_vars, NEW r \in Req,
                      answer'[r].kind = "replay",
                      answer'[r].of \notin lapsed', answer'[r].of \notin stolen'
               PROVE  payload[answer'[r].of] = payload[r]
    BY InputsFixed, Zenon DEF ReplayOfSameRequest, Covered
  <1>1. Covered(answer'[r].of)
    BY CoverShrinks, Zenon DEF ReplayInv, Covered
  <1>2. CASE answer'[r] = answer[r]
    BY <1>1, <1>2, Zenon DEF ReplayInv, ReplayOfSameRequest
  <1>3. CASE /\ key[r] \in Keys /\ HasRow(key[r])
             /\ table[key[r]].state # "pending"
             /\ table[key[r]].hash = payload[r]
             /\ answer'[r].of = table[key[r]].resp.of
    BY <1>1, <1>3, Zenon DEF ReplayInv, RowHash, RespByOwner
  <1>4. QED
    BY <1>2, <1>3, ReplayStep, Zenon

LEMMA ReplayInductive == Spec => []ReplayInv
  <1>1. ReplayInv /\ [Next]_vars => ReplayInv'
    BY NextType, NextGrant, NextGrantedSteps, NextRows, NextReplay, Zenon DEF ReplayInv
  <1>2. QED
    BY InitReplay, <1>1, PTL DEF Spec

\* A replay never hands out the response of a different request, unless the
\* request that produced it had lost its row before it completed.
THEOREM ReplaySameRequest == Spec => []ReplayOfSameRequest
  <1>1. ReplayInv => ReplayOfSameRequest
    BY Zenon DEF ReplayInv
  <1>2. QED
    BY <1>1, ReplayInductive, PTL

\* All replays of one window are the same: a terminal row is not rewritten
\* except by, or after, the Complete of a request that had lost its own row.
THEOREM TerminalFinal == Spec => TerminalRowIsFinal
  <1>1. ASSUME ReplayInv, [Next]_vars, NEW k \in Keys,
               HasRow(k), table[k].state # "pending",
               table'[k] # NoRow, table'[k].id = table[k].id,
               Covered(table[k].resp.of), table'[k] # table[k]
        PROVE  table'[k].state # "pending" /\ ~Covered(table'[k].resp.of)
    <2> USE DEF ReplayInv
    <2>1. table[k].resp.of = table[k].id /\ Settled(table[k].id)
      BY <1>1, Zenon DEF RespByOwner, StoredOnce
    <2>2. ASSUME NEW r \in Req, Complete(r), key[r] = k, table'[k].resp = Stored(r)
          PROVE  ~Covered(table'[k].resp.of)
      <3>1. table'[k].resp.of = r /\ pc[r] = "complete" /\ r \in granted
        BY <1>1, <2>2 DEF Stored, Complete, GrantedSteps
      <3>2. Covered(r) => table[k].id = r
        BY <1>1, <2>2, <3>1, Zenon DEF GrantHoldsRow
      <3>3. QED
        BY <2>1, <3>1, <3>2, Zenon DEF Settled
    <2>3. QED
      BY <1>1, <2>2, RowStep, Zenon
  <1>2. ReplayInv /\ [Next]_vars => [TerminalRowKept]_vars
    BY <1>1, Zenon DEF TerminalRowKept
  <1>3. QED
    BY <1>2, ReplayInductive, PTL DEF Spec, TerminalRowIsFinal



---------------------------------------------------------------------------
(* What clients and the audit log are told *)

Front == {"idle", "insert", "select", "delete", "execute"}
Refusals == {"conflict", "in_progress", "error", "rejected"}

\* The answer of a handler that executed.
Said(r) ==
    IF outcome[r] # "ok" THEN Problem(r, "executed", MapError(outcome[r]))
    ELSE [kind |-> "executed", status |-> 200, of |-> r,
          body |-> IF IsSql(r) THEN "rows" ELSE "CallResult"]

\* How far a handler has come, what its execution did and what it has said
\* agree: it answers once, from its own outcome, and audits what it answered.
Trip(r) ==
    /\ pc[r] \in Front => outcome[r] = "none"
    /\ pc[r] \in {"reply", "complete"} \/ answer[r].kind = "executed"
         => outcome[r] # "none"
    /\ pc[r] = "audit" /\ IsSql(r) /\ outcome[r] = "none" => answer[r].status = 400
    /\ pc[r] = "complete" /\ IsSql(r) /\ outcome[r] # "ok" => audited[r] # 0
    /\ pc[r] = "done" /\ r \in committed => audited[r] # 0
    /\ audited[r] = 200 => r \in committed
    /\ pc[r] \in Front \cup {"reply"} \/ (pc[r] = "complete" /\ ~IsSql(r))
         => answer[r] = NoAnswer /\ audited[r] = 0
    /\ pc[r] = "complete" /\ IsSql(r) => answer[r].kind = "executed"
    /\ outcome[r] = "ok" => r \in committed
    /\ outcome[r] \in PgErrors \cup {"none"} => r \notin committed
    /\ answer[r].kind = "executed" => answer[r] = Said(r)
    /\ answer[r].kind \notin {"none", "executed"} => outcome[r] = "none"
    /\ answer[r].kind \in Refusals => answer[r].status # 200
    /\ IsSql(r) /\ audited[r] # 0
         => answer[r].kind # "none" /\ audited[r] = answer[r].status

\* A status and a body, stored or replayed, that fit what the execution of o
\* committed (com) and what its client was sent (ans).
Fits(o, status, body, com, ans) ==
    /\ status = 200 => o \in com
    /\ IsSql(o) => /\ ans[o].kind = "executed"
                   /\ ans[o].status = status /\ ans[o].body = body

RowsFit ==
    \A k \in Keys : HasRow(k) /\ table[k].state # "pending"
        => Fits(table[k].resp.of, table[k].resp.status, table[k].resp.body, committed, answer)

ReplaysFit ==
    \A r \in Req : answer[r].kind = "replay"
        => Fits(answer[r].of, answer[r].status, answer[r].body, committed, answer)

Trips == \A r \in Req : Trip(r)
TruthInv == ReplayInv /\ Trips /\ RowsFit /\ ReplaysFit

\* A handler that is refused before it executes has said so, and is through.
LEMMA RefusedTrip ==
  ASSUME NEW r \in Req, Trip(r), pc[r] \in Front, pc'[r] \in {"done", "audit"},
         answer'[r].kind \in Refusals, answer'[r].status # 200,
         pc'[r] = "audit" /\ IsSql(r) => answer'[r].status = 400,
         UNCHANGED <<outcome, audited, committed, payload>>
  PROVE  Trip(r)'
  BY SMTT(30) DEF Trip, Front, Refusals, IsSql

\* One that only moves on within BeginOrReplay, or dies, has said nothing new.
LEMMA MovedTrip ==
  ASSUME NEW r \in Req, Trip(r),
         pc'[r] = "dead" \/ (pc[r] \in Front /\ pc'[r] \in Front),
         UNCHANGED <<outcome, answer, audited, committed, payload>>
  PROVE  Trip(r)'
  BY SMTT(30) DEF Trip, Front, Said, IsSql

\* Every step of a handler keeps its own account straight.
LEMMA OwnTrip ==
  ASSUME ReplayInv, Trips, [Next]_vars, NEW r \in Req,
         Arrive(r) \/ Reject(r) \/ Handle(r) \/ Crash(r)
  PROVE  Trip(r)'
  <1>1. Trip(r) /\ pc \in [Req -> Steps] /\ UNCHANGED payload
    BY InputsFixed, Zenon DEF Trips, ReplayInv, TypeInv, TypeOK
  <1>2. CASE Arrive(r) \/ BeginConflict(r) \/ Crash(r)
    BY <1>1, <1>2, MovedTrip, Zenon DEF Arrive, BeginConflict, Crash, Goto, Front
  <1>3. ASSUME BeginFails(r), pc[r] \in Front, UNCHANGED <<outcome, audited, committed>>
        PROVE  Trip(r)'
    BY <1>1, <1>3, BeginFailsType, RefusedTrip DEF ReplayInv, Refusals
  <1>4. CASE BeginInsert(r) \/ BeginDelete(r) \/ BeginError(r)
    BY <1>1, <1>3, <1>4, MovedTrip, Zenon DEF BeginInsert, BeginDelete, BeginError, Goto, Front
  <1>5. CASE Reject(r)
    <2>1. /\ pc[r] \in Front /\ pc'[r] \in {"done", "audit"}
          /\ answer'[r].kind = "rejected" /\ answer'[r].status # 200
          /\ pc'[r] = "audit" /\ IsSql(r) => answer'[r].status = 400
          /\ UNCHANGED <<outcome, audited, committed>>
      BY <1>1, <1>5 DEF Reject, Goto, Problem, Front, ReplayInv, TypeInv, TypeOK
    <2>2. QED
      BY <1>1, <2>1, RefusedTrip DEF Refusals
  <1>6. CASE BeginSelect(r)
    <2>1. pc[r] \in Front /\ UNCHANGED <<outcome, audited, committed>>
      BY <1>6, Zenon DEF BeginSelect, Front
    <2>2. ASSUME NEW kind \in Refusals, NEW status \in Statuses \ {200}, Refuse(r, kind, status)
          PROVE  Trip(r)'
      BY <1>1, <2>1, <2>2, RefuseType, RefusedTrip DEF ReplayInv, Refusals, Kinds
    <2>3. CASE Replay(r, table[key[r]])
      <3>1. pc'[r] = "done" /\ answer'[r].kind = "replay"
        BY <1>1, <2>3, Zenon DEF Replay, Goto, ReplayInv, TypeInv, TypeOK
      <3>2. QED
        BY <1>1, <2>1, <3>1, SMTT(30) DEF Trip, Front, Refusals, IsSql
    <2>4. CASE Goto(r, "delete") /\ UNCHANGED answer
      BY <1>1, <2>1, <2>4, MovedTrip, Zenon DEF Goto, Front
    <2>5. /\ {"error", "conflict", "in_progress"} \subseteq Refusals
          /\ {409, 500} \subseteq Statuses \ {200}
      BY DEF Refusals, Statuses
    <2>6. QED
      BY <1>6, <2>2, <2>3, <2>4, <2>5 DEF BeginSelect
  <1>7. CASE Execute(r)
    <2>1. /\ pc[r] = "execute" /\ UNCHANGED <<answer, audited>>
          /\ \/ pc'[r] = "reply"
             \/ pc'[r] = "complete" /\ ~IsSql(r)
      BY <1>1, <1>7, Zenon DEF Execute, Goto, AfterExecute
    <2>2. /\ outcome'[r] # "none"
          /\ outcome'[r] = "ok" => r \in committed'
          /\ outcome'[r] \in PgErrors \cup {"none"} => r \notin committed'
      BY <1>1, <1>7, <2>1, ErrorAssumption
         DEF Execute, Trip, Front, PgErrors, ErrorNames, ReplayInv, TypeInv, TypeOK
    <2>3. QED
      BY <1>1, <2>1, <2>2, SMTT(30) DEF Trip, Front, Refusals, NoAnswer, IsSql
  <1>8. CASE Reply(r)
    <2>1. /\ pc[r] = "reply" /\ UNCHANGED <<outcome, audited, committed>>
          /\ pc'[r] = "audit" \/ (pc'[r] = "complete" /\ IsSql(r) /\ outcome[r] = "ok")
      BY <1>1, <1>8, Zenon DEF Reply, Goto, AfterReply
    <2>2. answer'[r] = Said(r) /\ answer'[r].kind = "executed"
      BY <1>8, Zenon DEF Reply, Said, Problem, ReplayInv, TypeInv, TypeOK
    <2>3. Said(r)' = Said(r)
      BY <1>1, <2>1, Zenon DEF Said, IsSql
    <2>4. QED
      BY <1>1, <2>1, <2>2, <2>3, SMTT(30) DEF Trip, Front, Refusals, IsSql
  <1>9. CASE Complete(r)
    <2>1. /\ pc[r] = "complete" /\ UNCHANGED <<outcome, answer, audited, committed>>
          /\ \/ pc'[r] = "reply" /\ ~IsSql(r)
             \/ pc'[r] = "audit"
             \/ pc'[r] = "done" /\ IsSql(r) /\ outcome[r] # "ok"
      BY <1>1, <1>9, Zenon DEF Complete, Goto, AfterComplete
    <2>2. QED
      BY <1>1, <2>1, SMTT(30) DEF Trip, Front, Said, IsSql
  <1>10. CASE Audit(r)
    <2>1. /\ pc[r] = "audit" /\ UNCHANGED <<outcome, answer, committed>>
          /\ pc'[r] = "done" \/ (pc'[r] = "complete" /\ IsSql(r) /\ outcome[r] # "none")
      BY <1>1, <1>10, Zenon DEF Audit, Goto, AfterAudit
    <2>2. answer[r] \in Answer /\ audited'[r] = AuditStatus(r)
      BY <1>10, <2>1, Zenon DEF Audit, ReplayInv, TypeInv, TypeOK, AnsweredSteps
    <2>3. answer[r].kind \in Kinds
      BY <2>2, Zenon DEF Answer
    <2>4. audited'[r] # 0 /\ (audited'[r] = 200 => r \in committed)
      BY <1>1, <2>2, AuditStatusType DEF Trip, Statuses
    <2>5. IsSql(r) => audited'[r] = answer[r].status
      <3>1. CASE outcome[r] = "none"
        BY <1>1, <2>1, <2>2, <3>1 DEF Trip, AuditStatus
      <3>2. CASE outcome[r] # "none"
        <4>1. answer[r] = Said(r)
          BY <1>1, <2>3, <3>2 DEF Trip, Kinds
        <4>2. QED
          BY <2>2, <3>2, <4>1 DEF Said, Problem, AuditStatus
      <3>3. QED
        BY <3>1, <3>2
    <2>6. QED
      BY <1>1, <2>1, <2>3, <2>4, <2>5, SMTT(30) DEF Trip, Front, Said, Kinds, IsSql
  <1>11. QED
    BY <1>2, <1>4, <1>5, <1>6, <1>7, <1>8, <1>9, <1>10, Zenon DEF Handle

LEMMA NextTrips == ReplayInv /\ Trips /\ [Next]_vars => Trips'
  <1> SUFFICES ASSUME ReplayInv, Trips, [Next]_vars, NEW s \in Req PROVE Trip(s)'
    BY Zenon DEF Trips
  <1>1. CASE /\ pc'[s] = pc[s] /\ outcome'[s] = outcome[s]
             /\ answer'[s] = answer[s] /\ audited'[s] = audited[s]
             /\ s \in committed' <=> s \in committed
    BY <1>1, InputsFixed, SMTT(30) DEF Trips, Trip, Said, IsSql
  <1>2. ASSUME NEW r \in Req, Arrive(r) \/ Reject(r) \/ Handle(r) \/ Crash(r)
        PROVE  Trip(s)'
    BY <1>1, <1>2, OwnTrip, OthersStay, Zenon
  <1>3. CASE UNCHANGED <<pc, outcome, answer, audited, committed>>
    BY <1>1, <1>3, Zenon
  <1>4. QED
    BY <1>2, <1>3, Zenon DEF Next, vars, Lapse, PurgeExpired

\* What has been said of an execution stays true: commits are never undone, and
\* nobody is answered twice.
LEMMA FitStays ==
  ASSUME ReplayInv, Trips, [Next]_vars, NEW o \in Req, NEW status, NEW body,
         Fits(o, status, body, committed, answer)
  PROVE  Fits(o, status, body, committed', answer')
  <1>1. Trip(o)
    BY Zenon DEF Trips
  <1>2. CASE answer'[o] = answer[o] /\ (o \in committed => o \in committed')
    BY <1>2, InputsFixed, Zenon DEF Fits, IsSql
  <1>3. ASSUME NEW r \in Req, r # o, Arrive(r) \/ Reject(r) \/ Handle(r) \/ Crash(r)
        PROVE  answer'[o] = answer[o] /\ (o \in committed => o \in committed')
    BY <1>3, OthersStay, Zenon
  <1>4. ASSUME Arrive(o) \/ Reject(o) \/ Handle(o) \/ Crash(o)
        PROVE  Fits(o, status, body, committed', answer')
    <2>1. UNCHANGED answer \/ pc[o] \in Front \cup {"reply"}
      BY <1>4, Zenon DEF Arrive, Reject, Crash, Handle, BeginInsert, BeginConflict,
                         BeginSelect, BeginDelete, BeginError, Execute, Reply, Complete,
                         Audit, Front
    <2>2. committed \subseteq committed'
      BY <1>4, Zenon DEF Arrive, Reject, Crash, Handle, BeginInsert, BeginConflict,
                         BeginSelect, BeginDelete, BeginError, Execute, Reply, Complete,
                         Audit
    <2>3. pc[o] \in Front \cup {"reply"} => ~IsSql(o)
      BY <1>1 DEF Trip, Fits, NoAnswer
    <2>4. QED
      BY <1>2, <2>1, <2>2, <2>3, InputsFixed, Zenon DEF Fits, IsSql
  <1>5. CASE UNCHANGED <<answer, committed>>
    BY <1>2, <1>5, Zenon
  <1>6. QED
    BY <1>2, <1>3, <1>4, <1>5, Zenon DEF Next, vars, Lapse, PurgeExpired

\* handleSQLExecute stores what it said, and either route a 200 only for what
\* was committed.
LEMMA StoredFits ==
  ASSUME ReplayInv, Trips, NEW r \in Req, pc[r] = "complete"
  PROVE  Fits(r, Stored(r).status, Stored(r).body, committed, answer)
  <1>1. Trip(r)
    BY Zenon DEF Trips
  <1>2. Stored(r).status = 200 => outcome[r] = "ok"
    BY MapErrorType DEF Stored
  <1>3. IsSql(r) => answer[r] = Said(r) /\ answer[r].kind = "executed"
    BY <1>1, Zenon DEF Trip
  <1>4. IsSql(r) => Said(r).status = Stored(r).status /\ Said(r).body = Stored(r).body
    BY Zenon DEF Said, Stored, Problem
  <1>5. QED
    BY <1>1, <1>2, <1>3, <1>4 DEF Trip, Fits

LEMMA NextRowsFit == TruthInv /\ [Next]_vars => RowsFit'
  <1> SUFFICES ASSUME TruthInv, [Next]_vars, NEW k \in Keys,
                      table'[k] # NoRow, table'[k].state # "pending"
               PROVE  Fits(table'[k].resp.of, table'[k].resp.status, table'[k].resp.body,
                           committed', answer')
    BY InputsFixed, Zenon DEF RowsFit, HasRow, Fits, IsSql
  <1> USE DEF TruthInv
  <1>1. CASE table'[k] = table[k]
    <2>1. table[k].resp.of \in Req
      BY <1>1, Zenon DEF ReplayInv, TypeInv, TypeOK, Row, Resp
    <2>2. Fits(table[k].resp.of, table[k].resp.status, table[k].resp.body, committed, answer)
      BY <1>1, Zenon DEF RowsFit, HasRow
    <2>3. \A o \in Req : \A s, b :
             Fits(o, s, b, committed, answer) => Fits(o, s, b, committed', answer')
      BY FitStays, Zenon
    <2>4. QED
      BY <1>1, <2>1, <2>2, <2>3, Zenon
  <1>2. ASSUME NEW r \in Req, Complete(r), table'[k].resp = Stored(r)
        PROVE  Fits(table'[k].resp.of, table'[k].resp.status, table'[k].resp.body,
                    committed', answer')
    <2>1. Fits(r, Stored(r).status, Stored(r).body, committed, answer)
      BY <1>2, StoredFits, Zenon DEF Complete
    <2>2. \A s, b : Fits(r, s, b, committed, answer) => Fits(r, s, b, committed', answer')
      BY FitStays, Zenon
    <2>3. Stored(r).of = r
      BY Zenon DEF Stored
    <2>4. QED
      BY <1>2, <2>1, <2>2, <2>3, Zenon
  <1>3. ASSUME NEW r \in Req PROVE table'[k] # PendingRow(r, payload[r])
    BY DEF PendingRow
  <1>4. QED
    BY <1>1, <1>2, <1>3, RowStep, Zenon

LEMMA NextReplaysFit == TruthInv /\ [Next]_vars => ReplaysFit'
  <1> SUFFICES ASSUME TruthInv, [Next]_vars, NEW r \in Req, answer'[r].kind = "replay"
               PROVE  Fits(answer'[r].of, answer'[r].status, answer'[r].body, committed', answer')
    BY InputsFixed, Zenon DEF ReplaysFit, Fits, IsSql
  <1> USE DEF TruthInv
  <1>1. \A o \in Req : \A s, b :
             Fits(o, s, b, committed, answer) => Fits(o, s, b, committed', answer')
    BY FitStays, Zenon
  <1>2. CASE answer'[r] = answer[r]
    <2>1. answer[r].of \in Req
      BY <1>2 DEF ReplayInv, TypeInv, TypeOK, Answer, NoAnswer
    <2>2. QED
      BY <1>1, <1>2, <2>1, Zenon DEF ReplaysFit
  <1>3. CASE /\ key[r] \in Keys /\ HasRow(key[r])
             /\ table[key[r]].state # "pending"
             /\ answer'[r].of = table[key[r]].resp.of
             /\ answer'[r].status = table[key[r]].resp.status
             /\ answer'[r].body = table[key[r]].resp.body
    <2>1. table[key[r]].resp.of \in Req
      BY <1>3, Zenon DEF ReplayInv, TypeInv, TypeOK, Row, Resp, HasRow
    <2>2. QED
      BY <1>1, <1>3, <2>1, Zenon DEF RowsFit
  <1>4. QED
    BY <1>2, <1>3, ReplayStep, Zenon

LEMMA TruthInductive == Spec => []TruthInv
  <1>1. Init => Trips /\ RowsFit /\ ReplaysFit
    BY DEF Init, Trips, Trip, RowsFit, ReplaysFit, HasRow, Front, Refusals, NoAnswer, PgErrors
  <1>2. ReplayInv /\ ReplayInv' /\ TruthInv /\ [Next]_vars => TruthInv'
    BY NextTrips, NextRowsFit, NextReplaysFit, Zenon DEF TruthInv
  <1>3. Init /\ ReplayInv => TruthInv
    BY <1>1, Zenon DEF TruthInv
  <1>4. QED
    BY <1>2, <1>3, ReplayInductive, PTL DEF Spec

\* A replay on the SQL route repeats what the request that executed was sent,
\* whatever was reclaimed, swept or completed late in between.
THEOREM SqlReplays == Spec => []SqlReplayMatchesOriginal
  <1>1. TruthInv => SqlReplayMatchesOriginal
    BY Zenon DEF TruthInv, ReplaysFit, Fits, SqlReplayMatchesOriginal
  <1>2. QED
    BY <1>1, TruthInductive, PTL

\* No client is told of a commit that did not happen, nor of a failure with a
\* SQLSTATE, a conflict or a refusal of something that was committed.
THEOREM AnswersAreTrue == Spec => []AnswerTellsTheTruth
  <1>1. ASSUME TruthInv, NEW r \in Req, answer[r].kind # "none", answer[r].status = 200
        PROVE  answer[r].of \in committed
    <2>1. answer[r].kind \in {"executed", "replay"} \cup Refusals
      BY <1>1 DEF TruthInv, ReplayInv, TypeInv, TypeOK, Answer, NoAnswer, Kinds, Refusals
    <2>2. CASE answer[r].kind = "executed"
      <3>1. answer[r] = Said(r) /\ Trip(r)
        BY <1>1, <2>2 DEF TruthInv, Trips, Trip
      <3>2. outcome[r] = "ok" /\ answer[r].of = r
        BY <1>1, <3>1, MapErrorType DEF Said, Problem
      <3>3. QED
        BY <3>1, <3>2, Zenon DEF Trip
    <2>3. QED
      BY <1>1, <2>1, <2>2 DEF TruthInv, Trips, Trip, ReplaysFit, Fits
  <1>2. ASSUME TruthInv, NEW r \in Req
        PROVE  /\ answer[r].kind = "executed" /\ outcome[r] \in PgErrors => r \notin committed
               /\ answer[r].kind \in {"conflict", "in_progress", "rejected"}
                    => r \notin committed
    BY <1>2 DEF TruthInv, Trips, Trip
  <1>3. TruthInv => AnswerTellsTheTruth
    BY <1>1, <1>2, Zenon DEF AnswerTellsTheTruth
  <1>4. QED
    BY <1>3, TruthInductive, PTL

\* What was committed is audited before its handler returns, a success is only
\* logged for a commit, and the SQL route logs the status it sent.
THEOREM AuditsCoverCommits == Spec => []CommitsAreAudited
  <1>1. ASSUME NEW r \in Req, Trip(r)
        PROVE  /\ r \in committed /\ pc[r] = "done" => audited[r] # 0
               /\ audited[r] = 200 => r \in committed
               /\ IsSql(r) /\ audited[r] # 0
                    => answer[r].kind # "none" /\ audited[r] = answer[r].status
    BY <1>1 DEF Trip
  <1>2. TruthInv => CommitsAreAudited
    BY <1>1 DEF TruthInv, Trips, CommitsAreAudited
  <1>3. QED
    BY <1>2, TruthInductive, PTL

---------------------------------------------------------------------------
(* The abstract layer *)

\* A granted request has a key and is past BeginOrReplay; a replayed one has
\* nothing left to do.
Progress ==
    /\ \A r \in granted :
         key[r] \in Keys /\ pc[r] \notin {"idle", "insert", "select", "delete"}
    /\ \A r \in Req : answer[r].kind = "replay" => pc[r] = "done"

LEMMA NextProgress == ReplayInv /\ Progress /\ [Next]_vars => Progress'
  <1> SUFFICES ASSUME ReplayInv, Progress, [Next]_vars PROVE Progress'
    BY Zenon
  <1> USE DEF ReplayInv, TypeInv, TypeOK, KeyedSteps, Progress, Goto, IsSql, Keyed
  <1>1. ASSUME NEW r \in Req, Arrive(r) PROVE Progress'
    BY <1>1, Zenon DEF Arrive
  <1>2. ASSUME NEW r \in Req, Reject(r) PROVE Progress'
    BY <1>2 DEF Reject, Problem
  <1>3. ASSUME NEW r \in Req, BeginInsert(r) PROVE Progress'
    <2>1. CASE BeginFails(r) /\ UNCHANGED granted
      BY <1>3, <2>1, BeginFailsType DEF BeginInsert
    <2>2. CASE granted' = granted \cup {r} /\ Goto(r, "execute") /\ UNCHANGED answer
      BY <1>3, <2>2, Zenon DEF BeginInsert
    <2>3. QED
      BY <1>3, <2>1, <2>2, Zenon DEF BeginInsert
  <1>4. ASSUME NEW r \in Req, BeginConflict(r) PROVE Progress'
    BY <1>4, Zenon DEF BeginConflict
  <1>5. ASSUME NEW r \in Req, BeginSelect(r) PROVE Progress'
    <2>1. r \notin granted /\ UNCHANGED <<granted, key>> /\ pc[r] = "select"
      BY <1>5, Zenon DEF BeginSelect
    <2>2. ASSUME NEW kind \in Kinds \ {"replay"}, NEW status \in Statuses,
                 Refuse(r, kind, status)
          PROVE  Progress'
      BY <2>1, <2>2, RefuseType
    <2>3. CASE Replay(r, table[key[r]])
      BY <2>1, <2>3, Zenon DEF Replay
    <2>4. CASE UNCHANGED answer /\ Goto(r, "delete")
      BY <2>1, <2>4, Zenon
    <2>5. "error" \in Kinds \ {"replay"} /\ "conflict" \in Kinds \ {"replay"}
          /\ "in_progress" \in Kinds \ {"replay"} /\ {409, 500} \subseteq Statuses
      BY DEF Kinds, Statuses
    <2>6. QED
      BY <1>5, <2>2, <2>3, <2>4, <2>5 DEF BeginSelect
  <1>6. ASSUME NEW r \in Req, BeginDelete(r) PROVE Progress'
    <2>1. CASE BeginFails(r)
      BY <1>6, <2>1, BeginFailsType DEF BeginDelete
    <2>2. CASE UNCHANGED answer /\ Goto(r, "insert")
      BY <1>6, <2>2, Zenon DEF BeginDelete
    <2>3. QED
      BY <1>6, <2>1, <2>2, Zenon DEF BeginDelete
  <1>7. ASSUME NEW r \in Req, BeginError(r) PROVE Progress'
    BY <1>7, BeginFailsType DEF BeginError
  <1>8. ASSUME NEW r \in Req, Execute(r) PROVE Progress'
    BY <1>8, Zenon DEF Execute, AfterExecute
  <1>9. ASSUME NEW r \in Req, Reply(r) PROVE Progress'
    BY <1>9, Zenon DEF Reply, AfterReply, Problem
  <1>10. ASSUME NEW r \in Req, Complete(r) PROVE Progress'
    BY <1>10, Zenon DEF Complete, AfterComplete
  <1>11. ASSUME NEW r \in Req, Audit(r) PROVE Progress'
    BY <1>11, Zenon DEF Audit, AfterAudit
  <1>12. ASSUME NEW r \in Req, Crash(r) PROVE Progress'
    BY <1>12, Zenon DEF Crash, InFlight
  <1>13. CASE UNCHANGED <<pc, key, answer, granted>>
    BY <1>13, Zenon
  <1>14. QED
    BY <1>1, <1>2, <1>3, <1>4, <1>5, <1>6, <1>7, <1>8, <1>9, <1>10, <1>11,
       <1>12, <1>13 DEF Next, Handle, vars, Lapse, PurgeExpired

---------------------------------------------------------------------------
(* One step of the store is one step of the layer, or none *)

\* A step that leaves the rows and the replays alone, and takes no handler
\* past its Complete unless it dies, is no step of the layer or the end of a
\* stray.
LEMMA QuietStep ==
  ASSUME ReplayInv, Progress, NEW r \in Req, UNCHANGED <<table, granted, key, payload>>,
         Replayed' = Replayed,
         \A s \in Req \ {r} : Settled(s)' = Settled(s),
         Settled(r) => Settled(r)'
  PROVE  Layer!Leave(r) \/ UNCHANGED Layer!vars
  <1> USE DEF Holder, Stands, Strays, Owns, HasRow
  <1>1. Holder' = Holder /\ Stands' = Stands
    BY Zenon
  <1>2. \A s \in granted : Owns(s)' = Owns(s)
    BY Zenon
  <1>3. Strays' = Strays \/ (r \in Strays /\ Strays' = Strays \ {r})
    <2>1. granted \subseteq Req
      BY Zenon DEF ReplayInv, TypeInv, TypeOK
    <2>2. CASE Settled(r)' = Settled(r)
      BY <1>2, <2>1, <2>2, Zenon
    <2>3. CASE ~Settled(r) /\ Settled(r)'
      BY <1>2, <2>1, <2>3, Zenon
    <2>4. QED
      BY <2>2, <2>3, Zenon DEF Settled
  <1>4. QED
    BY <1>1, <1>3, Zenon DEF Layer!Leave, Layer!vars

\* The handlers other than r stay settled or unsettled in a step of r, and r
\* stays settled.
LEMMA SettledStep ==
  ASSUME ReplayInv, [Next]_vars, NEW r \in Req,
         Arrive(r) \/ Reject(r) \/ Handle(r) \/ Crash(r)
  PROVE  /\ \A s \in Req \ {r} : Settled(s)' = Settled(s)
         /\ Settled(r) => Settled(r)'
  <1>1. \A s \in Req \ {r} : pc'[s] = pc[s] /\ outcome'[s] = outcome[s]
    BY OthersStay, Zenon
  <1>2. \A s \in Req \ {r} : Settled(s)' = Settled(s)
    BY <1>1, InputsFixed, Zenon DEF Settled, IsSql
  <1>3. QED
    BY <1>2, SettledStays, Zenon

\* What a request that neither had nor gets a replay is answered changes no
\* replay.
LEMMA SameReplays ==
  ASSUME NEW r \in Req, answer[r].kind # "replay", answer'[r].kind # "replay",
         \A s \in Req \ {r} : answer'[s] = answer[s]
  PROVE  Replayed' = Replayed
  BY Zenon DEF Replayed

\* An error of BeginOrReplay is not a replay.
LEMMA FailureReplays ==
  ASSUME NEW r \in Req, TypeInv, answer[r].kind # "replay", BeginFails(r)
  PROVE  Replayed' = Replayed
  <1>1. /\ answer'[r].kind = "error"
        /\ \A s \in Req \ {r} : answer'[s] = answer[s]
    BY BeginFailsType
  <1>2. QED
    BY <1>1, SameReplays, Zenon

\* The steps of a handler outside BeginOrReplay's writes and Complete, and
\* those of BeginOrReplay that fail, hand out no replay.
LEMMA QuietHandlers ==
  ASSUME ReplayInv, Progress, [Next]_vars, NEW r \in Req,
         \/ Arrive(r) \/ Reject(r) \/ BeginConflict(r) \/ BeginError(r)
         \/ Execute(r) \/ Reply(r) \/ Audit(r) \/ Crash(r)
  PROVE  Layer!Leave(r) \/ UNCHANGED Layer!vars
  <1> USE DEF ReplayInv, TypeInv, TypeOK
  <1>1. UNCHANGED <<table, granted>>
    BY Zenon DEF Arrive, Reject, BeginConflict, BeginError, Execute, Reply, Audit, Crash
  <1>2. ASSUME Reject(r) PROVE Replayed' = Replayed
    BY <1>2, SameReplays DEF Reject, Problem, Progress
  <1>3. ASSUME BeginError(r) PROVE Replayed' = Replayed
    <2>1. BeginFails(r) /\ answer[r].kind # "replay"
      BY <1>3, Zenon DEF BeginError, Progress
    <2>2. QED
      BY <2>1, FailureReplays, Zenon
  <1>4. ASSUME Reply(r) PROVE Replayed' = Replayed
    <2>1. answer[r].kind # "replay" /\ answer'[r].kind # "replay"
      BY <1>4 DEF Reply, Problem, Progress
    <2>2. \A s \in Req \ {r} : answer'[s] = answer[s]
      BY <1>4, OthersStay DEF Handle
    <2>3. QED
      BY <2>1, <2>2, SameReplays, Zenon
  <1>5. ASSUME UNCHANGED answer PROVE Replayed' = Replayed
    BY <1>5, Zenon DEF Replayed
  <1>6. Replayed' = Replayed
    BY <1>2, <1>3, <1>4, <1>5, Zenon DEF Arrive, BeginConflict, Execute, Audit, Crash
  <1>7. QED
    BY <1>1, <1>6, QuietStep, SettledStep, InputsFixed, Zenon DEF Handle

\* The INSERT opens a window for its request.
LEMMA InsertGrants ==
  ASSUME ReplayInv, Progress, [Next]_vars, NEW r \in Req, BeginInsert(r)
  PROVE  Layer!Grant(key[r], r) /\ key[r] \in Keys
  <1> USE DEF ReplayInv, TypeInv, TypeOK, HasRow
  <1>1. /\ key[r] \in Keys /\ table[key[r]] = NoRow /\ r \notin granted
        /\ answer[r].kind # "replay" /\ UNCHANGED <<key, payload>>
        /\ table' = [table EXCEPT ![key[r]] = PendingRow(r, payload[r])]
    BY Zenon DEF BeginInsert, KeyedSteps, Progress
  <1>2. PendingRow(r, payload[r]) # NoRow
    BY Zenon DEF PendingRow, NoRow
  <1>3. Holder[key[r]] = {} /\ Holder' = [Holder EXCEPT ![key[r]] = {r}]
    BY <1>1, <1>2, Zenon DEF Holder, PendingRow
  <1>4. Stands' = Stands
    BY <1>1, <1>2, Zenon DEF Stands, PendingRow
  <1>5. Replayed' = Replayed
    <2>1. CASE BeginFails(r)
      BY <1>1, <2>1, FailureReplays, Zenon
    <2>2. CASE UNCHANGED answer
      BY <2>2, Zenon DEF Replayed
    <2>3. QED
      BY <2>1, <2>2, Zenon DEF BeginInsert
  <1>6. \A s \in granted : Owns(s)' = Owns(s)
    BY <1>1, <1>2, Zenon DEF Owns, PendingRow, Progress
  <1>7. r \in granted' => Owns(r)'
    BY <1>1, <1>2, Zenon DEF Owns, PendingRow
  <1>8. \A s \in granted : Settled(s)' = Settled(s)
    BY <1>1, SettledStep DEF Handle
  <1>9. granted' = granted \/ granted' = granted \cup {r}
    BY Zenon DEF BeginInsert
  <1>10. Strays' = Strays
    BY <1>6, <1>7, <1>8, <1>9, Zenon DEF Strays
  <1>11. QED
    BY <1>1, <1>3, <1>4, <1>5, <1>10, Zenon DEF Layer!Grant

\* The SELECT replays the response of the window, or hands out none.
LEMMA SelectReplays ==
  ASSUME ReplayInv, Progress, [Next]_vars, NEW r \in Req, BeginSelect(r)
  PROVE  \/ Layer!Leave(r) \/ UNCHANGED Layer!vars
         \/ Layer!Replay(key[r], r) /\ key[r] \in Keys
  <1> USE DEF ReplayInv, TypeInv, TypeOK, HasRow
  <1>1. /\ key[r] \in Keys /\ r \notin granted /\ answer[r].kind # "replay"
        /\ UNCHANGED <<table, granted, key, payload>>
    BY Zenon DEF BeginSelect, KeyedSteps, Progress
  <1>2. ASSUME NEW kind \in Kinds \ {"replay"}, NEW status \in Statuses,
               Refuse(r, kind, status)
        PROVE  Replayed' = Replayed
    <2>1. answer'[r].kind = kind /\ \A s \in Req \ {r} : answer'[s] = answer[s]
      BY <1>2, RefuseType, Zenon
    <2>2. QED
      BY <1>1, <1>2, <2>1, Zenon DEF Replayed
  <1>3. CASE Replayed' = Replayed
    BY <1>1, <1>3, QuietStep, SettledStep, Zenon DEF Handle
  <1>4. CASE /\ table[key[r]] # NoRow /\ table[key[r]].state # "pending"
             /\ Replay(r, table[key[r]])
    <2>1. Stands[key[r]] = {table[key[r]].resp.of}
      BY <1>1, <1>4, Zenon DEF Stands
    <2>2. Replayed' = [Replayed EXCEPT ![r] = Stands[key[r]]]
      <3>1. answer' = [answer EXCEPT ![r] =
                        [kind |-> "replay", status |-> table[key[r]].resp.status,
                         body |-> table[key[r]].resp.body,
                         of |-> table[key[r]].resp.of]]
        BY <1>4, Zenon DEF Replay
      <3>2. answer'[r].kind = "replay" /\ answer'[r].of = table[key[r]].resp.of
        BY <3>1, Zenon
      <3>3. \A s \in Req \ {r} : answer'[s] = answer[s]
        BY <3>1, Zenon
      <3>4. QED
        BY <2>1, <3>2, <3>3, Zenon DEF Replayed
    <2>3. \A s \in granted : Owns(s)' = Owns(s) /\ Settled(s)' = Settled(s)
      BY <1>1, SettledStep, Zenon DEF Owns, Handle
    <2>4. Holder' = Holder /\ Stands' = Stands /\ Strays' = Strays
      BY <1>1, <2>3, Zenon DEF Holder, Stands, Strays
    <2>5. QED
      BY <1>1, <2>1, <2>2, <2>4, Zenon DEF Layer!Replay
  <1>5. QED
    <2>1. UNCHANGED answer => Replayed' = Replayed
      BY Zenon DEF Replayed
    <2>2. QED
      BY <1>2, <1>3, <1>4, <2>1, SelectCases, Zenon

\* Rows are removed only as a whole: the windows of K end, and no handler
\* moves past its Complete.
LEMMA RemovalEnds ==
  ASSUME ReplayInv, Progress, NEW K \in SUBSET Keys, \A k \in K : HasRow(k),
         table' = [k \in Keys |-> IF k \in K THEN NoRow ELSE table[k]],
         UNCHANGED <<key, granted>>, Replayed' = Replayed,
         \A s \in granted : Settled(s)' = Settled(s)
  PROVE  Layer!End(K)
  <1> USE DEF ReplayInv, TypeInv, TypeOK, HasRow
  <1>1. \A k \in K : Holder[k] = {table[k].id} /\ Holder[k] # {}
    BY Zenon DEF Holder
  <1>2. Holder' = [k \in Keys |-> IF k \in K THEN {} ELSE Holder[k]]
    BY Zenon DEF Holder
  <1>3. Stands' = [k \in Keys |-> IF k \in K THEN {} ELSE Stands[k]]
    BY Zenon DEF Stands
  <1>4. \A s \in granted : key[s] \in Keys
    BY Zenon DEF Progress
  <1>5. \A s \in granted : Owns(s)' <=> Owns(s) /\ key[s] \notin K
    BY <1>4, Zenon DEF Owns
  <1>6. Strays \subseteq Strays'
    BY <1>5, Zenon DEF Strays
  <1>7. ASSUME NEW s \in Strays', s \notin Strays
        PROVE  s \in UNION {Holder[k] : k \in K}
    <2>1. s \in granted /\ Owns(s) /\ key[s] \in K
      BY <1>5, <1>7, Zenon DEF Strays
    <2>2. s \in Holder[key[s]]
      BY <1>1, <2>1, Zenon DEF Owns
    <2>3. QED
      BY <2>1, <2>2
  <1>8. QED
    BY <1>1, <1>2, <1>3, <1>6, <1>7, Zenon DEF Layer!End

\* The reclaim's DELETE ends the window of its key, whoever holds it.
LEMMA DeleteEnds ==
  ASSUME ReplayInv, Progress, [Next]_vars, NEW r \in Req, BeginDelete(r)
  PROVE  \E K \in SUBSET Keys : Layer!End(K)
  <1> USE DEF ReplayInv, TypeInv, TypeOK, HasRow
  <1>1. /\ key[r] \in Keys /\ r \notin granted /\ answer[r].kind # "replay"
        /\ UNCHANGED <<granted, key, payload>>
        /\ table' = [table EXCEPT ![key[r]] = NoRow]
    BY Zenon DEF BeginDelete, KeyedSteps, Progress
  <1> DEFINE K == {k \in {key[r]} : HasRow(k)}
  <1>2. table' = [k \in Keys |-> IF k \in K THEN NoRow ELSE table[k]]
    BY <1>1, Zenon
  <1>3. Replayed' = Replayed
    <2>1. CASE BeginFails(r)
      BY <1>1, <2>1, FailureReplays, Zenon
    <2>2. CASE UNCHANGED answer
      BY <2>2, Zenon DEF Replayed
    <2>3. QED
      BY <2>1, <2>2, Zenon DEF BeginDelete
  <1>4. \A s \in granted : Settled(s)' = Settled(s)
    BY <1>1, SettledStep, Zenon DEF Handle
  <1>5. K \in SUBSET Keys /\ \A k \in K : HasRow(k)
    BY <1>1, Zenon
  <1> HIDE DEF K
  <1>6. QED
    BY <1>1, <1>2, <1>3, <1>4, <1>5, RemovalEnds, Zenon

\* The sweep ends the windows that have lapsed.
LEMMA PurgeEnds ==
  ASSUME ReplayInv, Progress, PurgeExpired
  PROVE  \E K \in SUBSET Keys : Layer!End(K)
  <1> DEFINE K == {k \in Keys : HasRow(k) /\ table[k].id \in lapsed}
  <1>1. table' = [k \in Keys |-> IF k \in K THEN NoRow ELSE table[k]]
    BY Zenon DEF PurgeExpired
  <1>2. UNCHANGED <<key, granted>> /\ Replayed' = Replayed
    BY Zenon DEF PurgeExpired, Replayed
  <1>3. \A s \in granted : Settled(s)' = Settled(s)
    BY Zenon DEF PurgeExpired, Settled, IsSql
  <1>4. K \in SUBSET Keys /\ \A k \in K : HasRow(k)
    BY Zenon
  <1> HIDE DEF K
  <1>5. QED
    BY <1>1, <1>2, <1>3, <1>4, RemovalEnds, Zenon

\* Complete stores the response of the holder, or of a stray that then leaves.
LEMMA CompleteAnswers ==
  ASSUME ReplayInv, Progress, [Next]_vars, NEW r \in Req, Complete(r)
  PROVE  /\ key[r] \in Keys
         /\ \/ Layer!Leave(r) \/ UNCHANGED Layer!vars
            \/ Layer!Answer(key[r]) \/ Layer!Misfile(key[r], r)
  <1> USE DEF ReplayInv, TypeInv, TypeOK, HasRow
  <1>1. /\ key[r] \in Keys /\ r \in granted /\ ~Settled(r)
        /\ UNCHANGED <<granted, key, payload, answer>>
    BY Zenon DEF Complete, KeyedSteps, GrantedSteps, Settled
  <1>2. Settled(r)'
    BY <1>1, Zenon DEF Complete, Settled, AfterComplete, Goto, IsSql
  <1>3. \A s \in granted \ {r} : Settled(s)' = Settled(s)
    BY SettledStep, Zenon DEF Handle
  <1>4. Replayed' = Replayed
    BY <1>1, Zenon DEF Replayed
  <1>5. CASE UNCHANGED table
    BY <1>1, <1>4, <1>5, QuietStep, SettledStep, Zenon DEF Handle
  <1>6. CASE ~HasRow(key[r])
    <2>1. UNCHANGED table
      BY <1>1, <1>6 DEF Complete
    <2>2. QED
      BY <1>5, <2>1, Zenon
  <1>7. ASSUME HasRow(key[r]),
               table' = [table EXCEPT ![key[r]] =
                  [id |-> table[key[r]].id, hash |-> table[key[r]].hash,
                   state |-> IF outcome[r] = "ok" THEN "done" ELSE "failed",
                   resp |-> Stored(r)]]
        PROVE  Layer!Answer(key[r]) \/ Layer!Misfile(key[r], r)
    <2>1. /\ table'[key[r]].id = table[key[r]].id
          /\ table'[key[r]].state # "pending"
          /\ table'[key[r]].resp.of = r
          /\ table'[key[r]] # NoRow
      BY <1>1, <1>7 DEF Stored, NoRow
    <2>2. \A k \in Keys \ {key[r]} : table'[k] = table[k]
      BY <1>1, <1>7, Zenon
    <2>3. Holder' = Holder /\ Holder[key[r]] = {table[key[r]].id}
      BY <1>1, <1>7, <2>1, <2>2, ZenonT(30) DEF Holder
    <2>4. Stands' = [Stands EXCEPT ![key[r]] = {r}]
      BY <1>1, <2>1, <2>2, Zenon DEF Stands
    <2>5. \A s \in granted : Owns(s)' = Owns(s)
      BY <1>1, <1>7, <2>1, <2>2 DEF Owns, Progress
    <2>6. CASE Owns(r)
      <3>1. Strays' = Strays
        BY <1>1, <1>2, <1>3, <2>5, <2>6, Zenon DEF Strays
      <3>2. Stands[key[r]] # {r}
        <4>1. table[key[r]].state # "pending" => table[key[r]].resp.of # r
          BY <1>1, <1>7, Zenon DEF StoredOnce
        <4>2. Stands[key[r]] \in {{table[key[r]].resp.of}, {}}
          BY <1>1, Zenon DEF Stands
        <4>3. table[key[r]].state = "pending" => Stands[key[r]] = {}
          BY <1>1, Zenon DEF Stands
        <4>4. QED
          BY <4>1, <4>2, <4>3, ZenonT(30)
      <3>3. Holder[key[r]] = {r}
        BY <2>3, <2>6, Zenon DEF Owns
      <3>4. QED
        BY <1>4, <2>3, <2>4, <3>1, <3>2, <3>3, Zenon DEF Layer!Answer
    <2>7. CASE ~Owns(r)
      <3>1. r \in Strays /\ Strays' = Strays \ {r}
        BY <1>1, <1>2, <1>3, <2>5, <2>7, Zenon DEF Strays
      <3>2. QED
        BY <1>4, <2>3, <2>4, <3>1, Zenon DEF Layer!Misfile
    <2>8. QED
      BY <2>6, <2>7, Zenon
  <1>8. QED
    BY <1>1, <1>5, <1>6, <1>7, Zenon DEF Complete

\* The table and the handlers of the gateway implement the abstract layer, for
\* any number of requests and keys and whatever expires, is reclaimed, swept
\* or crashes.
THEOREM Refinement == Spec => ImplementsOnce
  <1>1. Init => Layer!Init
    <2>1. ASSUME Init PROVE Holder = [k \in Keys |-> {}] /\ Stands = [k \in Keys |-> {}]
      BY <2>1, Zenon DEF Init, Holder, Stands, HasRow
    <2>2. ASSUME Init PROVE Strays = {} /\ Replayed = [r \in Req |-> {}]
      BY <2>2, Zenon DEF Init, Strays, Replayed, NoAnswer
    <2>3. QED
      BY <2>1, <2>2, Zenon DEF Layer!Init
  <1>2. Init => Progress
    BY DEF Init, Progress, NoAnswer
  <1>3. ReplayInv /\ Progress /\ [Next]_vars => [Layer!Next]_(Layer!vars)
    <2> SUFFICES ASSUME ReplayInv, Progress, [Next]_vars
                 PROVE  Layer!Next \/ UNCHANGED Layer!vars
      BY Zenon
    <2>1. ASSUME NEW r \in Req, Arrive(r) \/ Reject(r) \/ Handle(r) \/ Crash(r)
          PROVE  Layer!Next \/ UNCHANGED Layer!vars
      <3>1. CASE \/ Arrive(r) \/ Reject(r) \/ BeginConflict(r) \/ BeginError(r)
                 \/ Execute(r) \/ Reply(r) \/ Audit(r) \/ Crash(r)
        BY <3>1, QuietHandlers, Zenon DEF Layer!Next
      <3>2. CASE BeginInsert(r)
        BY <3>2, InsertGrants, Zenon DEF Layer!Next
      <3>3. CASE BeginSelect(r)
        BY <3>3, SelectReplays, Zenon DEF Layer!Next
      <3>4. CASE BeginDelete(r)
        BY <3>4, DeleteEnds, Zenon DEF Layer!Next
      <3>5. CASE Complete(r)
        BY <3>5, CompleteAnswers, Zenon DEF Layer!Next
      <3>6. QED
        BY <2>1, <3>1, <3>2, <3>3, <3>4, <3>5, Zenon DEF Handle
    <2>2. CASE PurgeExpired
      BY <2>2, PurgeEnds, Zenon DEF Layer!Next
    <2>3. CASE UNCHANGED <<table, pc, outcome, payload, key, answer, granted>>
      BY <2>3, Zenon DEF Layer!vars, Holder, Stands, Strays, Replayed, Owns, Settled,
                         IsSql, HasRow
    <2>4. QED
      BY <2>1, <2>2, <2>3, Zenon DEF Next, Lapse, vars
  <1>4. Spec => []Progress
    BY <1>2, NextProgress, ReplayInductive, PTL DEF Spec
  <1>5. QED
    BY <1>1, <1>3, <1>4, ReplayInductive, PTL DEF Spec, ImplementsOnce, Layer!Spec

============================================================================
