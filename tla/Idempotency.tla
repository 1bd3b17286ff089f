---------------------------- MODULE Idempotency ----------------------------
(***************************************************************************)
(* The Idempotency-Key state machine of the gateway: the table             *)
(* idempotency_keys, the store that reads and writes it                    *)
(* (internal/rpc/idempotency.go) and the two handlers that drive it,       *)
(* POST /v1/sql/execute (internal/httpapi/api.go, handleSQLExecute) and    *)
(* POST /v1/rpc/call (handleRPCCall with rpc.Dispatcher.Call).             *)
(*                                                                         *)
(* A request is a process.  Each SQL statement it sends is one atomic      *)
(* step, because Postgres runs at READ COMMITTED and every transaction of  *)
(* the store holds a single writing statement followed by its COMMIT; the  *)
(* gaps between statements are where other requests interleave.            *)
(***************************************************************************)
EXTENDS Naturals

CONSTANTS
    Req,          \* HTTP requests; a retry is another request
    Keys,         \* (workspace_id, Idempotency-Key) pairs
    NoKey,        \* the request carries no Idempotency-Key header
    Headers,      \* the Idempotency-Key headers the clients send
    SqlPayloads,  \* request hashes of POST /v1/sql/execute
    RpcPayloads,  \* request hashes of POST /v1/rpc/call
    ExecErrors,   \* the errors Execute and run may return
    HandlersOutliveTTL \* may a handler run longer than the 24 h of its row?

ASSUME KeyAssumption == NoKey \notin Keys /\ Headers \subseteq Keys \cup {NoKey}

\* HashRequest hashes method and path too, so no hash belongs to both routes.
ASSUME HashAssumption == SqlPayloads \cap RpcPayloads = {}

ASSUME BoolAssumption == HandlersOutliveTTL \in BOOLEAN

Payloads == SqlPayloads \cup RpcPayloads

VARIABLES
    table,     \* idempotency_keys: key -> row or NoRow
    pc,        \* where each handler is
    key,       \* the Idempotency-Key each request carries
    payload,   \* the hash of each request's method, path and body
    outcome,   \* what Execute / run returned: "none", "ok" or an error
    answer,    \* the HTTP response sent to each client
    audited,   \* the status handed to audit.Writer.Write, 0 for no call
    committed, \* requests whose statement was committed in Postgres
    granted,   \* history: requests BeginOrReplay told to go ahead
    lapsed,    \* requests whose row has passed its expires_at
    stolen     \* history: requests whose unexpired row a reclaim deleted

vars == <<table, pc, key, payload, outcome, answer, audited, committed,
          granted, lapsed, stolen>>

---------------------------------------------------------------------------
(* Data *)

\* The errors MapError tells apart (internal/httpapi/errors.go); "internal"
\* is every error without a SQLSTATE: a lost connection, a cancelled context.
PgErrors == {"permission_denied", "undefined_object", "integrity_violation",
             "invalid_input", "statement_timeout", "too_many_connections",
             "database_error"}
ErrorNames == PgErrors \cup {"internal", "response_too_large"}

ASSUME ErrorAssumption == ExecErrors \subseteq ErrorNames

MapError(e) ==
    CASE e = "response_too_large"                      -> 413
      [] e = "permission_denied"                       -> 403
      [] e \in {"undefined_object", "invalid_input"}   -> 400
      [] e = "integrity_violation"                     -> 409
      [] e = "statement_timeout"                       -> 408
      [] e = "too_many_connections"                    -> 503
      [] OTHER                                         -> 500

Statuses == {200, 400, 403, 404, 408, 409, 413, 500, 503}
Bodies == {"problem", "rows", "CallResult", "result_map"}

NoResp == [status |-> 0, body |-> "none"]
\* A stored response also names the request whose execution produced it.
Resp == [status : Statuses, body : Bodies, of : Req]

NoRow == [state |-> "none"]
PendingRow(r, h) == [id |-> r, hash |-> h, state |-> "pending", resp |-> NoResp]
Row == [id : Req, hash : Payloads, state : {"pending"}, resp : {NoResp}]
         \cup [id : Req, hash : Payloads, state : {"done", "failed"}, resp : Resp]

NoAnswer == [kind |-> "none"]
Kinds == {"executed", "replay", "conflict", "in_progress", "error", "rejected"}
Answer == [kind : Kinds, status : Statuses, body : Bodies, of : Req]

Problem(r, kind, status) ==
    [kind |-> kind, status |-> status, body |-> "problem", of |-> r]

IsSql(r) == payload[r] \in SqlPayloads
Keyed(r) == key[r] \in Keys
HasRow(k) == table[k] # NoRow

Steps == {"idle", "insert", "select", "delete", "execute", "reply",
          "complete", "audit", "done", "dead"}
InFlight(r) == pc[r] \notin {"idle", "done", "dead"}

Goto(r, step) == pc' = [pc EXCEPT ![r] = step]

---------------------------------------------------------------------------
Init ==
    /\ table = [k \in Keys |-> NoRow]
    /\ pc = [r \in Req |-> "idle"]
    /\ key \in [Req -> Headers]
    /\ payload \in [Req -> Payloads]
    /\ outcome = [r \in Req |-> "none"]
    /\ answer = [r \in Req |-> NoAnswer]
    /\ audited = [r \in Req |-> 0]
    /\ committed = {}
    /\ granted = {}
    /\ lapsed = {}
    /\ stolen = {}


---------------------------------------------------------------------------
(* The front of the handlers *)

\* A request that is well formed, valid and (RPC) permitted by the registry:
\* with a key it enters BeginOrReplay, without one it is executed at once.
Arrive(r) ==
    /\ pc[r] = "idle"
    /\ Goto(r, IF Keyed(r) THEN "insert" ELSE "execute")
    /\ UNCHANGED <<table, key, payload, outcome, answer, audited, committed,
                   granted, lapsed, stolen>>

\* The early returns ahead of the idempotency layer.  An unreadable body or
\* bad JSON is not audited; a statement the validator refuses, an unknown
\* procedure, a role or schema mismatch is.
Reject(r) ==
    /\ pc[r] = "idle"
    /\ \/ /\ \E status \in {400, 413} :
               answer' = [answer EXCEPT ![r] = Problem(r, "rejected", status)]
          /\ Goto(r, "done")
       \/ /\ \E status \in IF IsSql(r) THEN {400} ELSE {403, 404, 500} :
               answer' = [answer EXCEPT ![r] = Problem(r, "rejected", status)]
          /\ Goto(r, "audit")
    /\ UNCHANGED <<table, key, payload, outcome, audited, committed, granted,
                   lapsed, stolen>>

---------------------------------------------------------------------------
(* IdempotencyStore.BeginOrReplay *)

\* BeginOrReplay returned without a grant.  handleSQLExecute answers and
\* returns; handleRPCCall answers and audits.
Refuse(r, kind, status) ==
    /\ answer' = [answer EXCEPT ![r] = Problem(r, kind, status)]
    /\ Goto(r, IF IsSql(r) THEN "done" ELSE "audit")

\* Any error that is not ErrIdempotencyConflict: 500 from handleSQLExecute,
\* MapError from handleRPCCall.
BeginFails(r) ==
    \E status \in IF IsSql(r) THEN {500}
                  ELSE {MapError(e) : e \in (ExecErrors \cap PgErrors) \cup {"internal"}} :
        Refuse(r, "error", status)

\* Seeded fault: the INSERT replaces the row of a key that has one.
BeginInsertUpsert(r) ==
    /\ pc[r] = "insert"
    /\ table' = [table EXCEPT ![key[r]] = PendingRow(r, payload[r])]
    /\ granted' = granted \cup {r}
    /\ Goto(r, "execute")
    /\ UNCHANGED <<key, payload, outcome, answer, audited, committed, lapsed, stolen>>

\* INSERT ... ON CONFLICT DO NOTHING inserted the row and the transaction
\* committed.  If COMMIT itself reports an error the row may be there although
\* the caller is told that BeginOrReplay failed.
BeginInsert(r) ==
    /\ pc[r] = "insert"
    /\ ~HasRow(key[r])
    /\ table' = [table EXCEPT ![key[r]] = PendingRow(r, payload[r])]
    /\ \/ /\ granted' = granted \cup {r}
          /\ Goto(r, "execute")
          /\ UNCHANGED answer
       \/ /\ BeginFails(r)
          /\ UNCHANGED granted
    /\ UNCHANGED <<key, payload, outcome, audited, committed, lapsed, stolen>>

\* Seeded fault: ON CONFLICT DO UPDATE makes the row pending again.
BeginConflictReset(r) ==
    /\ pc[r] = "insert"
    /\ HasRow(key[r])
    /\ table' = [table EXCEPT ![key[r]] = PendingRow(@.id, @.hash)]
    /\ Goto(r, "select")
    /\ UNCHANGED <<key, payload, outcome, answer, audited, committed, granted,
                   lapsed, stolen>>

\* The INSERT hit the unique constraint and did nothing.
BeginConflict(r) ==
    /\ pc[r] = "insert"
    /\ HasRow(key[r])
    /\ Goto(r, "select")
    /\ UNCHANGED <<table, key, payload, outcome, answer, audited, committed,
                   granted, lapsed, stolen>>

\* What BeginOrReplay returns from a terminal row.
Replay(r, row) ==
    /\ answer' = [answer EXCEPT ![r] =
                    [kind |-> "replay", status |-> row.resp.status,
                     body |-> row.resp.body, of |-> row.resp.of]]
    /\ Goto(r, "done")

\* Seeded fault: the stored hash is not compared.
BeginSelectNoHash(r) ==
    /\ pc[r] = "select"
    /\ HasRow(key[r]) /\ table[key[r]].id \notin lapsed
    /\ table[key[r]].state # "pending"
    /\ Replay(r, table[key[r]])
    /\ UNCHANGED <<table, key, payload, outcome, audited, committed, granted,
                   lapsed, stolen>>

\* The SELECT and the decision taken on the row it returned.  The row may have
\* gone since the INSERT saw it (pgx.ErrNoRows).
BeginSelect(r) ==
    LET row == table[key[r]] IN
    /\ pc[r] = "select"
    /\ \/ /\ ~HasRow(key[r])
          /\ Refuse(r, "error", 500)
       \/ /\ HasRow(key[r])
          /\ row.id \in lapsed
          /\ Goto(r, "delete")
          /\ UNCHANGED answer
       \/ /\ HasRow(key[r])
          /\ row.id \notin lapsed
          /\ row.hash # payload[r]
          /\ Refuse(r, "conflict", 409)
       \/ /\ HasRow(key[r])
          /\ row.id \notin lapsed
          /\ row.hash = payload[r]
          /\ row.state = "pending"
          /\ Refuse(r, "in_progress", 500)
       \/ /\ HasRow(key[r])
          /\ row.id \notin lapsed
          /\ row.hash = payload[r]
          /\ row.state # "pending"
          /\ Replay(r, row)
    /\ UNCHANGED <<table, key, payload, outcome, audited, committed, granted,
                   lapsed, stolen>>

\* The row read was stale: DELETE by (workspace_id, key), COMMIT, and call
\* BeginOrReplay again.  The DELETE names neither the row's id nor its
\* expiry, so it removes whatever row the key has by now.
BeginDelete(r) ==
    /\ pc[r] = "delete"
    /\ table' = [table EXCEPT ![key[r]] = NoRow]
    /\ stolen' = IF HasRow(key[r]) /\ table[key[r]].id \notin lapsed
                 THEN stolen \cup {table[key[r]].id} ELSE stolen
    /\ \/ Goto(r, "insert") /\ UNCHANGED answer
       \/ BeginFails(r)
    /\ UNCHANGED <<key, payload, outcome, audited, committed, granted, lapsed>>

\* Any statement of BeginOrReplay failing without effect.
BeginError(r) ==
    /\ pc[r] \in {"insert", "select", "delete"}
    /\ BeginFails(r)
    /\ UNCHANGED <<table, key, payload, outcome, audited, committed, granted,
                   lapsed, stolen>>

---------------------------------------------------------------------------
(* Execution, response, Complete, audit *)

\* The steps a handler still has to take.  handleSQLExecute answers the client
\* before Complete, and audits before Complete on failure but after it on
\* success; Dispatcher.Call completes before handleRPCCall answers and audits.
AfterExecute(r) == IF IsSql(r) \/ ~Keyed(r) THEN "reply" ELSE "complete"
AfterReply(r) ==
    IF IsSql(r) /\ Keyed(r) /\ outcome[r] = "ok" THEN "complete" ELSE "audit"
AfterAudit(r) ==
    IF IsSql(r) /\ Keyed(r) /\ outcome[r] \notin {"none", "ok"}
    THEN "complete" ELSE "done"

\* Seeded fault: handleSQLExecute returns once Complete is through.
AfterCompleteReturn(r) == IF ~IsSql(r) THEN "reply" ELSE "done"

AfterComplete(r) ==
    IF ~IsSql(r) THEN "reply" ELSE IF outcome[r] = "ok" THEN "audit" ELSE "done"

\* Executor.Execute or Dispatcher.run, one transaction.  A SQLSTATE means it
\* was rolled back.  Without one ("internal": connection lost, context
\* cancelled around COMMIT) it may have been committed.  A SQL response too
\* large is refused before COMMIT by the executor and after it by the handler.
Execute(r) ==
    /\ pc[r] = "execute"
    /\ \/ /\ outcome' = [outcome EXCEPT ![r] = "ok"]
          /\ committed' = committed \cup {r}
       \/ /\ \E e \in ExecErrors \cap PgErrors :
               outcome' = [outcome EXCEPT ![r] = e]
          /\ UNCHANGED committed
       \/ /\ \E e \in ExecErrors \ PgErrors :
               /\ e = "response_too_large" => IsSql(r)
               /\ outcome' = [outcome EXCEPT ![r] = e]
          /\ \/ committed' = committed \cup {r}
             \/ UNCHANGED committed
    /\ Goto(r, AfterExecute(r))
    /\ UNCHANGED <<table, key, payload, answer, audited, granted, lapsed, stolen>>

\* WriteProblem, the 200 of handleSQLExecute or the WriteJSON of handleRPCCall.
Reply(r) ==
    /\ pc[r] = "reply"
    /\ answer' = [answer EXCEPT ![r] =
         IF outcome[r] # "ok" THEN Problem(r, "executed", MapError(outcome[r]))
         ELSE [kind |-> "executed", status |-> 200, of |-> r,
               body |-> IF IsSql(r) THEN "rows" ELSE "CallResult"]]
    /\ Goto(r, AfterReply(r))
    /\ UNCHANGED <<table, key, payload, outcome, audited, committed, granted,
                   lapsed, stolen>>

\* Seeded fault: failures are stored without a status, which replays as 200.
StoredNoStatus(r) ==
    [status |-> 200, body |-> IF outcome[r] = "ok" THEN "rows" ELSE "problem",
     of |-> r]

\* Seeded fault: the SQL route stores 500 for every error, as the RPC one does.
Stored500(r) ==
    [status |-> IF outcome[r] = "ok" THEN 200 ELSE 500,
     body |-> IF outcome[r] = "ok" THEN "rows" ELSE "problem", of |-> r]

\* The response Complete stores.  handleSQLExecute stores what it sent;
\* Dispatcher.Call stores its own map, with status 500 for every error.
Stored(r) ==
    IF IsSql(r)
    THEN [status |-> IF outcome[r] = "ok" THEN 200 ELSE MapError(outcome[r]),
          body   |-> IF outcome[r] = "ok" THEN "rows" ELSE "problem", of |-> r]
    ELSE [status |-> IF outcome[r] = "ok" THEN 200 ELSE 500,
          body   |-> "result_map", of |-> r]

\* Seeded fault: the UPDATE is retried until it finds a row.
CompleteUntilStored(r) ==
    /\ pc[r] = "complete"
    /\ HasRow(key[r])
    /\ table' = [table EXCEPT ![key[r]] =
                    [id |-> @.id, hash |-> @.hash, state |-> "done", resp |-> Stored(r)]]
    /\ Goto(r, AfterComplete(r))
    /\ UNCHANGED <<key, payload, outcome, answer, audited, committed, granted,
                   lapsed, stolen>>

\* IdempotencyStore.Complete: UPDATE by (workspace_id, key), whatever row that
\* is, nothing if there is none.  It runs on the request's context, so it
\* fails when the client has gone; the failure is only logged.
Complete(r) ==
    /\ pc[r] = "complete"
    /\ \/ table' = [table EXCEPT ![key[r]] =
            IF HasRow(key[r])
            THEN [id |-> table[key[r]].id, hash |-> table[key[r]].hash,
                  state |-> IF outcome[r] = "ok" THEN "done" ELSE "failed",
                  resp |-> Stored(r)]
            ELSE NoRow]
       \/ UNCHANGED table
    /\ Goto(r, AfterComplete(r))
    /\ UNCHANGED <<key, payload, outcome, answer, audited, committed, granted,
                   lapsed, stolen>>

\* The status a handler gives API.audit, at each place it calls it: literals for
\* a refused statement, for success and for every RPC error, else MapError's.
AuditStatus(r) ==
    CASE outcome[r] = "ok"               -> 200
      [] outcome[r] # "ok" /\ ~IsSql(r)  -> 500
      [] outcome[r] = "none" /\ IsSql(r) -> 400
      [] OTHER                           -> MapError(outcome[r])

\* API.audit
Audit(r) ==
    /\ pc[r] = "audit"
    /\ audited' = [audited EXCEPT ![r] = AuditStatus(r)]
    /\ Goto(r, AfterAudit(r))
    /\ UNCHANGED <<table, key, payload, outcome, answer, committed, granted,
                   lapsed, stolen>>

---------------------------------------------------------------------------
(* The environment *)

\* The gateway process serving r stops.
Crash(r) ==
    /\ InFlight(r)
    /\ Goto(r, "dead")
    /\ UNCHANGED <<table, key, payload, outcome, answer, audited, committed,
                   granted, lapsed, stolen>>

\* 24 h pass over the row of a key.
Lapse(k) ==
    /\ HasRow(k)
    /\ table[k].id \notin lapsed
    /\ HandlersOutliveTTL \/ ~InFlight(table[k].id)
    /\ lapsed' = lapsed \cup {table[k].id}
    /\ UNCHANGED <<table, pc, key, payload, outcome, answer, audited, committed,
                   granted, stolen>>

\* Seeded fault: the sweep spares pending rows.
PurgeTerminal ==
    /\ \E k \in Keys : HasRow(k) /\ table[k].id \in lapsed
    /\ table' = [k \in Keys |-> IF /\ HasRow(k) /\ table[k].id \in lapsed
                                   /\ table[k].state # "pending"
                                THEN NoRow ELSE table[k]]
    /\ UNCHANGED <<pc, key, payload, outcome, answer, audited, committed,
                   granted, lapsed, stolen>>

\* The hourly sweep of cmd/server/main.go.
PurgeExpired ==
    /\ \E k \in Keys : HasRow(k) /\ table[k].id \in lapsed
    /\ table' = [k \in Keys |-> IF HasRow(k) /\ table[k].id \in lapsed
                                THEN NoRow ELSE table[k]]
    /\ UNCHANGED <<pc, key, payload, outcome, answer, audited, committed,
                   granted, lapsed, stolen>>

Handle(r) ==
    \/ BeginInsert(r) \/ BeginConflict(r) \/ BeginSelect(r) \/ BeginDelete(r)
    \/ BeginError(r) \/ Execute(r) \/ Reply(r) \/ Complete(r) \/ Audit(r)

Next ==
    \/ \E r \in Req : Arrive(r) \/ Reject(r) \/ Handle(r) \/ Crash(r)
    \/ \E k \in Keys : Lapse(k)
    \/ PurgeExpired

Spec == Init /\ [][Next]_vars

---------------------------------------------------------------------------
(* Properties *)

\* The shape of the table and of every handler's state: a row is pending
\* without a response or terminal with one, as the CHECK of migration 0002
\* and the two writers of the table keep it.
TypeOK ==
    /\ table \in [Keys -> Row \cup {NoRow}]
    /\ pc \in [Req -> Steps]
    /\ key \in [Req -> Keys \cup {NoKey}]
    /\ payload \in [Req -> Payloads]
    /\ outcome \in [Req -> ErrorNames \cup {"none", "ok"}]
    /\ answer \in [Req -> Answer \cup {NoAnswer}]
    /\ audited \in [Req -> Statuses \cup {0}]
    /\ committed \subseteq Req
    /\ granted \subseteq Req
    /\ lapsed \subseteq Req
    /\ stolen \subseteq Req

\* A request whose row is neither past its 24 h nor deleted under it.
Covered(r) == r \notin lapsed /\ r \notin stolen

\* At most one request per key holds the right to execute while its row
\* lives: BeginOrReplay's INSERT ... ON CONFLICT is a lock, as long as no
\* concurrent reclaim deletes an unexpired row.
OneGrantPerWindow ==
    \A r, s \in granted :
        r # s /\ key[r] = key[s] => ~Covered(r) \/ ~Covered(s)

\* A replay hands out the response of an execution of the same request, by
\* the hash check of BeginOrReplay, unless the execution that Complete stored
\* had already lost its row.
ReplayOfSameRequest ==
    \A r \in Req :
        answer[r].kind = "replay" /\ Covered(answer[r].of)
            => payload[answer[r].of] = payload[r]

\* On the SQL route a replay repeats, status and body, what the request that
\* executed was sent: handleSQLExecute answers and stores the same bytes.
SqlReplayMatchesOriginal ==
    \A r \in Req :
        answer[r].kind = "replay" /\ answer[r].of \in Req =>
            LET original == answer[answer[r].of] IN
            IsSql(answer[r].of) =>
                /\ original.kind = "executed"
                /\ original.status = answer[r].status
                /\ original.body = answer[r].body

\* What a client is told is true of the database: 200, replayed or not, means
\* that the execution it describes was committed, and an error with a
\* SQLSTATE of its own execution means that nothing was.
AnswerTellsTheTruth ==
    \A r \in Req :
        /\ answer[r].kind # "none" /\ answer[r].status = 200
             => answer[r].of \in committed
        /\ answer[r].kind = "executed" /\ outcome[r] \in PgErrors
             => r \notin committed
        /\ answer[r].kind \in {"conflict", "in_progress", "rejected"}
             => r \notin committed

\* No committed statement is missing from the audit log when its handler has
\* returned, whatever error it was answered with and whether or not Complete
\* stored it; the log has a success only for what was committed, and on the SQL
\* route the status the client was sent.
CommitsAreAudited ==
    \A r \in Req :
        /\ r \in committed /\ pc[r] = "done" => audited[r] # 0
        /\ audited[r] = 200 => r \in committed
        /\ IsSql(r) /\ audited[r] # 0
             => answer[r].kind # "none" /\ audited[r] = answer[r].status

\* A step leaves a terminal row terminal, and its response as it was.
TerminalRowKept ==
    \A k \in Keys :
        /\ HasRow(k) /\ table[k].state # "pending"
        /\ table'[k] # NoRow /\ table'[k].id = table[k].id
        => \/ table'[k] = table[k]
           \/ ~Covered(table[k].resp.of)
           \/ table'[k].state # "pending" /\ ~Covered(table'[k].resp.of)

\* A terminal row keeps its response for as long as it exists, so that every
\* replay of a window is the same; only the Complete of a request that lost
\* its own row can disturb it, and it may be put right afterwards.
TerminalRowIsFinal == [][TerminalRowKept]_vars

---------------------------------------------------------------------------
(* The store implements the abstract layer of module Once *)

\* A handler that will not come to Complete, or to Reply on the SQL route, any
\* more.
Settled(r) ==
    /\ pc[r] \in {"reply", "audit", "done", "dead"}
    /\ IsSql(r) => pc[r] # "reply" /\ (outcome[r] # "ok" => pc[r] # "audit")

Owns(r) == HasRow(key[r]) /\ table[key[r]].id = r

\* A row is a window, its inserter the holder; the response of a terminal row
\* is what is replayed; a granted request that lost its row before its
\* Complete is a stray.
Holder == [k \in Keys |-> IF HasRow(k) THEN {table[k].id} ELSE {}]
Stands == [k \in Keys |-> IF HasRow(k) /\ table[k].state # "pending"
                          THEN {table[k].resp.of} ELSE {}]
Strays == {r \in granted : ~Owns(r) /\ ~Settled(r)}
Replayed == [r \in Req |-> IF answer[r].kind = "replay" THEN {answer[r].of} ELSE {}]

Layer == INSTANCE Once WITH
    holder <- Holder, resp <- Stands, strays <- Strays, got <- Replayed

\* BeginOrReplay, Complete, the reclaim and the sweep together implement the
\* abstract layer: a key has one window at a time, its holder stores one
\* response, every replay is the response the window has, and only a handler
\* that outlived its row can put another one there.
ImplementsOnce == Layer!Spec

---------------------------------------------------------------------------
(* Liveness *)

\* A handler that is not crashed goes on (net/http runs each in its own
\* goroutine), time passes, and the sweep runs every hour.
Fairness ==
    /\ \A r \in Req : WF_vars(Handle(r))
    /\ \A k \in Keys : WF_vars(Lapse(k))
    /\ WF_vars(PurgeExpired)

FairSpec == Spec /\ Fairness

\* Every request that entered the gateway is answered, or its process died:
\* the recursion of BeginOrReplay after a reclaim ends.
EveryRequestSettles ==
    \A r \in Req : InFlight(r) ~> pc[r] \in {"done", "dead"}

\* A key whose owner died, or whose Complete failed, is not blocked for ever:
\* its pending row is eventually removed.
NoKeyStaysPending ==
    \A k \in Keys : (HasRow(k) /\ table[k].state = "pending")
                        ~> (~HasRow(k) \/ table[k].state # "pending")

---------------------------------------------------------------------------
(* What the repository's texts say, and the code does not do *)

\* docs/faq.md:47-48: the key is generated client-side "so a replay never
\* duplicates writes": two requests with the same key and body inside one
\* 24 h window are not both committed.
NoDuplicateWrites ==
    \A r, s \in committed :
        r # s /\ Keyed(r) /\ key[r] = key[s] /\ payload[r] = payload[s]
            => r \in lapsed \/ s \in lapsed

============================================================================
