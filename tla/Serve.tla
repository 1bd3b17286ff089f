-------------------------------- MODULE Serve --------------------------------
(***************************************************************************)
(* One gateway process from its start to its exit (cmd/server run()): the  *)
(* connection pool, the requests that share it, the settings every request *)
(* makes on its connection (internal/tenant), the purge goroutine, and the *)
(* shutdown.  The migrations run() begins with are module Boot.  The key   *)
(* lookup borrows a connection for one step here, and what it decides is   *)
(* KeyAuth; the statements of the idempotency layer, which borrow one in   *)
(* the same way before and after a request's own, are Idempotency only.    *)
(*                                                                         *)
(* pgxpool is external: a waiting Acquire is served in turn; Release puts  *)
(* an idle connection back and replaces a broken one; Close refuses every  *)
(* new Acquire and returns once all connections are back.  Postgres keeps  *)
(* a SET LOCAL to the end of its transaction, and a SET for the session if *)
(* the transaction commits.                                                *)
(***************************************************************************)
EXTENDS Config, Sequences

CONSTANTS
    Calls,       \* requests
    Conns,       \* connections of the pool (DatabaseMaxConns)
    Base,        \* the value a setting has on a new connection
    None,        \* no connection, no owner
    Purger,      \* the purge goroutine
    Envs,        \* environments the process may be started with
    ClientSets   \* settings a client's own statement may SET

\* tenant.Setup makes these settings, in this order.
SetupOrder == <<"timeout", "idle", "workspace", "role", "path">>
Settings == {SetupOrder[i] : i \in 1..Len(SetupOrder)}

ASSUME ServeAssumption ==
    /\ Base \notin Calls /\ None \notin Calls \cup Conns
    /\ Purger \notin Calls \cup {None}
    /\ ClientSets \subseteq Settings

\* A text that parses as its type is a value of the type.
ASSUME EnvAssumption ==
    \A env \in Envs :
        /\ env.timeout \in Int \cup {Unset, Malformed}
        /\ env.mcp \in BOOLEAN \cup {Unset, Malformed}
        /\ env.noaudit \in BOOLEAN \cup {Unset, Malformed}

Rest == {"sql", "rpc"}
Mcp == {"mcp_sql", "mcp_rpc"}

VARIABLES
    life, clean,     \* where run() is; srv.Shutdown returned nil
    cfg,             \* what the wiring took from the environment
    owner,           \* each connection: who has acquired it
    now, sess,       \* each connection: settings in force, and of the session
    setters,         \* history: whose committed statement SET a setting
    pc, route, stmt, \* each request: step, handler, what its statement does
    at,              \* each request: its connection
    audit,           \* each request: its row in audit_logs
    purge            \* the goroutine that sweeps expired keys

pool == <<owner, now, sess, setters>>
call == <<pc, route, stmt, at, audit>>
vars == <<life, clean, cfg, pool, call, purge>>

NoCfg == [sql |-> 0, rpc |-> 0, mcp |-> FALSE, audit |-> FALSE]
Fresh == [s \in Settings |-> Base]

TypeOK ==
    /\ life \in {"down", "refused", "up", "mcp", "drain", "close", "exited"}
    /\ clean \in BOOLEAN
    /\ cfg \in [sql : Int, rpc : Int, mcp : BOOLEAN, audit : BOOLEAN]
    /\ owner \in [Conns -> Calls \cup {None, Purger}]
    /\ now \in [Conns -> [Settings -> Calls \cup {Base}]]
    /\ sess \in [Conns -> [Settings -> Calls \cup {Base}]]
    /\ setters \in [Settings -> SUBSET Calls]
    /\ pc \in [Calls -> {"new", "stream", "auth", "validate", "begin", "setup",
                         "stmt", "commit", "rollback", "reply", "audit", "done"}]
    /\ route \in [Calls -> Rest \cup Mcp \cup {"none"}]
    /\ stmt \in [Calls -> ClientSets \cup {"plain"}]
    /\ at \in [Calls -> Conns \cup {None}]
    /\ audit \in [Calls -> {"none", "exempt", "written", "missed"}]
    /\ purge \in {"waiting", "running", "stopped"}

Init ==
    /\ life = "down" /\ clean = FALSE
    /\ cfg = NoCfg
    /\ owner = [c \in Conns |-> None]
    /\ now = [c \in Conns |-> Fresh]
    /\ sess = [c \in Conns |-> Fresh]
    /\ setters = [s \in Settings |-> {}]
    /\ pc = [r \in Calls |-> "new"]
    /\ route = [r \in Calls |-> "none"]
    /\ stmt = [r \in Calls |-> "plain"]
    /\ at = [r \in Calls |-> None]
    /\ audit = [r \in Calls |-> "none"]
    /\ purge = "waiting"

-----------------------------------------------------------------------------

(* The pool *)

Free(c) == owner[c] = None
PoolOpen == life \in {"up", "mcp", "drain"}
Running == life \in {"up", "mcp", "drain", "close"}

Acquire(c, who) == PoolOpen /\ Free(c) /\ owner' = [owner EXCEPT ![c] = who]

\* The transaction of c is over: a setting is what the session has, and what
\* the transaction itself SET for the session (new) if it committed.
Release(c, new) ==
    /\ owner' = [owner EXCEPT ![c] = None]
    /\ sess' = [sess EXCEPT ![c] = new]
    /\ now' = [now EXCEPT ![c] = new]

\* A connection that broke, or was closed because its context ended, is
\* destroyed on release; the pool opens another in its place.
Destroy(c) == Release(c, Fresh)

\* A statement outside any transaction borrows a connection for one step.
Borrow == PoolOpen /\ \E c \in Conns : Free(c)

Goto(r, l) == pc' = [pc EXCEPT ![r] = l]

\* The handler is through with its work; REST answers and then audits, the
\* embedded tools audit and then answer.
Settle(r) == Goto(r, IF route[r] \in Rest THEN "reply" ELSE "audit")

-----------------------------------------------------------------------------

(* Requests *)

\* Also between the signal and srv.Shutdown, while the MCP server stops.
Accept(r) ==
    /\ life \in {"up", "mcp"}
    /\ pc[r] = "new"
    /\ \/ /\ \E h \in Rest \cup (IF cfg.mcp THEN Mcp ELSE {}) :
                 route' = [route EXCEPT ![r] = h]
          /\ \E t \in ClientSets \cup {"plain"} :
                 /\ t # "plain" => route'[r] \in {"sql", "mcp_sql"}
                 /\ stmt' = [stmt EXCEPT ![r] = t]
          /\ \E l \in {"auth", "validate"} : Goto(r, l)  \* "validate": cached key
       \/ \* GET /v1/mcp: an event stream, with no write deadline
          /\ cfg.mcp
          /\ Goto(r, "stream")
          /\ UNCHANGED <<route, stmt>>
    /\ UNCHANGED <<life, clean, cfg, pool, at, audit, purge>>

\* The handler returns: nothing of the request is left but its audit row.
Done(r) ==
    /\ Goto(r, "done")
    /\ route' = [route EXCEPT ![r] = "none"]
    /\ stmt' = [stmt EXCEPT ![r] = "plain"]

\* Answered without an audit row: a refused key, an error of the look-up, a body
\* that cannot be read.
Refuse(r) ==
    /\ audit' = [audit EXCEPT ![r] = "exempt"]
    /\ Done(r)

\* The client of a stream goes away.
StreamEnds(r) ==
    /\ Running /\ pc[r] = "stream"
    /\ Refuse(r)
    /\ UNCHANGED <<life, clean, cfg, pool, at, purge>>

\* Authenticate, for a key that is not cached: FindByKeyID takes a connection.
Authenticate(r) ==
    /\ Running /\ pc[r] = "auth"
    /\ \/ Borrow /\ Goto(r, "validate") /\ UNCHANGED <<route, stmt, audit>>
       \/ (Borrow \/ ~PoolOpen) /\ Refuse(r)
    /\ UNCHANGED <<life, clean, cfg, pool, at, purge>>

\* Validate, or the look-ups of Dispatcher.Call before it runs the procedure.
Validate(r) ==
    /\ Running /\ pc[r] = "validate"
    /\ \/ (Goto(r, "begin") \/ Settle(r)) /\ UNCHANGED <<route, stmt, audit>>
       \/ Refuse(r)
    /\ UNCHANGED <<life, clean, cfg, pool, at, purge>>

\* pool.BeginTx waits for a connection as long as the client does.
Begin(r) ==
    /\ Running /\ pc[r] = "begin"
    /\ \/ /\ \E c \in Conns :
                 /\ Acquire(c, r)
                 /\ at' = [at EXCEPT ![r] = c]
          /\ Goto(r, "setup")
       \/ ~PoolOpen /\ Settle(r) /\ UNCHANGED <<owner, at>>
    /\ UNCHANGED <<life, clean, cfg, now, sess, setters, route, stmt, audit, purge>>

Timeout(r) == IF route[r] \in {"sql", "mcp_sql"} THEN cfg.sql ELSE cfg.rpc

\* The settings of c once the first n statements of Setup have run.
SetLocal(c, r, n) ==
    [s \in Settings |->
        IF \E i \in 1..n : SetupOrder[i] = s THEN r ELSE now[c][s]]

\* Seeded fault: the error of Setup is not looked at.
SetupUnchecked(r) ==
    /\ Running /\ pc[r] = "setup"
    /\ \E n \in 0..Len(SetupOrder) :
           now' = [now EXCEPT ![at[r]] = SetLocal(at[r], r, n)]
    /\ Goto(r, "stmt")
    /\ UNCHANGED <<life, clean, cfg, owner, sess, setters, route, stmt, at, audit, purge>>

\* Seeded fault: the settings are made with SET.
SetupForSession(r) ==
    /\ Running /\ pc[r] = "setup"
    /\ now' = [now EXCEPT ![at[r]] = SetLocal(at[r], r, Len(SetupOrder))]
    /\ sess' = [sess EXCEPT ![at[r]] = now'[at[r]]]
    /\ Goto(r, "stmt")
    /\ UNCHANGED <<life, clean, cfg, owner, setters, route, stmt, at, audit, purge>>

\* tenant.Setup stops at its first error.  A negative timeout is refused by
\* Postgres; the role may not exist or not be a safe name.
Setup(r) ==
    /\ Running /\ pc[r] = "setup"
    /\ \E n \in 0..Len(SetupOrder) :
           /\ Timeout(r) < 0 => n = 0
           /\ now' = [now EXCEPT ![at[r]] = SetLocal(at[r], r, n)]
           /\ Goto(r, IF n = Len(SetupOrder) THEN "stmt" ELSE "rollback")
    /\ UNCHANGED <<life, clean, cfg, owner, sess, setters, route, stmt, at, audit, purge>>

\* The statement returns, with rows or with an error; it may also never do so.
Statement(r) ==
    /\ Running /\ pc[r] = "stmt"
    /\ Goto(r, "commit") \/ Goto(r, "rollback")
    /\ UNCHANGED <<life, clean, cfg, pool, route, stmt, at, audit, purge>>

\* Postgres cancels the statement, if statement_timeout is not zero.
StatementTimesOut(r) ==
    /\ Running /\ pc[r] = "stmt"
    /\ Timeout(r) > 0
    /\ Goto(r, "rollback")
    /\ UNCHANGED <<life, clean, cfg, pool, route, stmt, at, audit, purge>>

\* tx.Commit: done, refused by Postgres, or the connection breaks.
Commit(r) ==
    /\ Running /\ pc[r] = "commit"
    /\ \/ LET c == at[r] IN
          /\ Release(c, IF stmt[r] = "plain" THEN sess[c]
                        ELSE [sess[c] EXCEPT ![stmt[r]] = r])
          /\ setters' = IF stmt[r] = "plain" THEN setters
                        ELSE [setters EXCEPT ![stmt[r]] = @ \cup {r}]
       \/ Release(at[r], sess[at[r]]) /\ UNCHANGED setters
       \/ Destroy(at[r]) /\ UNCHANGED setters
    /\ at' = [at EXCEPT ![r] = None]
    /\ Settle(r)
    /\ UNCHANGED <<life, clean, cfg, route, stmt, audit, purge>>

\* Seeded fault: a failed transaction is not rolled back.
RollbackLost(r) ==
    /\ Running /\ pc[r] = "rollback"
    /\ at' = [at EXCEPT ![r] = None]
    /\ Settle(r)
    /\ UNCHANGED <<life, clean, cfg, pool, route, stmt, audit, purge>>

\* The deferred tx.Rollback.
Rollback(r) ==
    /\ Running /\ pc[r] = "rollback"
    /\ Release(at[r], sess[at[r]]) \/ Destroy(at[r])
    /\ at' = [at EXCEPT ![r] = None]
    /\ Settle(r)
    /\ UNCHANGED <<life, clean, cfg, setters, route, stmt, audit, purge>>

\* The client gives up: the request context ends, whatever waits on it returns,
\* and pgx closes a connection it was using.
ClientLeaves(r) ==
    /\ Running /\ pc[r] \in {"begin", "setup", "stmt", "commit", "rollback"}
    /\ IF at[r] = None THEN UNCHANGED <<owner, now, sess>> ELSE Destroy(at[r])
    /\ at' = [at EXCEPT ![r] = None]
    /\ Settle(r)
    /\ UNCHANGED <<life, clean, cfg, setters, route, stmt, audit, purge>>

\* The answer is handed to net/http.
Reply(r) ==
    /\ Running /\ pc[r] = "reply"
    /\ IF route[r] \in Rest THEN Goto(r, "audit") /\ UNCHANGED <<route, stmt>>
                            ELSE Done(r)
    /\ UNCHANGED <<life, clean, cfg, pool, at, audit, purge>>

\* Writer.Write has three seconds of its own; a failure is only logged.
Audit(r) ==
    /\ Running /\ pc[r] = "audit"
    /\ \/ cfg.audit /\ Borrow /\ audit' = [audit EXCEPT ![r] = "written"]
       \/ cfg.audit /\ audit' = [audit EXCEPT ![r] = "missed"]
       \/ ~cfg.audit /\ audit' = [audit EXCEPT ![r] = "exempt"]
    /\ IF route[r] \in Rest THEN Done(r)
                            ELSE Goto(r, "reply") /\ UNCHANGED <<route, stmt>>
    /\ UNCHANGED <<life, clean, cfg, pool, at, purge>>

-----------------------------------------------------------------------------

(* The process *)

\* run() up to the wiring, after the migrations: it stops on a configuration it
\* refuses and on a pool that does not answer.
Start ==
    /\ life = "down"
    /\ \E env \in Envs :
           IF LoadFails(env) \/ ListenRefused(env)
           THEN life' = "refused" /\ UNCHANGED cfg
           ELSE \/ life' = "refused" /\ UNCHANGED cfg  \* OpenPool or LoadBuiltins fails
                \/ /\ life' = "up"
                   /\ cfg' = [sql |-> SqlMillis(env), rpc |-> RpcMillis(env),
                              mcp |-> EnvBool(env.mcp, FALSE),
                              audit |-> ~EnvBool(env.noaudit, FALSE)]
    /\ UNCHANGED <<clean, pool, call, purge>>

\* ListenAndServe fails: run() returns, and closes the pool on its way out.
ListenFails ==
    /\ life = "up"
    /\ life' = "close"
    /\ UNCHANGED <<clean, cfg, pool, call, purge>>

\* SIGINT or SIGTERM ends rootCtx.
Signal ==
    /\ life = "up"
    /\ life' = IF cfg.mcp THEN "mcp" ELSE "drain"
    /\ UNCHANGED <<clean, cfg, pool, call, purge>>

\* Seeded fault: it waits until every stream has ended.
McpShutdownWaits ==
    /\ life = "mcp"
    /\ \A r \in Calls : pc[r] # "stream"
    /\ life' = "drain"
    /\ UNCHANGED <<clean, cfg, pool, call, purge>>

\* mcpHTTP.Shutdown: it ends some of the streams, or returns an error that is
\* only logged.
McpShutdown ==
    /\ life = "mcp"
    /\ life' = "drain"
    /\ \E S \in SUBSET {r \in Calls : pc[r] = "stream"} :
           /\ pc' = [r \in Calls |-> IF r \in S THEN "done" ELSE pc[r]]
           /\ audit' = [r \in Calls |-> IF r \in S THEN "exempt" ELSE audit[r]]
    /\ UNCHANGED <<clean, cfg, pool, route, stmt, at, purge>>

InHandler(r) == pc[r] \notin {"new", "done"}

\* Seeded fault: srv.Close, which waits for nobody.
ShutdownAtOnce ==
    /\ life = "drain"
    /\ life' = "close" /\ clean' = TRUE
    /\ UNCHANGED <<cfg, pool, call, purge>>

\* srv.Shutdown: every handler has returned, or the thirty seconds are over.
Shutdown ==
    /\ life = "drain"
    /\ clean' \in BOOLEAN
    /\ clean' => \A r \in Calls : ~InHandler(r)
    /\ life' = "close"
    /\ UNCHANGED <<cfg, pool, call, purge>>

\* The deferred pool.Close returns when every connection is back; main exits.
ClosePool ==
    /\ life = "close"
    /\ \A c \in Conns : Free(c)
    /\ life' = "exited"
    /\ UNCHANGED <<clean, cfg, pool, call, purge>>

\* The ticker of the purge goroutine, which looks at rootCtx between two sweeps.
\* A sweep has thirty seconds.
Purge ==
    /\ Running
    /\ \/ /\ purge = "waiting"
          /\ \/ /\ \E c \in Conns : Acquire(c, Purger)
                /\ purge' = "running"
             \/ /\ life \in {"mcp", "drain"}
                /\ purge' = "stopped"
                /\ UNCHANGED owner
          /\ UNCHANGED <<now, sess>>
       \/ /\ purge = "running"
          /\ \E c \in Conns :
                 /\ owner[c] = Purger
                 /\ Release(c, sess[c]) \/ Destroy(c)
          /\ purge' = "waiting"
    /\ UNCHANGED <<life, clean, cfg, setters, call>>

Handle(r) ==
    \/ Authenticate(r) \/ Validate(r) \/ Begin(r) \/ Setup(r) \/ Commit(r)
    \/ Rollback(r) \/ Reply(r) \/ Audit(r)

Next ==
    \/ Start \/ ListenFails \/ Signal \/ McpShutdown \/ Shutdown \/ ClosePool
    \/ Purge
    \/ \E r \in Calls :
           \/ Accept(r) \/ StreamEnds(r) \/ Statement(r) \/ StatementTimesOut(r)
           \/ ClientLeaves(r) \/ Handle(r)

Spec == Init /\ [][Next]_vars

\* Code that is not waiting for the client, the statement or the operator goes
\* on; the pool serves those who wait for a connection in turn; the timers of
\* Postgres, of the audit insert, of a sweep and of the shutdown go off.
Fairness ==
    /\ WF_vars(McpShutdown) /\ WF_vars(Shutdown) /\ WF_vars(ClosePool)
    /\ WF_vars(purge = "running" /\ Purge)
    /\ \A r \in Calls :
           /\ WF_vars(StatementTimesOut(r))
           /\ SF_vars(Authenticate(r) \/ Begin(r))
           /\ WF_vars(Handle(r))

FairSpec == Spec /\ Fairness

-----------------------------------------------------------------------------

(* Properties *)

\* While a request's statement runs, its connection carries every setting that
\* tenant.Setup makes, with the values of this request: nothing an earlier
\* request, or a Setup that failed half way, left behind is in force.
OwnSettings ==
    \A r \in Calls : pc[r] \in {"stmt", "commit"} =>
        /\ owner[at[r]] = r
        /\ \A s \in Settings : now[at[r]][s] = r

\* What Setup has set ends with its transaction, whichever way that ends: on a
\* connection nobody holds a setting has its base value, or one that a client's
\* own committed SET gave it.
IdleReverts ==
    \A c \in Conns : Free(c) =>
        \A s \in Settings : now[c][s] \in {Base} \cup setters[s]

\* run() ends with every connection returned.  If it reported a clean stop, no
\* handler was cut off: each accepted request got to its end, and the ones that
\* owe an audit row have written it or given up on it.
StopIsOrderly ==
    life = "exited" =>
        /\ \A c \in Conns : Free(c)
        /\ clean => \A r \in Calls : pc[r] # "new" =>
                                         pc[r] = "done" /\ audit[r] # "none"

\* The statement timeout reaches Postgres on both paths.
Bounded == cfg.sql # 0 /\ cfg.rpc # 0

\* With a statement timeout in force an accepted request comes to its end, also
\* when statements hang, clients go away and the pool is exhausted.
EveryCallEnds ==
    \A r \in Calls :
        (pc[r] \in {"auth", "validate"} /\ Bounded)
            ~> (pc[r] = "done" \/ life = "exited")

\* With a statement timeout in force a stop that was asked for comes to its end.
StopEnds == (life = "mcp" \/ life = "drain") /\ Bounded ~> life = "exited"

=============================================================================
