------------------------------ MODULE McpCalls ------------------------------
(***************************************************************************)
(* The MCP tools (internal/mcp/tools.go) on their two back ends: the       *)
(* standalone binary, whose Client sends the call to the gateway over      *)
(* HTTP, and the server's own directDoer (cmd/server/direct_doer.go).      *)
(*                                                                         *)
(* An agent has jobs, each one tool call it repeats after an error.  The   *)
(* agent's view of an attempt and the gateway's work on it are apart: a    *)
(* client that times out, or loses its connection, has an error while the  *)
(* gateway goes on.  The gateway's idempotency layer is module             *)
(* Idempotency; here a key is free, pending or holds an outcome, within    *)
(* its window (module Once).                                               *)
(***************************************************************************)
EXTENDS Validator, Sequences

CONSTANTS
    Jobs,      \* what the agent wants done
    Attempts,  \* how often it may try each: 1..n
    Requests,  \* tool calls a job may be
    MaxRows,   \* rows of one vector_upsert (100)
    MaxK       \* results of one vector_search (1000)

\* The tools NewServer registers.
Probes == {"whoami", "health"}
Builders == {"list_tables", "describe_table", "vector_search", "vector_upsert"}
Tools == {"sql_execute", "rpc_call"} \cup Builders \cup Probes

ASSUME McpAssumption ==
    /\ \A q \in Requests : q.tool \in Tools
    /\ MaxRows \in Nat \ {0} /\ MaxK \in Nat /\ MaxK >= 5
    /\ Attempts \subseteq Nat \ {0} /\ IsFiniteSet(Attempts)
    /\ \A i \in Attempts : 1..i \subseteq Attempts

\* What a request holds, as JSON and the scanner of pg_query give it: a statement
\* has finitely many tokens, an array has a length, and k is a number.
ASSUME RequestAssumption ==
    \A q \in Requests :
        /\ q.tool = "sql_execute" =>
               /\ q.params \in Nat
               /\ q.sql.tokens \subseteq Nat /\ IsFiniteSet(q.sql.tokens)
        /\ q.tool = "vector_search" => q.k \in Int
        /\ q.tool = "vector_upsert" => q.rows \in Nat

VARIABLES
    backend,  \* "standalone" or "embedded"
    job,      \* each job: its request
    pc,       \* each attempt: the gateway's work on it
    out,      \* each attempt: what the gateway made of it
    seen,     \* each attempt: what the agent has got
    key,      \* each job: its row in idempotency_keys
    commits,  \* each job: how often its statement has committed
    audits    \* each attempt: its rows in audit_logs, from directDoer

vars == <<backend, job, pc, out, seen, key, commits, audits>>

Calls == Jobs \X Attempts
Statuses == {"none", "ok", "error"}

TypeOK ==
    /\ backend \in {"standalone", "embedded"}
    /\ job \in [Jobs -> Requests]
    /\ pc \in [Calls -> {"new", "sent", "check", "begin", "exec", "audit",
                         "reply", "complete", "finish", "over"}]
    /\ out \in [Calls -> Statuses]
    /\ seen \in [Calls -> Statuses]
    /\ key \in [Jobs -> Statuses \cup {"pending"}]
    /\ commits \in [Jobs -> 0..Cardinality(Attempts)]
    /\ audits \in [Calls -> Seq(Statuses)]

Init ==
    /\ backend \in {"standalone", "embedded"}
    /\ job \in [Jobs -> Requests]
    /\ pc = [c \in Calls |-> "new"]
    /\ out = [c \in Calls |-> "none"]
    /\ seen = [c \in Calls |-> "none"]
    /\ key = [j \in Jobs |-> "none"]
    /\ commits = [j \in Jobs |-> 0]
    /\ audits = [c \in Calls |-> <<>>]

-----------------------------------------------------------------------------

(* What the tools make of their arguments.  A request has the tool and, of   *)
(* its arguments, what the handler looks at: idents (all names are safe      *)
(* identifiers), rows and wellFormed (of vector_upsert and of the            *)
(* embedding), k, and for sql_execute the statement, its parameters and      *)
(* whether it has a key.                                                     *)

\* k is counted in halves, since any positive number is taken and then truncated;
\* without one, or with one that is not positive, it is 5.
Limit(q) == IF q.k > 0 THEN q.k \div 2 ELSE 5

\* The early returns of the handlers.
DescribeRefuses(q) == ~q.idents
SearchRefuses(q) == ~q.idents \/ ~q.wellFormed \/ Limit(q) > MaxK
UpsertRefuses(q) == ~q.idents \/ q.rows = 0 \/ q.rows > MaxRows \/ ~q.wellFormed

ToolRefuses(q) ==
    CASE q.tool \in {"sql_execute", "rpc_call"} -> q.missing
      [] q.tool = "describe_table" -> DescribeRefuses(q)
      [] q.tool = "vector_search"  -> SearchRefuses(q)
      [] q.tool = "vector_upsert"  -> UpsertRefuses(q)
      [] OTHER -> FALSE

Built(node, tokens) ==
    [bytes |-> 1, parses |-> TRUE, stmts |-> 1, node |-> node,
     returning |-> FALSE, tokens |-> tokens]

\* Row i of an upsert takes the placeholders base+1 .. base+3, base = 3 * i.
RowPlaceholders(i) == {3 * i + 1, 3 * i + 2, 3 * i + 3}

\* Seeded fault: the stride does not match the columns of a row.
UpsertNarrow(q) ==
    Built("InsertStmt", UNION {{2 * i + 1, 2 * i + 2, 2 * i + 3} : i \in 0..q.rows - 1})

Upsert(q) == Built("InsertStmt", UNION {RowPlaceholders(i) : i \in 0..q.rows - 1})

ListTables == Built("SelectStmt", {})
DescribeTable == Built("SelectStmt", {1})
VectorSearch == Built("SelectStmt", {1, 2})

\* The statement a handler passes to Doer.SQLExecute, and how many parameters.
Statement(q) ==
    CASE q.tool = "sql_execute"    -> q.sql
      [] q.tool = "list_tables"    -> ListTables
      [] q.tool = "describe_table" -> DescribeTable
      [] q.tool = "vector_search"  -> VectorSearch
      [] q.tool = "vector_upsert"  -> Upsert(q)

Params(q) ==
    CASE q.tool = "sql_execute"    -> q.params
      [] q.tool = "list_tables"    -> 0
      [] q.tool = "describe_table" -> 1
      [] q.tool = "vector_search"  -> 2
      [] q.tool = "vector_upsert"  -> 3 * q.rows

\* Only sql_execute takes a key, and only the standalone Client sends it.
Keyed(j) ==
    backend = "standalone" /\ job[j].tool = "sql_execute" /\ job[j].key

\* Dispatcher.Call: the procedure is registered, its role is the key's, and its
\* schema takes the arguments.
Dispatched(q) == q.known /\ q.role /\ q.args

Accepted(q) ==
    IF q.tool = "rpc_call" THEN Dispatched(q)
                           ELSE Validate(Statement(q), Params(q)) = "ok"

-----------------------------------------------------------------------------

(* The agent and the tool handlers *)

\* The agent tries again once it has an error for its last attempt.
Tries(c) == pc[c] = "new" /\ (c[2] > 1 => seen[<<c[1], c[2] - 1>>] = "error")

\* A handler refuses the arguments, or calls the back end.
CallTool(c) ==
    /\ Tries(c)
    /\ job[c[1]].tool \notin Probes
    /\ IF ToolRefuses(job[c[1]])
       THEN /\ seen' = [seen EXCEPT ![c] = "error"]
            /\ pc' = [pc EXCEPT ![c] = "over"]
       ELSE /\ pc' = [pc EXCEPT ![c] = IF backend = "standalone" THEN "sent" ELSE "check"]
            /\ UNCHANGED seen
    /\ UNCHANGED <<backend, job, out, key, commits, audits>>

\* whoami and health answer without a statement; health never fails, since what it
\* finds is in its result, and neither does whoami in the gateway itself.
Probe(c) ==
    LET tool == job[c[1]].tool IN
    /\ Tries(c)
    /\ tool \in Probes
    /\ \E res \in {"ok", "error"} :
           /\ res = "error" => backend = "standalone" /\ tool = "whoami"
           /\ seen' = [seen EXCEPT ![c] = res]
    /\ pc' = [pc EXCEPT ![c] = "over"]
    /\ UNCHANGED <<backend, job, out, key, commits, audits>>

\* Client.post: the request arrives, or it does not get to the handler.
Deliver(c) ==
    /\ pc[c] = "sent"
    /\ \/ pc' = [pc EXCEPT ![c] = "check"] /\ UNCHANGED seen
       \/ /\ pc' = [pc EXCEPT ![c] = "over"]
          /\ seen' = [seen EXCEPT ![c] = "error"]
    /\ UNCHANGED <<backend, job, out, key, commits, audits>>

\* Seeded fault: an http.Client without a timeout, which only notices a request
\* that could not be sent.
GiveUpUnsent(c) ==
    /\ pc[c] = "sent" /\ seen[c] = "none"
    /\ seen' = [seen EXCEPT ![c] = "error"]
    /\ UNCHANGED <<backend, job, pc, out, key, commits, audits>>

\* The thirty seconds of the http.Client are over, or the agent has lost its
\* connection to the embedded server; the gateway may go on.
GiveUp(c) ==
    /\ pc[c] \notin {"new", "over"} /\ seen[c] = "none"
    /\ seen' = [seen EXCEPT ![c] = "error"]
    /\ UNCHANGED <<backend, job, pc, out, key, commits, audits>>

-----------------------------------------------------------------------------

(* The gateway: handleSQLExecute and handleRPCCall, or directDoer *)

\* directDoer audits before it returns; what the routes of the gateway audit is
\* in module Idempotency.
Leave == IF backend = "embedded" THEN "audit" ELSE "finish"

Check(c) ==
    /\ pc[c] = "check"
    /\ IF Accepted(job[c[1]])
       THEN /\ pc' = [pc EXCEPT ![c] = IF Keyed(c[1]) THEN "begin" ELSE "exec"]
            /\ UNCHANGED out
       ELSE /\ pc' = [pc EXCEPT ![c] = Leave]
            /\ out' = [out EXCEPT ![c] = "error"]
    /\ UNCHANGED <<backend, job, seen, key, commits, audits>>

\* Seeded fault: a row in progress is replayed like a finished one.
BeginReplaysPending(c) ==
    /\ pc[c] = "begin"
    /\ IF key[c[1]] = "none"
       THEN /\ key' = [key EXCEPT ![c[1]] = "pending"]
            /\ pc' = [pc EXCEPT ![c] = "exec"]
            /\ UNCHANGED out
       ELSE /\ out' = [out EXCEPT ![c] = key[c[1]]]
            /\ pc' = [pc EXCEPT ![c] = "finish"]
            /\ UNCHANGED key
    /\ UNCHANGED <<backend, job, seen, commits, audits>>

\* Seeded fault: a failed outcome is taken for a free key.
BeginRetriesFailed(c) ==
    /\ pc[c] = "begin"
    /\ key[c[1]] \in {"none", "error"}
    /\ key' = [key EXCEPT ![c[1]] = "pending"]
    /\ pc' = [pc EXCEPT ![c] = "exec"]
    /\ UNCHANGED <<backend, job, seen, out, commits, audits>>

\* BeginOrReplay: the key is granted, in progress, or has an outcome to replay.
Begin(c) ==
    LET j == c[1] IN
    /\ pc[c] = "begin"
    /\ \/ /\ key[j] = "none"
          /\ key' = [key EXCEPT ![j] = "pending"]
          /\ pc' = [pc EXCEPT ![c] = "exec"]
          /\ UNCHANGED out
       \/ /\ key[j] # "none"
          /\ out' = [out EXCEPT ![c] = IF key[j] = "pending" THEN "error" ELSE key[j]]
          /\ pc' = [pc EXCEPT ![c] = "finish"]
          /\ UNCHANGED key
    /\ UNCHANGED <<backend, job, seen, commits, audits>>

\* Ways to commit and report an error all the same: the answer to COMMIT is lost,
\* the rows make a body that REST refuses, the embedded back end gets an RPC
\* result that is not an object.
HiddenCommit(j) ==
    {"commit_lost"}
    \cup (IF backend = "embedded"
          THEN IF job[j].tool = "rpc_call" THEN {"not_an_object"} ELSE {}
          ELSE IF job[j].tool # "rpc_call" /\ ReadsRows(Statement(job[j]))
               THEN {"body_too_large"} ELSE {})

\* Executor.Execute or Dispatcher.run: it commits and says so, it rolls back (an
\* error of the statement, or rows beyond the limit), or it hides a commit.
Exec(c) ==
    LET j == c[1] IN
    /\ pc[c] = "exec"
    /\ \E res \in {"ok", "rolled_back"} \cup HiddenCommit(j) :
           /\ commits' = [commits EXCEPT ![j] = IF res = "rolled_back" THEN @ ELSE @ + 1]
           /\ out' = [out EXCEPT ![c] = IF res = "ok" THEN "ok" ELSE "error"]
    /\ pc' = [pc EXCEPT ![c] = IF Keyed(j) THEN "reply" ELSE Leave]
    /\ UNCHANGED <<backend, job, seen, key, audits>>

\* Seeded fault: the status is not looked at.
ReceivedUnchecked(c) == {"ok"}

\* doAndDecode: a status of 400 or more is an error, and so is an answer that is
\* lost on the way or larger than the client reads.  In the embedded server
\* jsonResult fails on rows with a value that JSON does not have, such as NaN.
Received(c) ==
    LET q == job[c[1]] IN
    IF /\ out[c] = "ok"
       /\ \/ backend = "standalone"
          \/ q.tool \in {"sql_execute", "vector_search"} /\ ReadsRows(Statement(q))
    THEN {"ok", "error"} ELSE {out[c]}

\* Seeded fault: the error path goes on to the audit of the success.
AuditFallsThrough(c) ==
    /\ pc[c] = "audit"
    /\ audits' = [audits EXCEPT ![c] =
                     IF out[c] = "ok" THEN <<"ok">> ELSE <<out[c], "ok">>]
    /\ pc' = [pc EXCEPT ![c] = "finish"]
    /\ UNCHANGED <<backend, job, out, seen, key, commits>>

\* directDoer.audit and Writer.Write: one row, or none when audit_logs is off or
\* the INSERT fails within its three seconds, which is only logged.
Audit(c) ==
    /\ pc[c] = "audit"
    /\ \/ audits' = [audits EXCEPT ![c] = Append(@, out[c])]
       \/ UNCHANGED audits
    /\ pc' = [pc EXCEPT ![c] = "finish"]
    /\ UNCHANGED <<backend, job, out, seen, key, commits>>

\* The answer leaves, and the agent gets it unless it has given up.
Respond(c) ==
    /\ pc[c] \in {"reply", "finish"}
    /\ \E res \in Received(c) :
           seen' = [seen EXCEPT ![c] = IF @ = "none" THEN res ELSE @]
    /\ pc' = [pc EXCEPT ![c] = IF @ = "reply" THEN "complete" ELSE "over"]
    /\ UNCHANGED <<backend, job, out, key, commits, audits>>

\* Complete comes after the answer, and may fail.
Complete(c) ==
    /\ pc[c] = "complete"
    /\ \/ key' = [key EXCEPT ![c[1]] = out[c]]
       \/ UNCHANGED key
    /\ pc' = [pc EXCEPT ![c] = "over"]
    /\ UNCHANGED <<backend, job, out, seen, commits, audits>>

Handle(c) ==
    Check(c) \/ Begin(c) \/ Exec(c) \/ Audit(c) \/ Respond(c) \/ Complete(c)

Next ==
    \E c \in Calls : CallTool(c) \/ Probe(c) \/ Deliver(c) \/ GiveUp(c) \/ Handle(c)

Spec == Init /\ [][Next]_vars

\* The timer of the standalone client goes off, whatever the gateway does; the
\* embedded back end is bounded by the statement timeout (module Serve).
Fairness ==
    \A c \in Calls :
        /\ WF_vars(backend = "standalone" /\ GiveUp(c))
        /\ WF_vars(backend = "embedded" /\ Handle(c))

FairSpec == Spec /\ Fairness

-----------------------------------------------------------------------------

(* Properties *)

\* server.go offers idempotency_key "for safely retrying the same write
\* operation": through the standalone binary a job with a key commits at most
\* once, however often the agent retries while earlier attempts still run.
KeyedRetryOnce == \A j \in Jobs : Keyed(j) => commits[j] <= 1

\* A tool call that reports success has its statement committed.
SuccessIsTrue ==
    \A c \in Calls : seen[c] = "ok" /\ job[c[1]].tool \notin Probes
                         => commits[c[1]] > 0

\* A statement that has run is a single one that parses, with a value for each
\* of its placeholders, and a search asks for at most MaxK rows.
OnlyValidRuns ==
    \A j \in Jobs : commits[j] > 0 /\ job[j].tool # "rpc_call" =>
        LET st == Statement(job[j]) IN
        /\ st.parses /\ st.stmts = 1
        /\ Params(job[j]) <= MaxStatementParams
        /\ st.tokens \subseteq 0..Params(job[j])
        /\ job[j].tool = "vector_search" => Limit(job[j]) \in 0..MaxK

\* The statements that the tools build themselves fit the validator: a call whose
\* arguments the tool accepted is not refused for its placeholders.
BuiltStatementsFit ==
    \A c \in Calls :
        LET q == job[c[1]] IN
        pc[c] # "new" /\ ~ToolRefuses(q)
            /\ q.tool \in Builders
            => Validate(Statement(q), Params(q)) \in {"ok", "too_many_params"}

\* What audit_logs says of the embedded back end, though rows may be missing and
\* agents give up and retry: a call has one row at most, no agent was told "ok"
\* about a call with an error in the log, and each row "ok" has a commit of its
\* own, so that the successes counted for a job are writes that happened.
AuditRowsAreTrue ==
    backend = "embedded" =>
        /\ \A c \in Calls :
               /\ Len(audits[c]) <= 1
               /\ seen[c] = "ok" => audits[c] \in {<<>>, <<"ok">>}
        /\ \A j \in Jobs :
               Cardinality({i \in Attempts : audits[<<j, i>>] = <<"ok">>}) <= commits[j]

\* Every tool call is answered, also when the gateway hangs.
EveryCallAnswered == \A c \in Calls : pc[c] # "new" ~> seen[c] # "none"

=============================================================================
