--------------------------- MODULE McpCallsProofs ---------------------------
(***************************************************************************)
(* The safety properties of McpCalls, for any number of jobs, attempts and *)
(* requests and any limits.                                                *)
(*                                                                         *)
(* The invariant has a part for each attempt (CallsOk: what it has been    *)
(* told and what was audited is backed by a commit of its job) and one for *)
(* the attempts of a job together (KeysOk: at most one of them holds the   *)
(* key between its grant and Complete, and it runs before anything has     *)
(* committed).                                                             *)
(***************************************************************************)
EXTENDS McpCalls, TLAPS

-----------------------------------------------------------------------------

(* The largest placeholder *)

\* What has a largest number has no other one.
LEMMA MaxUnique ==
  ASSUME NEW S \in SUBSET Int, NEW m \in S, \A y \in S : m >= y
  PROVE  Max(S) = m
  <1>1. PICK x \in S : Max(S) = x /\ \A y \in S : x >= y
    BY Zenon DEF Max
  <1>2. x >= m /\ m >= x
    BY <1>1, Zenon
  <1>3. x \in Int /\ m \in Int
    BY Zenon
  <1>4. x = m
    BY <1>2, <1>3
  <1>5. QED
    BY <1>1, <1>4, Zenon

-----------------------------------------------------------------------------

(* The statements the tools build *)

\* A built statement with the placeholders of its parameters passes, unless it
\* has too many of them.
LEMMA BuiltPasses ==
  ASSUME NEW node, NEW tokens \in SUBSET Nat, NEW params \in Nat,
         tokens \subseteq 0..params, params \in tokens \cup {0}
  PROVE  Validate(Built(node, tokens), params) \in {"ok", "too_many_params"}
  <1> DEFINE st == Built(node, tokens)
  <1>1. Max(tokens \cup {0}) = params
    BY MaxUnique
  <1>2. /\ st.bytes = 1 /\ st.parses = TRUE /\ st.stmts = 1 /\ st.tokens = tokens
    BY Zenon DEF Built
  <1>3. CountPlaceholders(st) = params
    BY <1>1, <1>2, Zenon DEF CountPlaceholders
  <1>4. ~(1 > MaxStatementBytes) /\ 1 # 0
    BY ValidatorAssumption
  <1> HIDE DEF st
  <1>5. Validate(st, params) = IF params > MaxStatementParams THEN "too_many_params" ELSE "ok"
    BY <1>2, <1>3, <1>4, Zenon DEF Validate
  <1>6. QED
    BY <1>5, Zenon DEF st

\* The rows of an upsert have the placeholders 1 to 3 * rows between them.
LEMMA UpsertTokens ==
  ASSUME NEW rows \in Nat, rows # 0
  PROVE  UNION {RowPlaceholders(i) : i \in 0..rows - 1} = 1..3 * rows
  <1> DEFINE U == UNION {RowPlaceholders(i) : i \in 0..rows - 1}
  <1>1. ASSUME NEW x \in U PROVE x \in 1..3 * rows
    <2>1. PICK i \in 0..rows - 1 : x \in RowPlaceholders(i)
      BY Zenon
    <2>2. QED
      BY <2>1 DEF RowPlaceholders
  <1>2. ASSUME NEW x \in 1..3 * rows PROVE x \in U
    <2> DEFINE i == (x - 1) \div 3
    <2>1. i \in 0..rows - 1 /\ x \in {3 * i + 1, 3 * i + 2, 3 * i + 3}
      OBVIOUS
    <2>2. x \in RowPlaceholders(i)
      BY <2>1, Zenon DEF RowPlaceholders
    <2> HIDE DEF i
    <2>3. QED
      BY <2>1, <2>2, Zenon
  <1>3. QED
    BY <1>1, <1>2, Zenon

\* Whatever the arguments it accepts, a tool that builds its statement builds one
\* that fits.
LEMMA BuildersFit ==
  ASSUME NEW q \in Requests, q.tool \in Builders, ~ToolRefuses(q)
  PROVE  Validate(Statement(q), Params(q)) \in {"ok", "too_many_params"}
  <1>1. CASE q.tool = "list_tables"
    <2>1. Statement(q) = Built("SelectStmt", {}) /\ Params(q) = 0
      BY <1>1, Zenon DEF Statement, Params, ListTables
    <2>2. QED
      BY <2>1, BuiltPasses
  <1>2. CASE q.tool = "describe_table"
    <2>1. Statement(q) = Built("SelectStmt", {1}) /\ Params(q) = 1
      BY <1>2, Zenon DEF Statement, Params, DescribeTable
    <2>2. QED
      BY <2>1, BuiltPasses
  <1>3. CASE q.tool = "vector_search"
    <2>1. Statement(q) = Built("SelectStmt", {1, 2}) /\ Params(q) = 2
      BY <1>3, Zenon DEF Statement, Params, VectorSearch
    <2>2. QED
      BY <2>1, BuiltPasses
  <1>4. CASE q.tool = "vector_upsert"
    <2>1. q.rows \in Nat /\ q.rows # 0
      BY <1>4, RequestAssumption, Zenon DEF ToolRefuses, UpsertRefuses
    <2>2. Statement(q) = Built("InsertStmt", 1..3 * q.rows) /\ Params(q) = 3 * q.rows
      BY <1>4, <2>1, UpsertTokens, Zenon DEF Statement, Params, Upsert
    <2>3. PICK n \in Nat : n = 3 * q.rows /\ n >= 1
      BY <2>1
    <2>4. 1..n \subseteq 0..n /\ n \in 1..n /\ 1..n \in SUBSET Nat
      BY <2>3
    <2>5. Validate(Built("InsertStmt", 1..n), n) \in {"ok", "too_many_params"}
      BY <2>4, BuiltPasses, Zenon
    <2>6. QED
      BY <2>2, <2>3, <2>5, Zenon
  <1>5. QED
    BY <1>1, <1>2, <1>3, <1>4, Zenon DEF Builders

-----------------------------------------------------------------------------

(* The invariant *)

\* The tool has passed its arguments on.
Allowed(q) == q.tool \notin Probes /\ ~ToolRefuses(q)

\* An attempt at step s, with what the gateway made of it, what the agent has
\* got and its audit rows, when its job's statement has committed n times.
CallOk(s, o, got, log, n, q, mode, keyed) ==
    /\ s \notin {"new", "over"} => Allowed(q)
    /\ s \in {"begin", "exec", "reply", "complete"} => Accepted(q)
    /\ s \in {"begin", "reply", "complete"} => keyed
    /\ s \in {"audit", "reply", "complete", "finish"} => o # "none"
    /\ o = "ok" => n > 0
    /\ got = "ok" /\ q.tool \notin Probes => n > 0
    /\ got = "ok" => s \in {"complete", "over"}
    /\ got = "ok" /\ q.tool \notin Probes => o = "ok"
    /\ log # <<>> => s \in {"finish", "over"} /\ q.tool \notin Probes /\ log = <<o>>

CallsOk ==
    \A c \in Calls : CallOk(pc[c], out[c], seen[c], audits[c],
                            commits[c[1]], job[c[1]], backend, Keyed(c[1]))

\* A statement that has committed was let through, and only a commit is kept as
\* "ok" under the key.
RunsOk ==
    \A j \in Jobs :
        /\ commits[j] > 0 => Allowed(job[j]) /\ Accepted(job[j])
        /\ key[j] = "ok" => commits[j] > 0

\* The steps of an attempt between the grant of its key and Complete.
Granted == {"exec", "reply", "complete"}

\* The attempts of a job with a key: none is granted it while it is free, at most
\* one is at all, and until that one has run nothing has committed.
KeysOk ==
    \A j \in Jobs : Keyed(j) =>
        /\ key[j] = "none" =>
               commits[j] = 0 /\ \A i \in Attempts : pc[<<j, i>>] \notin Granted
        /\ \A h, i \in Attempts :
               pc[<<j, h>>] \in Granted /\ pc[<<j, i>>] \in Granted => h = i
        /\ \A i \in Attempts : pc[<<j, i>>] = "exec" => commits[j] = 0
        /\ commits[j] <= 1

Steps == {"new", "sent", "check", "begin", "exec", "audit", "reply", "complete",
             "finish", "over"}

\* The types, with no bound on the commits yet.
Types ==
    /\ backend \in {"standalone", "embedded"}
    /\ job \in [Jobs -> Requests]
    /\ pc \in [Calls -> Steps]
    /\ out \in [Calls -> Statuses]
    /\ seen \in [Calls -> Statuses]
    /\ key \in [Jobs -> Statuses \cup {"pending"}]
    /\ commits \in [Jobs -> Nat]
    /\ audits \in [Calls -> Seq(Statuses)]

Inv == Types /\ CallsOk /\ RunsOk /\ KeysOk

LEMMA InitInv == Init => Inv
  <1> SUFFICES ASSUME Init PROVE Inv
    BY Zenon
  <1>1. Types
    BY DEF Init, Types, Steps, Statuses
  <1>2. \A c \in Calls : pc[c] = "new" /\ out[c] = "none" /\ seen[c] = "none"
                         /\ audits[c] = <<>> /\ c[1] \in Jobs
    BY Zenon DEF Init, Calls
  <1>3. CallsOk
    BY <1>2, Zenon DEF CallsOk, CallOk
  <1>4. RunsOk
    BY DEF Init, RunsOk
  <1>5. KeysOk
    BY DEF Init, KeysOk, Granted, Calls
  <1>6. QED
    BY <1>1, <1>3, <1>4, <1>5, Zenon DEF Inv

\* The steps of one attempt.
CallSteps(c) == CallTool(c) \/ Probe(c) \/ Deliver(c) \/ GiveUp(c) \/ Handle(c)

\* A step of attempt c leaves the other attempts and jobs alone, and takes back no
\* commit.
LEMMA Frame ==
  ASSUME Types, NEW c \in Calls, CallSteps(c)
  PROVE  /\ UNCHANGED <<backend, job>>
         /\ \A d \in Calls \ {c} : /\ pc'[d] = pc[d] /\ out'[d] = out[d]
                                   /\ seen'[d] = seen[d] /\ audits'[d] = audits[d]
         /\ \A j \in Jobs \ {c[1]} : key'[j] = key[j] /\ commits'[j] = commits[j]
  <1> USE DEF Types
  <1>1. CASE CallTool(c) \/ Probe(c) \/ Deliver(c) \/ GiveUp(c)
    BY <1>1, Zenon DEF CallTool, Probe, Deliver, GiveUp
  <1>2. CASE Check(c) \/ Exec(c)
    BY <1>2, Zenon DEF Check, Exec
  <1>3. CASE Begin(c) \/ Complete(c)
    BY <1>3, Zenon DEF Begin, Complete
  <1>4. CASE Audit(c) \/ Respond(c)
    BY <1>4, Zenon DEF Audit, Respond
  <1>5. QED
    BY <1>1, <1>2, <1>3, <1>4, Zenon DEF CallSteps, Handle

\* Whether a job has a key does not change.
LEMMA SameKeyed ==
  ASSUME UNCHANGED <<backend, job>>, NEW j
  PROVE  Keyed(j)' = Keyed(j)
  BY Zenon DEF Keyed

\* The types are kept, and no commit is undone.
LEMMA TypesStep ==
  ASSUME Types, NEW c \in Calls, CallSteps(c)
  PROVE  Types' /\ \A j \in Jobs : commits'[j] >= commits[j]
  <1>1. c[1] \in Jobs /\ UNCHANGED <<backend, job>>
    BY Frame, Zenon DEF Calls
  <1>2. pc' \in [Calls -> Steps]
    BY Zenon DEF CallSteps, Handle, Types, Steps, Leave, CallTool, Probe, Deliver, GiveUp, Check,
                 Begin, Exec, Audit, Respond, Complete
  <1>3. key' \in [Jobs -> Statuses \cup {"pending"}]
    BY <1>1, Zenon DEF CallSteps, Handle, Types, Statuses, CallTool, Probe, Deliver,
                       GiveUp, Check, Begin, Exec, Audit, Respond, Complete
  <1>4. out' \in [Calls -> Statuses]
    BY <1>1, Zenon DEF CallSteps, Handle, Types, Statuses, CallTool, Probe, Deliver,
                       GiveUp, Check, Begin, Exec, Audit, Respond, Complete
  <1>5. seen' \in [Calls -> Statuses]
    BY Zenon DEF CallSteps, Handle, Types, Statuses, CallTool, Probe, Deliver, GiveUp,
                 Check, Begin, Exec, Audit, Respond, Complete, Received
  <1>6. commits' \in [Jobs -> Nat] /\ \A j \in Jobs : commits'[j] >= commits[j]
    <2>1. CASE UNCHANGED commits
      BY <2>1 DEF Types
    <2>2. CASE Exec(c)
      BY <1>1, <2>2 DEF Exec, Types
    <2>3. QED
      BY <2>1, <2>2, Zenon DEF CallSteps, Handle, CallTool, Probe, Deliver, GiveUp, Check,
                               Begin, Audit, Respond, Complete
  <1>7. audits' \in [Calls -> Seq(Statuses)]
    <2>1. CASE UNCHANGED audits
      BY <2>1, Zenon DEF Types
    <2>2. CASE Audit(c)
      <3>1. Append(audits[c], out[c]) \in Seq(Statuses)
        BY DEF Types
      <3>2. QED
        BY <2>2, <3>1, Zenon DEF Audit, Types
    <2>3. QED
      BY <2>1, <2>2, Zenon DEF CallSteps, Handle, CallTool, Probe, Deliver, GiveUp, Check,
                               Begin, Exec, Respond, Complete
  <1>8. QED
    BY <1>1, <1>2, <1>3, <1>4, <1>5, <1>6, <1>7, Zenon DEF Types

-----------------------------------------------------------------------------

(* The attempts *)

\* More commits of its job keep an attempt as it should be.
LEMMA CallOkStays ==
  ASSUME NEW s, NEW o, NEW got, NEW log, NEW q, NEW mode, NEW keyed,
         NEW n \in Nat, NEW m \in Nat, m >= n,
         CallOk(s, o, got, log, n, q, mode, keyed)
  PROVE  CallOk(s, o, got, log, m, q, mode, keyed)
  <1>1. n > 0 => m > 0
    OBVIOUS
  <1>2. QED
    BY <1>1, Zenon DEF CallOk

\* The attempt that takes the step.
LEMMA OwnCall ==
  ASSUME Inv, NEW c \in Calls, CallSteps(c)
  PROVE  CallOk(pc'[c], out'[c], seen'[c], audits'[c], commits'[c[1]],
                job[c[1]], backend, Keyed(c[1]))
  <1> DEFINE j == c[1]
             q == job[j]
             n == commits[j]
  <1> SUFFICES CallOk(pc'[c], out'[c], seen'[c], audits'[c], commits'[j], q,
                      backend, Keyed(j))
    BY Zenon
  <1>1. /\ j \in Jobs /\ n \in Nat /\ commits'[j] \in Nat /\ commits'[j] >= n
        /\ pc[c] \in Steps /\ seen[c] \in Statuses /\ out[c] \in Statuses
        /\ backend \in {"standalone", "embedded"}
        /\ key[j] \in Statuses \cup {"pending"}
    BY TypesStep, Zenon DEF Inv, Types, Calls
  <1>2. CallOk(pc[c], out[c], seen[c], audits[c], n, q, backend, Keyed(j))
    BY Zenon DEF Inv, CallsOk
  <1>3. Keyed(j) => backend = "standalone"
    BY Zenon DEF Keyed
  <1>4. key[j] = "ok" => n > 0
    BY <1>1, Zenon DEF Inv, RunsOk
  <1>5. CASE CallTool(c)
    <2>1. /\ pc[c] = "new" /\ q.tool \notin Probes /\ commits'[j] = n
          /\ out'[c] = out[c] /\ audits'[c] = audits[c]
          /\ \/ pc'[c] = "over" /\ seen'[c] = "error"
             \/ pc'[c] \in {"sent", "check"} /\ ~ToolRefuses(q) /\ seen'[c] = seen[c]
      BY <1>5, Zenon DEF CallTool, Tries, Inv, Types
    <2> HIDE DEF q, n
    <2>2. QED
      BY <1>2, <2>1, Zenon DEF CallOk, Allowed
  <1>6. CASE Probe(c)
    <2>1. /\ pc[c] = "new" /\ q.tool \in Probes /\ commits'[j] = n
          /\ out'[c] = out[c] /\ audits'[c] = audits[c] /\ pc'[c] = "over"
      BY <1>6, Zenon DEF Probe, Tries, Inv, Types
    <2> HIDE DEF q, n
    <2>2. QED
      BY <1>2, <2>1, Zenon DEF CallOk, Allowed
  <1>7. CASE Deliver(c)
    <2>1. /\ pc[c] = "sent" /\ commits'[j] = n
          /\ out'[c] = out[c] /\ audits'[c] = audits[c]
          /\ \/ pc'[c] = "over" /\ seen'[c] = "error"
             \/ pc'[c] = "check" /\ seen'[c] = seen[c]
      BY <1>7, Zenon DEF Deliver, Inv, Types
    <2> HIDE DEF q, n
    <2>2. QED
      BY <1>2, <2>1, Zenon DEF CallOk
  <1>8. CASE GiveUp(c)
    <2>1. /\ pc'[c] = pc[c] /\ commits'[j] = n
          /\ out'[c] = out[c] /\ audits'[c] = audits[c] /\ seen'[c] = "error"
      BY <1>8, Zenon DEF GiveUp, Inv, Types
    <2> HIDE DEF q, n
    <2>2. QED
      BY <1>2, <2>1, Zenon DEF CallOk
  <1>9. CASE Check(c)
    <2>1. /\ pc[c] = "check" /\ commits'[j] = n
          /\ audits'[c] = audits[c] /\ seen'[c] = seen[c]
          /\ \/ pc'[c] \in {"begin", "exec"} /\ Accepted(q) /\ out'[c] = out[c]
                /\ (pc'[c] = "begin" => Keyed(j))
             \/ pc'[c] \in {"audit", "finish"} /\ out'[c] = "error"
      BY <1>9, Zenon DEF Check, Leave, Inv, Types
    <2> HIDE DEF q, n
    <2>2. QED
      BY <1>2, <2>1, Zenon DEF CallOk
  <1>10. CASE Begin(c)
    <2>1. /\ pc[c] = "begin" /\ commits'[j] = n
          /\ audits'[c] = audits[c] /\ seen'[c] = seen[c]
          /\ \/ pc'[c] = "exec" /\ out'[c] = out[c]
             \/ /\ pc'[c] = "finish" /\ out'[c] \in {"ok", "error"}
                /\ out'[c] = "ok" => key[j] = "ok"
      BY <1>1, <1>10, Zenon DEF Begin, Inv, Types, Statuses
    <2> HIDE DEF q, n
    <2>2. QED
      BY <1>2, <1>4, <2>1, Zenon DEF CallOk
  <1>11. CASE Exec(c)
    <2>1. /\ pc[c] = "exec" /\ audits'[c] = audits[c] /\ seen'[c] = seen[c]
          /\ out'[c] \in {"ok", "error"}
          /\ out'[c] = "ok" => commits'[j] > 0
          /\ pc'[c] \in {"audit", "reply", "finish"} /\ (pc'[c] = "reply" => Keyed(j))
      BY <1>1, <1>11 DEF Exec, Leave, Inv, Types, Calls
    <2>2. n > 0 => commits'[j] > 0
      BY <1>1
    <2> HIDE DEF q, n
    <2>3. QED
      BY <1>2, <2>1, <2>2, Zenon DEF CallOk
  <1>12. CASE Respond(c)
    <2>1. /\ pc[c] \in {"reply", "finish"} /\ commits'[j] = n /\ out'[c] = out[c]
          /\ pc'[c] = (IF pc[c] = "reply" THEN "complete" ELSE "over")
          /\ audits'[c] = audits[c]
      BY <1>12, Zenon DEF Respond, Inv, Types
    <2>2. \/ seen[c] # "none" /\ seen'[c] = seen[c]
          \/ seen'[c] \in Received(c)
      BY <1>12, Zenon DEF Respond, Inv, Types
    <2>3. seen'[c] = "ok" => seen[c] = "ok" \/ out[c] = "ok"
      BY <2>2, Zenon DEF Received
    <2> HIDE DEF q, n
    <2>4. QED
      BY <1>2, <2>1, <2>3, Zenon DEF CallOk
  <1>13. CASE Complete(c)
    <2>1. /\ pc[c] = "complete" /\ pc'[c] = "over" /\ commits'[j] = n
          /\ out'[c] = out[c] /\ audits'[c] = audits[c] /\ seen'[c] = seen[c]
      BY <1>13, Zenon DEF Complete, Inv, Types
    <2> HIDE DEF q, n
    <2>2. QED
      BY <1>2, <2>1, Zenon DEF CallOk
  <1>14. CASE Audit(c)
    <2>1. /\ pc[c] = "audit" /\ pc'[c] = "finish" /\ commits'[j] = n
          /\ out'[c] = out[c] /\ seen'[c] = seen[c]
          /\ audits'[c] \in {audits[c], Append(audits[c], out[c])}
      BY <1>14, Zenon DEF Audit, Inv, Types
    <2>2. audits[c] = <<>> /\ q.tool \notin Probes
      BY <1>2, <2>1, Zenon DEF CallOk, Allowed
    <2>3. audits'[c] \in {<<>>, <<out[c]>>}
      BY <2>1, <2>2
    <2> HIDE DEF q, n
    <2>4. QED
      BY <1>2, <2>1, <2>2, <2>3, Zenon DEF CallOk
  <1>15. QED
    BY <1>5, <1>6, <1>7, <1>8, <1>9, <1>10, <1>11, <1>12, <1>13, <1>14, Zenon
       DEF CallSteps, Handle

\* The other attempts are not disturbed either.
LEMMA CallsStep ==
  ASSUME Inv, NEW c \in Calls, CallSteps(c)
  PROVE  CallsOk'
  <1> SUFFICES ASSUME NEW d \in Calls
               PROVE  CallOk(pc[d], out[d], seen[d], audits[d], commits[d[1]],
                             job[d[1]], backend, Keyed(d[1]))'
    BY Zenon DEF CallsOk
  <1>1. UNCHANGED <<backend, job>> /\ Keyed(d[1])' = Keyed(d[1])
    BY Frame, SameKeyed, Zenon DEF Inv
  <1>2. d[1] \in Jobs
    BY Zenon DEF Calls
  <1>3. CASE d = c
    BY <1>1, <1>3, OwnCall, Zenon
  <1>4. CASE d # c
    <2>1. CallOk(pc[d], out[d], seen[d], audits[d], commits[d[1]],
                 job[d[1]], backend, Keyed(d[1]))
      BY Zenon DEF Inv, CallsOk
    <2>2. commits'[d[1]] \in Nat /\ commits[d[1]] \in Nat /\ commits'[d[1]] >= commits[d[1]]
      BY <1>2, TypesStep, Zenon DEF Inv, Types
    <2>3. CallOk(pc[d], out[d], seen[d], audits[d], commits'[d[1]],
                 job[d[1]], backend, Keyed(d[1]))
      BY <2>1, <2>2, CallOkStays, Zenon
    <2>4. pc'[d] = pc[d] /\ out'[d] = out[d] /\ seen'[d] = seen[d] /\ audits'[d] = audits[d]
      BY <1>4, Frame, Zenon DEF Inv
    <2>5. QED
      BY <1>1, <2>3, <2>4, Zenon
  <1>5. QED
    BY <1>3, <1>4, Zenon

-----------------------------------------------------------------------------

(* The jobs *)

\* A commit comes from an attempt that was let through, and Complete stores the
\* outcome of one that has run.
LEMMA RunsStep ==
  ASSUME Inv, NEW c \in Calls, CallSteps(c)
  PROVE  RunsOk'
  <1> SUFFICES ASSUME NEW j \in Jobs
               PROVE  /\ commits'[j] > 0 => Allowed(job[j]) /\ Accepted(job[j])
                      /\ key'[j] = "ok" => commits'[j] > 0
    BY Frame, Zenon DEF RunsOk, Inv
  <1>1. /\ commits[j] > 0 => Allowed(job[j]) /\ Accepted(job[j])
        /\ key[j] = "ok" => commits[j] > 0
        /\ commits[j] \in Nat /\ commits'[j] \in Nat /\ commits'[j] >= commits[j]
    BY TypesStep, Zenon DEF Inv, RunsOk, Types
  <1>2. CASE j # c[1]
    BY <1>1, <1>2, Frame, Zenon DEF Inv
  <1>3. CASE j = c[1]
    <2>1. CallOk(pc[c], out[c], seen[c], audits[c], commits[j], job[j], backend, Keyed(j))
      BY <1>3, Zenon DEF Inv, CallsOk
    <2>2. pc[c] = "exec" => Allowed(job[j]) /\ Accepted(job[j])
      BY <2>1, Zenon DEF CallOk
    <2>3. out[c] = "ok" => commits[j] > 0
      BY <2>1, Zenon DEF CallOk
    <2>4. commits'[j] = commits[j] \/ pc[c] = "exec"
      BY Zenon DEF CallSteps, Handle, CallTool, Probe, Deliver, GiveUp, Check, Begin, Exec, Audit,
                   Respond, Complete
    <2>5. key'[j] = key[j] \/ key'[j] = "pending" \/ key'[j] = out[c]
      BY <1>3, Zenon DEF CallSteps, Handle, CallTool, Probe, Deliver, GiveUp, Check, Begin,
                         Exec, Audit, Respond, Complete, Inv, Types
    <2>6. key'[j] = "ok" => commits[j] > 0
      BY <1>1, <2>3, <2>5, Zenon
    <2>7. QED
      BY <1>1, <2>2, <2>4, <2>6
  <1>4. QED
    BY <1>2, <1>3, Zenon

\* What the step of an attempt does to its job, when that has a key.
LEMMA KeyedMove ==
  ASSUME Inv, NEW c \in Calls, CallSteps(c), Keyed(c[1])
  PROVE  LET j == c[1] IN
         \/ /\ key'[j] = key[j] /\ commits'[j] = commits[j]
            /\ pc'[c] \notin Granted \/ pc'[c] = pc[c]
         \/ /\ key[j] = "none" /\ key'[j] = "pending" /\ commits'[j] = commits[j]
            /\ pc'[c] = "exec"
         \/ /\ pc[c] = "exec" /\ pc'[c] = "reply" /\ key'[j] = key[j]
            /\ commits'[j] \in {commits[j], commits[j] + 1}
         \/ /\ pc[c] = "reply" /\ pc'[c] = "complete"
            /\ key'[j] = key[j] /\ commits'[j] = commits[j]
         \/ /\ pc[c] = "complete" /\ pc'[c] = "over"
            /\ key'[j] # "none" /\ commits'[j] = commits[j]
  <1> DEFINE j == c[1]
  <1>1. j \in Jobs
    BY Zenon DEF Calls
  <1> USE DEF Inv, Types, Granted
  <1>2. CASE CallTool(c) \/ Probe(c) \/ Deliver(c) \/ GiveUp(c)
    BY <1>2, Zenon DEF CallTool, Probe, Deliver, GiveUp
  <1>3. CASE Check(c)
    BY <1>3, Zenon DEF Check, Leave
  <1>4. CASE Begin(c)
    BY <1>1, <1>4, Zenon DEF Begin
  <1>5. CASE Exec(c)
    BY <1>1, <1>5, Zenon DEF Exec
  <1>6. CASE Audit(c) \/ Respond(c)
    BY <1>6, Zenon DEF Audit, Respond
  <1>7. CASE Complete(c)
    <2>1. CallOk(pc[c], out[c], seen[c], audits[c], commits[j], job[j], backend, Keyed(j))
      BY Zenon DEF CallsOk
    <2>2. pc[c] = "complete" /\ out[c] # "none"
      BY <1>7, <2>1, Zenon DEF Complete, CallOk
    <2>3. key[j] # "none"
      BY <1>1, <2>2 DEF KeysOk, Calls
    <2>4. QED
      BY <1>1, <1>7, <2>2, <2>3, Zenon DEF Complete
  <1>8. QED
    BY <1>2, <1>3, <1>4, <1>5, <1>6, <1>7, Zenon DEF CallSteps, Handle

\* At most one attempt holds the key: BeginOrReplay grants only a free one, which
\* no attempt holds, and nothing frees it.
LEMMA KeysStep ==
  ASSUME Inv, NEW c \in Calls, CallSteps(c)
  PROVE  KeysOk'
  <1>1. \A j \in Jobs : Keyed(j)' = Keyed(j)
    BY Frame, SameKeyed, Zenon DEF Inv
  <1>2. /\ commits \in [Jobs -> Nat] /\ pc \in [Calls -> Steps]
        /\ \A d \in Calls \ {c} : pc'[d] = pc[d]
        /\ \A j \in Jobs \ {c[1]} : key'[j] = key[j] /\ commits'[j] = commits[j]
    BY Frame, Zenon DEF Inv, Types
  <1>3. PICK k \in Jobs, e \in Attempts : c = <<k, e>>
    BY DEF Calls
  <1>4. \A j \in Jobs, i \in Attempts :
            <<j, i>> \in Calls /\ (<<j, i>> = c => j = k /\ i = e)
    BY <1>3, Zenon DEF Calls
  <1> SUFFICES ASSUME NEW j \in Jobs, Keyed(j)
        PROVE /\ key'[j] = "none" =>
                     commits'[j] = 0 /\ \A i \in Attempts : pc'[<<j, i>>] \notin Granted
              /\ \A h, i \in Attempts :
                     pc'[<<j, h>>] \in Granted /\ pc'[<<j, i>>] \in Granted => h = i
              /\ \A i \in Attempts : pc'[<<j, i>>] = "exec" => commits'[j] = 0
              /\ commits'[j] <= 1
    BY <1>1, Zenon DEF KeysOk
  <1>5. /\ key[j] = "none" =>
               commits[j] = 0 /\ \A i \in Attempts : pc[<<j, i>>] \notin Granted
        /\ \A h, i \in Attempts :
               pc[<<j, h>>] \in Granted /\ pc[<<j, i>>] \in Granted => h = i
        /\ \A i \in Attempts : pc[<<j, i>>] = "exec" => commits[j] = 0
        /\ commits[j] <= 1
    BY Zenon DEF Inv, KeysOk
  <1>6. CASE j # k
    BY <1>2, <1>3, <1>4, <1>5, <1>6, Zenon
  <1>7. CASE j = k
    <2>1. \A i \in Attempts : i # e => pc'[<<j, i>>] = pc[<<j, i>>]
      BY <1>2, <1>4, Zenon
    <2>2. c = <<j, e>> /\ c[1] = j
      BY <1>3, <1>7, Zenon
    <2>3. commits[j] \in Nat
      BY <1>2, Zenon
    <2>4. QED
      BY <1>5, <2>1, <2>2, <2>3, KeyedMove DEF Granted
  <1>8. QED
    BY <1>6, <1>7, Zenon

LEMMA Inductive == Inv /\ [Next]_vars => Inv'
  <1> SUFFICES ASSUME Inv, [Next]_vars PROVE Inv'
    BY Zenon
  <1>1. CASE UNCHANGED vars
    BY <1>1, Zenon DEF vars, Inv, Types, CallsOk, RunsOk, KeysOk, Keyed
  <1>2. ASSUME NEW c \in Calls, CallSteps(c) PROVE Inv'
    BY <1>2, TypesStep, CallsStep, RunsStep, KeysStep, Zenon DEF Inv
  <1>3. QED
    BY <1>1, <1>2, Zenon DEF Next, CallSteps

-----------------------------------------------------------------------------

(* The theorems *)

\* The invariant holds.
THEOREM Invariant == Spec => []Inv
  BY InitInv, Inductive, PTL DEF Spec

\* Through the standalone binary, a job with an idempotency key commits at most
\* once, however its retries overlap.
THEOREM KeyedRetriesRunOnce == Spec => []KeyedRetryOnce
  <1>1. Inv => KeyedRetryOnce
    BY Zenon DEF Inv, KeysOk, KeyedRetryOnce
  <1>2. QED
    BY <1>1, Invariant, PTL

\* Client.doAndDecode and directDoer report no success without a commit.
THEOREM SuccessesAreTrue == Spec => []SuccessIsTrue
  <1>1. Inv => SuccessIsTrue
    BY Zenon DEF Inv, CallsOk, CallOk, SuccessIsTrue
  <1>2. QED
    BY <1>1, Invariant, PTL

\* The placeholders of the statements that tools.go writes match the parameters it
\* passes, whatever the number of rows.
THEOREM BuildersFitValidator == Spec => []BuiltStatementsFit
  <1>1. ASSUME Inv, NEW c \in Calls PROVE job[c[1]] \in Requests
    BY <1>1, Zenon DEF Inv, Types, Calls
  <1>2. Inv => BuiltStatementsFit
    BY <1>1, BuildersFit, Zenon DEF BuiltStatementsFit
  <1>3. QED
    BY <1>2, Invariant, PTL

-----------------------------------------------------------------------------

(* Where finite sets are needed: the placeholders of any statement that the  *)
(* validator takes, and the attempts that have committed.                    *)

INSTANCE FiniteSetTheorems

\* A finite set of numbers has a largest one: a smallest nonempty subset without
\* one would, less an element, have one, and then have one itself.
LEMMA MaxExists ==
  ASSUME NEW S \in SUBSET Int, IsFiniteSet(S), S # {}
  PROVE  Max(S) \in S /\ \A y \in S : Max(S) >= y
  <1> DEFINE Top(T) == \E m \in T : \A y \in T : m >= y
             Bad == {T \in SUBSET S : T # {} /\ ~Top(T)}
  <1>1. ASSUME Bad # {} PROVE FALSE
    <2>1. Bad \subseteq FiniteSubsetsOf(S)
      BY FS_Subset, Zenon DEF FiniteSubsetsOf
    <2>2. PICK T \in Bad : \A U \in Bad : <<U, T>> \notin StrictSubsetOrdering(S)
      BY <1>1, <2>1, FS_StrictSubsetOrderingWellFounded, WFMin, Zenon
    <2>3. PICK x \in T : TRUE
      BY Zenon
    <2>4. T \ {x} \notin Bad
      BY <2>2, <2>3, Zenon DEF StrictSubsetOrdering
    <2>5. CASE T \ {x} = {}
      BY <2>3, <2>5
    <2>6. CASE Top(T \ {x})
      <3>1. PICK m \in T \ {x} : \A y \in T \ {x} : m >= y
        BY <2>6, Zenon
      <3>2. m \in Int /\ x \in Int
        BY <3>1, Zenon
      <3>3. CASE m >= x
        BY <3>1, <3>3, Zenon
      <3>4. CASE ~(m >= x)
        <4>1. \A y \in T : x >= y
          BY <3>1, <3>2, <3>4
        <4>2. QED
          BY <4>1, Zenon
      <3>5. QED
        BY <3>3, <3>4, Zenon
    <2>7. QED
      BY <2>4, <2>5, <2>6, Zenon
  <1>2. Top(S)
    BY <1>1, Zenon
  <1>3. QED
    BY <1>2, Zenon DEF Max

\* The placeholders of a statement that passes are those of its parameters.
LEMMA ValidTokens ==
  ASSUME NEW st, NEW params \in Nat, Validate(st, params) = "ok",
         st.tokens \subseteq Nat, IsFiniteSet(st.tokens)
  PROVE  /\ st.parses /\ st.stmts = 1 /\ params <= MaxStatementParams
         /\ st.tokens \subseteq 0..params
  <1> DEFINE S == st.tokens \cup {0}
  <1>1. /\ st.parses /\ st.stmts = 1 /\ ~(params > MaxStatementParams)
        /\ Max(S) = params
    BY Zenon DEF Validate, CountPlaceholders
  <1>2. S \in SUBSET Int /\ S # {} /\ IsFiniteSet(S)
    BY FS_AddElement
  <1>3. \A y \in S : params >= y
    BY <1>1, <1>2, MaxExists, Zenon
  <1>4. st.tokens \subseteq 0..params
    BY <1>3
  <1>5. QED
    BY <1>1, <1>4, ValidatorAssumption

\* Three parameters for each row.
LEMMA Triple ==
  ASSUME NEW n \in Nat
  PROVE  3 * n \in Nat
  OBVIOUS

\* An interval from 1 is finite.
LEMMA Numbers ==
  ASSUME NEW n \in Nat
  PROVE  IsFiniteSet(1..n) /\ 1..n \subseteq Nat
  <1>1. 1 \in Int /\ n \in Int /\ 1..n \subseteq Nat
    OBVIOUS
  <1>2. QED
    BY <1>1, FS_Interval, Zenon

\* The statement of a tool, and how many parameters it comes with.
LEMMA StatementType ==
  ASSUME NEW q \in Requests, q.tool \in Tools \ (Probes \cup {"rpc_call"}), ~ToolRefuses(q)
  PROVE  /\ Params(q) \in Nat
         /\ Statement(q).tokens \subseteq Nat /\ IsFiniteSet(Statement(q).tokens)
  <1>1. CASE q.tool = "sql_execute"
    <2>1. Statement(q) = q.sql /\ Params(q) = q.params
      BY <1>1, Zenon DEF Statement, Params
    <2>2. QED
      BY <1>1, <2>1, RequestAssumption, Zenon
  <1>2. CASE q.tool = "list_tables"
    <2>1. Statement(q).tokens = {} /\ Params(q) = 0
      BY <1>2, Zenon DEF Statement, Params, ListTables, Built
    <2>2. QED
      BY <2>1, FS_EmptySet
  <1>3. CASE q.tool = "describe_table"
    <2>1. Statement(q).tokens = 1..1 /\ Params(q) = 1 /\ 1 \in Nat
      BY <1>3 DEF Statement, Params, DescribeTable, Built
    <2>2. QED
      BY <2>1, Numbers, Zenon
  <1>4. CASE q.tool = "vector_search"
    <2>1. Statement(q).tokens = 1..2 /\ Params(q) = 2 /\ 2 \in Nat
      BY <1>4 DEF Statement, Params, VectorSearch, Built
    <2>2. QED
      BY <2>1, Numbers, Zenon
  <1>5. CASE q.tool = "vector_upsert"
    <2>1. q.rows \in Nat /\ q.rows # 0
      BY <1>5, RequestAssumption, Zenon DEF ToolRefuses, UpsertRefuses
    <2>2. Statement(q).tokens = 1..3 * q.rows /\ Params(q) = 3 * q.rows
      BY <1>5, <2>1, UpsertTokens, Zenon DEF Statement, Params, Upsert, Built
    <2>3. 3 * q.rows \in Nat
      BY <2>1, Triple, Zenon
    <2>4. QED
      BY <2>2, <2>3, Numbers, Zenon
  <1>6. QED
    BY <1>1, <1>2, <1>3, <1>4, <1>5, Zenon DEF Tools, Builders, Probes

\* The attempts that have run their statement, or will not.
Past == {"audit", "reply", "complete", "finish", "over"}
Ended(j) == {i \in Attempts : pc[<<j, i>>] \in Past}
CountOk == \A j \in Jobs : commits[j] <= Cardinality(Ended(j))

\* An attempt commits at most once.
LEMMA CountStep ==
  ASSUME Inv, CountOk, [Next]_vars
  PROVE  CountOk'
  <1> SUFFICES ASSUME NEW j \in Jobs
               PROVE  commits'[j] <= Cardinality(Ended(j)')
    BY Zenon DEF CountOk
  <1> DEFINE B == Ended(j)
             A == Ended(j)'
  <1>1. /\ commits[j] \in Nat /\ commits[j] <= Cardinality(B)
        /\ pc \in [Calls -> Steps]
    BY Zenon DEF Inv, Types, CountOk
  <1>2. IsFiniteSet(A) /\ IsFiniteSet(B)
    BY McpAssumption, FS_Subset, Zenon DEF Ended
  <1>3. Cardinality(A) \in Nat /\ Cardinality(B) \in Nat
    BY <1>2, FS_CardinalityType, Zenon
  <1>4. CASE UNCHANGED vars
    BY <1>1, <1>4, Zenon DEF vars, Ended
  <1>5. ASSUME NEW c \in Calls, CallSteps(c) PROVE commits'[j] <= Cardinality(A)
    <2>1. pc[c] \in Past => pc'[c] \in Past
      BY <1>1, <1>5, Zenon DEF CallSteps, Handle, CallTool, Tries, Probe, Deliver, GiveUp,
                               Check, Begin, Exec, Audit, Respond, Complete, Past
    <2>2. \A d \in Calls : pc[d] \in Past => pc'[d] \in Past
      BY <1>5, <2>1, Frame, Zenon DEF Inv
    <2>3. B \subseteq A
      BY <2>2, Zenon DEF Ended, Calls
    <2>4. CASE commits'[j] = commits[j]
      <3>1. Cardinality(B) <= Cardinality(A)
        BY <1>2, <2>3, FS_Subset, Zenon
      <3>2. QED
        BY <1>1, <1>3, <2>4, <3>1
    <2>5. CASE commits'[j] # commits[j]
      <3>1. /\ pc[c] = "exec" /\ pc'[c] \in {"audit", "reply", "finish"}
            /\ c[1] = j /\ commits'[j] \in {commits[j], commits[j] + 1}
        BY <1>1, <1>5, <2>5 DEF CallSteps, Handle, CallTool, Probe, Deliver, GiveUp, Check,
                                Begin, Exec, Audit, Respond, Complete, Leave, Inv, Types
      <3>2. PICK e \in Attempts : c = <<j, e>>
        BY <3>1 DEF Calls
      <3>3. e \notin B /\ e \in A
        BY <3>1, <3>2, Zenon DEF Ended, Past
      <3>4. Cardinality(B \cup {e}) = Cardinality(B) + 1 /\ B \cup {e} \subseteq A
        BY <1>2, <2>3, <3>3, FS_AddElement, Zenon
      <3>5. Cardinality(B \cup {e}) <= Cardinality(A)
        BY <1>2, <3>4, FS_Subset, Zenon
      <3>6. QED
        BY <1>1, <1>3, <3>1, <3>4, <3>5
    <2>6. QED
      BY <2>4, <2>5, Zenon
  <1>6. QED
    BY <1>4, <1>5, Zenon DEF Next, CallSteps

\* The attempts whose statement was committed and said so.
Oks(j) == {i \in Attempts : out[<<j, i>>] = "ok"}
OksOk == backend = "embedded" => \A j \in Jobs : Cardinality(Oks(j)) <= commits[j]

\* Without a key, an attempt that says "ok" has committed itself.
LEMMA OksStep ==
  ASSUME Inv, OksOk, [Next]_vars
  PROVE  OksOk'
  <1>1. CASE UNCHANGED vars
    BY <1>1, Zenon DEF vars, OksOk, Oks
  <1>2. ASSUME NEW c \in Calls, CallSteps(c) PROVE OksOk'
    <2>1. UNCHANGED <<backend, job>>
      BY <1>2, Frame, Zenon DEF Inv
    <2> SUFFICES ASSUME backend = "embedded", NEW j \in Jobs
                 PROVE  Cardinality(Oks(j)') <= commits'[j]
      BY <2>1, Zenon DEF OksOk
    <2> DEFINE B == Oks(j)
               A == Oks(j)'
    <2>2. /\ commits[j] \in Nat /\ commits'[j] \in Nat /\ commits'[j] >= commits[j]
          /\ Cardinality(B) <= commits[j]
      BY <1>2, TypesStep, Zenon DEF Inv, Types, OksOk
    <2>3. IsFiniteSet(A) /\ IsFiniteSet(B)
      BY McpAssumption, FS_Subset, Zenon DEF Oks
    <2>4. Cardinality(A) \in Nat /\ Cardinality(B) \in Nat
      BY <2>3, FS_CardinalityType, Zenon
    <2>5. CASE A \subseteq B
      <3>1. Cardinality(A) <= Cardinality(B)
        BY <2>3, <2>5, FS_Subset, Zenon
      <3>2. QED
        BY <2>2, <2>4, <3>1
    <2>6. CASE ~(A \subseteq B)
      <3>1. PICK e \in Attempts : out'[<<j, e>>] = "ok" /\ out[<<j, e>>] # "ok"
        BY <2>6, Zenon DEF Oks
      <3>2. c = <<j, e>> /\ c[1] = j
        <4>1. <<j, e>> \in Calls
          BY Zenon DEF Calls
        <4>2. c = <<j, e>>
          BY <1>2, <3>1, <4>1, Frame, Zenon DEF Inv
        <4>3. QED
          BY <4>2
      <3>3. pc[c] # "begin"
        BY <3>2, Zenon DEF Inv, CallsOk, CallOk, Keyed
      <3>4. Exec(c)
        BY <1>2, <3>1, <3>2, <3>3, Zenon
           DEF CallSteps, Handle, CallTool, Probe, Deliver, GiveUp, Check, Begin, Audit,
               Respond, Complete, Inv, Types
      <3>5. commits'[j] = commits[j] + 1
        BY <3>1, <3>2, <3>4 DEF Exec, Inv, Types
      <3>6. A \subseteq B \cup {e}
        BY <1>2, <3>2, Frame, Zenon DEF Oks, Inv, Calls
      <3>7. IsFiniteSet(B \cup {e}) /\ Cardinality(B \cup {e}) = Cardinality(B) + 1
        BY <2>3, <3>1, FS_AddElement, Zenon DEF Oks
      <3>8. Cardinality(A) <= Cardinality(B \cup {e})
        BY <3>6, <3>7, FS_Subset, Zenon
      <3>9. QED
        BY <2>2, <2>4, <3>5, <3>7, <3>8
    <2>7. QED
      BY <2>5, <2>6, Zenon
  <1>3. QED
    BY <1>1, <1>2, Zenon DEF Next, CallSteps

\* What a log of none or one holds.
LEMMA ShortLog == Len(<<>>) <= 1 /\ \A x : Len(<<x>>) <= 1
  OBVIOUS

\* In audit_logs a call of the embedded back end has one row at most, nothing but
\* "ok" if its agent was told so, and no more successes than commits.
THEOREM AuditRowsTrue == Spec => []AuditRowsAreTrue
  <1>1. Init => OksOk
    <2> SUFFICES ASSUME Init, NEW j \in Jobs PROVE Cardinality(Oks(j)) <= commits[j]
      BY Zenon DEF OksOk
    <2>1. commits[j] = 0 /\ Oks(j) = {}
      BY Zenon DEF Init, Oks, Calls
    <2>2. QED
      BY <2>1, FS_EmptySet
  <1>2. ASSUME Inv, NEW c \in Calls
        PROVE  /\ audits[c] = <<>> \/ audits[c] = <<out[c]>>
               /\ Len(audits[c]) <= 1
               /\ seen[c] = "ok" => audits[c] \in {<<>>, <<"ok">>}
    <2>1. CallOk(pc[c], out[c], seen[c], audits[c], commits[c[1]], job[c[1]], backend,
                 Keyed(c[1]))
      BY <1>2, Zenon DEF Inv, CallsOk
    <2>2. audits[c] = <<>> \/ audits[c] = <<out[c]>>
      BY <2>1, Zenon DEF CallOk
    <2>3. QED
      BY <2>1, <2>2, ShortLog, Zenon DEF CallOk
  <1>3. ASSUME Inv, OksOk, backend = "embedded", NEW j \in Jobs
        PROVE  Cardinality({i \in Attempts : audits[<<j, i>>] = <<"ok">>}) <= commits[j]
    <2> DEFINE L == {i \in Attempts : audits[<<j, i>>] = <<"ok">>}
    <2>1. \A i \in Attempts : <<j, i>> \in Calls
      BY Zenon DEF Calls
    <2>2. \A c \in Calls : audits[c] = <<"ok">> => out[c] = "ok"
      BY <1>2, <1>3
    <2>3. L \subseteq Oks(j)
      BY <2>1, <2>2, Zenon DEF Oks
    <2>4. IsFiniteSet(Oks(j))
      BY McpAssumption, FS_Subset, Zenon DEF Oks
    <2>5. Cardinality(L) <= Cardinality(Oks(j)) /\ IsFiniteSet(L)
      BY <2>3, <2>4, FS_Subset, Zenon
    <2>6. Cardinality(L) \in Nat /\ Cardinality(Oks(j)) \in Nat
      BY <2>4, <2>5, FS_CardinalityType, Zenon
    <2>7. Cardinality(Oks(j)) <= commits[j] /\ commits[j] \in Nat
      BY <1>3, Zenon DEF OksOk, Inv, Types
    <2>8. QED
      BY <2>5, <2>6, <2>7
  <1>4. Inv /\ OksOk => AuditRowsAreTrue
    BY <1>2, <1>3, Zenon DEF AuditRowsAreTrue
  <1>5. QED
    BY <1>1, <1>4, OksStep, Invariant, PTL DEF Spec

\* Every variable keeps its type; a job commits at most once for each attempt.
THEOREM CallTypes == Spec => []TypeOK
  <1>1. Init => CountOk
    <2> SUFFICES ASSUME Init, NEW j \in Jobs PROVE commits[j] <= Cardinality(Ended(j))
      BY Zenon DEF CountOk
    <2>1. commits[j] = 0 /\ IsFiniteSet(Ended(j))
      BY McpAssumption, FS_Subset, Zenon DEF Init, Ended
    <2>2. Cardinality(Ended(j)) \in Nat
      BY <2>1, FS_CardinalityType, Zenon
    <2>3. QED
      BY <2>1, <2>2
  <1>2. ASSUME Inv, CountOk PROVE TypeOK
    <2>1. ASSUME NEW j \in Jobs PROVE commits[j] \in 0..Cardinality(Attempts)
      <3>1. Ended(j) \subseteq Attempts /\ commits[j] \in Nat /\ commits[j] <= Cardinality(Ended(j))
        BY <1>2, Zenon DEF Ended, CountOk, Inv, Types
      <3>2. Cardinality(Ended(j)) <= Cardinality(Attempts) /\ IsFiniteSet(Ended(j))
        BY <3>1, McpAssumption, FS_Subset, Zenon
      <3>3. Cardinality(Ended(j)) \in Nat /\ Cardinality(Attempts) \in Nat
        BY <3>2, McpAssumption, FS_CardinalityType, Zenon
      <3>4. QED
        BY <3>1, <3>2, <3>3
    <2>2. commits \in [Jobs -> 0..Cardinality(Attempts)]
      BY <1>2, <2>1, Zenon DEF Inv, Types
    <2>3. QED
      BY <1>2, <2>2, Zenon DEF TypeOK, Inv, Types, Steps
  <1>3. QED
    BY <1>1, <1>2, CountStep, Invariant, PTL DEF Spec

\* What has committed had passed the validator: one statement, with its largest
\* placeholder the number of its parameters, and a search within its limit.
THEOREM OnlyValidStatementsRun == Spec => []OnlyValidRuns
  <1>1. ASSUME Inv, NEW j \in Jobs, commits[j] > 0, job[j].tool # "rpc_call"
        PROVE  LET q == job[j] IN
               /\ Statement(q).parses /\ Statement(q).stmts = 1
               /\ Params(q) <= MaxStatementParams
               /\ Statement(q).tokens \subseteq 0..Params(q)
               /\ q.tool = "vector_search" => Limit(q) \in 0..MaxK
    <2> DEFINE q == job[j]
    <2>1. /\ q \in Requests /\ q.tool \in Tools \ (Probes \cup {"rpc_call"})
          /\ ~ToolRefuses(q) /\ Validate(Statement(q), Params(q)) = "ok"
      BY <1>1, McpAssumption, Zenon DEF Inv, Types, RunsOk, Allowed, Accepted
    <2> HIDE DEF q
    <2>2. Params(q) \in Nat /\ Statement(q).tokens \subseteq Nat /\ IsFiniteSet(Statement(q).tokens)
      BY <2>1, StatementType, Zenon
    <2>3. CASE q.tool = "vector_search"
      <3>1. q.k \in Int /\ ~(Limit(q) > MaxK)
        BY <2>1, <2>3, RequestAssumption, Zenon DEF ToolRefuses, SearchRefuses
      <3>2. Limit(q) \in 0..MaxK
        BY <3>1, McpAssumption DEF Limit
      <3>3. QED
        BY <2>1, <2>2, <3>2, ValidTokens, Zenon DEF q
    <2>4. QED
      BY <2>1, <2>2, <2>3, ValidTokens, Zenon DEF q
  <1>2. Inv => OnlyValidRuns
    BY <1>1, Zenon DEF OnlyValidRuns
  <1>3. QED
    BY <1>2, Invariant, PTL

=============================================================================
