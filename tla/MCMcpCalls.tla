----------------------------- MODULE MCMcpCalls -----------------------------
(* One job, tried up to three times, over requests at the tools' limits. *)
EXTENDS McpCalls

Plain == [bytes |-> 1, parses |-> TRUE, stmts |-> 1, node |-> "InsertStmt",
          returning |-> FALSE, tokens |-> {1, 2}]

Sql(sql, params, withKey) ==
    [tool |-> "sql_execute", missing |-> FALSE, sql |-> sql, params |-> params,
     key |-> withKey]

MCRequests ==
    {Sql(Plain, 2, TRUE), Sql(Plain, 2, FALSE), Sql(Plain, 1, TRUE),
     Sql([Plain EXCEPT !.tokens = {2}], 1, FALSE),
     Sql([Plain EXCEPT !.tokens = {2}], 2, FALSE),
     Sql([Plain EXCEPT !.node = "SelectStmt"], 2, FALSE),
     Sql([Plain EXCEPT !.returning = TRUE], 2, TRUE),
     Sql([Plain EXCEPT !.stmts = 2], 2, TRUE), Sql([Plain EXCEPT !.parses = FALSE], 2, TRUE),
     Sql([Plain EXCEPT !.bytes = MaxStatementBytes + 1], 2, TRUE),
     [Sql(Plain, 2, TRUE) EXCEPT !.missing = TRUE]}
    \cup {[tool |-> "rpc_call", missing |-> FALSE, known |-> TRUE, role |-> TRUE, args |-> TRUE],
          [tool |-> "rpc_call", missing |-> TRUE, known |-> FALSE, role |-> FALSE, args |-> FALSE],
          [tool |-> "rpc_call", missing |-> FALSE, known |-> TRUE, role |-> FALSE, args |-> TRUE],
          [tool |-> "rpc_call", missing |-> FALSE, known |-> TRUE, role |-> TRUE, args |-> FALSE]}
    \cup [tool : {"list_tables", "whoami", "health"}]
    \cup [tool : {"describe_table"}, idents : BOOLEAN]
    \cup [tool : {"vector_search"}, idents : BOOLEAN, wellFormed : {TRUE},
          k : {0, 1, 2 * MaxK, 2 * MaxK + 2}]
    \cup [tool : {"vector_upsert"}, idents : {TRUE}, wellFormed : BOOLEAN,
          rows : 0..MaxRows + 1]

=============================================================================
