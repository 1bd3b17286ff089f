------------------------------ MODULE Validator ------------------------------
(***************************************************************************)
(* internal/sql/validator.go, on what its parser and scanner report of a   *)
(* statement (pg_query is external): a record of                           *)
(*   bytes   its length                                                    *)
(*   parses  whether pg_query parses it                                    *)
(*   stmts   how many statements it holds                                  *)
(*   node    the kind of its top-level node                                *)
(*   returning  the node has a RETURNING list                              *)
(*   tokens  the numbers N of its $N tokens                                *)
(***************************************************************************)
EXTENDS Integers, FiniteSetsExt

CONSTANTS
    MaxStatementBytes,
    MaxStatementParams

ASSUME ValidatorAssumption ==
    MaxStatementBytes \in Nat \ {0} /\ MaxStatementParams \in Nat \ {0}

\* The node kinds whose command the rest of the code looks at; the others have
\* a command of their own too, and go the same way as "Other".
Dml == {"InsertStmt", "UpdateStmt", "DeleteStmt"}
Nodes == Dml \cup {"SelectStmt", "ExplainStmt", "Other"}

\* A SelectStmt is also VALUES and a WITH whose parts write.
IsSelect(st) == st.node = "SelectStmt"

HasReturning(st) == st.node \in Dml /\ st.returning

\* The largest N, not how many there are.
CountPlaceholders(st) == Max(st.tokens \cup {0})

\* Seeded fault: placeholders are counted, as a comment says.
ValidateDistinct(st, params) ==
    IF st.bytes = 0 THEN "empty_statement"
    ELSE IF Cardinality(st.tokens) # params THEN "params_mismatch"
    ELSE "ok"

\* The checks in their order; the first that fails names the error.
Validate(st, params) ==
    IF st.bytes = 0                        THEN "empty_statement"
    ELSE IF st.bytes > MaxStatementBytes   THEN "statement_too_large"
    ELSE IF params > MaxStatementParams    THEN "too_many_params"
    ELSE IF ~st.parses                     THEN "parse_error"
    ELSE IF st.stmts = 0                   THEN "empty_statement"
    ELSE IF st.stmts # 1                   THEN "multiple_statements"
    ELSE IF CountPlaceholders(st) # params THEN "params_mismatch"
    ELSE "ok"

\* Execute reads rows back, or only a count.
ReadsRows(st) == IsSelect(st) \/ HasReturning(st)

=============================================================================
