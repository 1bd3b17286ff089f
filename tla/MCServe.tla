------------------------------ MODULE MCServe ------------------------------
(* A process with a small pool, and environments around the edges of Load. *)
EXTENDS Serve

Good == [url |-> "url", timeout |-> Unset, params |-> Unset, rest |-> Unset,
         password |-> Unset, passwordFile |-> Unset, insecure |-> Unset,
         local |-> TRUE, mcp |-> TRUE, noaudit |-> Unset]

MCEnvs ==
    {[Good EXCEPT !.timeout = t] :
        t \in {Unset, Malformed, -1 * Second, 0, 999, 61 * Second}}
    \cup {[Good EXCEPT !.url = Unset], [Good EXCEPT !.params = 0],
          [Good EXCEPT !.passwordFile = Malformed], [Good EXCEPT !.local = FALSE],
          [Good EXCEPT !.mcp = Malformed, !.noaudit = TRUE]}

=============================================================================
