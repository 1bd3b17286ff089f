------------------------------- MODULE Config -------------------------------
(***************************************************************************)
(* internal/config: Load reads the AGENTCOOPDB_* variables once, when the  *)
(* process starts.  An environment gives every setting a value, Unset or   *)
(* Malformed (a text the parser of its type refuses).  Durations are in    *)
(* microseconds; the settings no other module reads are one, "rest".       *)
(***************************************************************************)
EXTENDS Integers

CONSTANTS Unset, Malformed

Second == 1000000

\* A Boolean that does not parse falls back silently ...
EnvBool(raw, fallback) == IF raw \in {Unset, Malformed} THEN fallback ELSE raw

\* ... a number or a duration that does not parse is an error of Load.
EnvNumber(raw, fallback) == IF raw = Unset THEN fallback ELSE raw

\* The secret itself wins over its file, and then the file is not read.
SecretFails(value, file) == value = Unset /\ file = Malformed

StatementTimeout(env) == EnvNumber(env.timeout, 5 * Second)
MaxStatementParams(env) == EnvNumber(env.params, 1000)

\* The early returns of Load.
LoadFails(env) ==
    \/ env.url = Unset
    \/ \E s \in {"timeout", "params", "rest"} : env[s] = Malformed
    \/ SecretFails(env.password, env.passwordFile)
    \/ StatementTimeout(env) > 60 * Second
    \/ MaxStatementParams(env) <= 0

\* run() refuses plain HTTP on an address that is not local.
ListenRefused(env) == ~EnvBool(env.insecure, FALSE) /\ ~env.local

-----------------------------------------------------------------------------

(* What the durations become on their way to Postgres. *)

\* Duration.Milliseconds() drops the fraction, towards zero.
Milliseconds(d) == IF d >= 0 THEN d \div 1000 ELSE -((-d) \div 1000)

\* NewExecutor replaces a timeout that is not positive ...
NewExecutor(d) == IF d <= 0 THEN 5 * Second ELSE d

\* ... while the RPC path hands the configured one to tenant.Setup.
SqlMillis(env) == Milliseconds(NewExecutor(StatementTimeout(env)))
RpcMillis(env) == Milliseconds(StatementTimeout(env))

=============================================================================
