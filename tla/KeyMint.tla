------------------------------ MODULE KeyMint ------------------------------
(***************************************************************************)
(* The key commands of the server binary that write: -mint-key and         *)
(* -revoke-key (cmd/server/main.go, internal/db/key*.go), each a process   *)
(* of its own on the database, and the token they are about: how           *)
(* internal/auth/key.go makes one and reads it back.                       *)
(*                                                                         *)
(* MintKey is one READ COMMITTED transaction: a SELECT sees what is        *)
(* committed.  api_keys.key_id is unique, so that an INSERT waits for      *)
(* another transaction with the same one; workspaces.name is not.          *)
(***************************************************************************)
EXTENDS Integers, Sequences

CONSTANTS
    Mints,       \* calls of -mint-key
    Names,       \* workspace names
    Envs,        \* dev, live, test
    Chars,       \* the base64url alphabet; it has "_"
    KeyIdLen,    \* characters of a key id (16) ...
    SecretLen,   \* ... and of a secret (32)
    Old,         \* a key, and its workspace, from before
    None         \* no workspace

\* What parts a token, and may also be inside its parts.
Sep == "_"

ASSUME MintAssumption ==
    /\ KeyIdLen \in Nat \ {0} /\ SecretLen \in Nat \ {0}
    /\ Sep \in Chars /\ Chars \cap Envs = {}
    /\ Old \notin Mints /\ None \notin Mints \cup {Old}

VARIABLES
    workspaces,  \* committed rows: id -> name
    apiKeys,     \* committed rows: id -> row
    pc, key, ws, fresh,  \* each mint: step, key, workspace, if it made that
    since        \* history: the transactions open when each one looked

local == <<pc, key, ws, fresh>>
vars == <<workspaces, apiKeys, local, since>>

-----------------------------------------------------------------------------

(* Tokens, without the literal "acd_" in front *)

Words(n) == [1..n -> Chars]
KeyParts == [env : Envs, id : Words(KeyIdLen), secret : Words(SecretLen)]

\* auth.Mint
Token(k) == <<k.env, Sep>> \o k.id \o <<Sep>> \o k.secret

Invalid == [env |-> "none", id |-> <<>>, secret |-> <<>>]

\* strings.IndexByte(rest, '_')
IsFirst(token, i) ==
    /\ i \in 1..Len(token) /\ token[i] = Sep
    /\ \A j \in 1..(i - 1) : token[j] # Sep

\* Seeded fault: the secret is what follows the last "_", as with a split.
ParseBySplit(token) ==
    LET last == CHOOSE i \in 1..Len(token) :
                    token[i] = Sep /\ \A j \in (i + 1)..Len(token) : token[j] # Sep
    IN  IF last = KeyIdLen + 3
        THEN [env |-> token[1], id |-> SubSeq(token, 3, last - 1),
              secret |-> SubSeq(token, last + 1, Len(token))]
        ELSE Invalid

\* ParseBearer, by position: env ends at the first "_", the rest has fixed lengths.
ParseBearer(token) ==
    IF \E sep \in 1..Len(token) :
           /\ IsFirst(token, sep)
           /\ sep = 2 /\ token[1] \in Envs
           /\ Len(token) - sep = KeyIdLen + 1 + SecretLen
           /\ token[sep + KeyIdLen + 1] = Sep
    THEN [env |-> token[1], id |-> SubSeq(token, 3, KeyIdLen + 2),
          secret |-> SubSeq(token, KeyIdLen + 4, Len(token))]
    ELSE Invalid

\* HashSecret draws a salt; argon2id tells secrets apart.
HashSecret(secret, salt) == [salt |-> salt, secret |-> secret]
VerifySecret(secret, hash) == HashSecret(secret, hash.salt) = hash

\* What resolve finds for a token: the rows with its key id and secret.
Resolve(token) ==
    LET p == ParseBearer(token) IN
    {i \in DOMAIN apiKeys : /\ apiKeys[i].keyId = p.id
                            /\ VerifySecret(p.secret, apiKeys[i].hash)}

-----------------------------------------------------------------------------

(* MintKey *)

Row(k, w, salt) ==
    [ws |-> w, keyId |-> k.id, hash |-> HashSecret(k.secret, salt), env |-> k.env,
     revoked |-> FALSE]

Rows ==
    [ws : Mints \cup {Old}, keyId : Words(KeyIdLen), env : Envs,
     hash : [salt : Mints \cup {Old}, secret : Words(SecretLen)],
     revoked : BOOLEAN]

\* There may be a workspace with a key.
Init ==
    /\ \/ workspaces = <<>> /\ apiKeys = <<>>
       \/ \E n \in Names, k \in KeyParts :
              /\ workspaces = [i \in {Old} |-> n]
              /\ apiKeys = [i \in {Old} |-> Row(k, Old, Old)]
    /\ pc = [m \in Mints |-> "new"]
    /\ key = [m \in Mints |-> Invalid]
    /\ ws = [m \in Mints |-> None]
    /\ fresh = [m \in Mints |-> "none"]
    /\ since = [m \in Mints |-> {}]

InTx(m) == pc[m] \in {"key", "inserted"}

\* auth.Mint and auth.HashSecret, before the transaction; a name, a role or an
\* env that MintKey refuses ends here.
Generate(m) ==
    /\ pc[m] = "new"
    /\ \/ /\ \E k \in KeyParts : key' = [key EXCEPT ![m] = k]
          /\ pc' = [pc EXCEPT ![m] = "find"]
       \/ pc' = [pc EXCEPT ![m] = "failed"] /\ UNCHANGED key
    /\ UNCHANGED <<workspaces, apiKeys, ws, fresh, since>>

\* Seeded fault: the workspace is made without looking.
FindWorkspaceNever(m, n) ==
    /\ pc[m] = "find"
    /\ ws' = [ws EXCEPT ![m] = m]
    /\ fresh' = [fresh EXCEPT ![m] = n]
    /\ pc' = [pc EXCEPT ![m] = "key"]
    /\ since' = [since EXCEPT ![m] = {o \in Mints : InTx(o)}]
    /\ UNCHANGED <<workspaces, apiKeys, key>>

\* SELECT id ... WHERE name, any one of several; INSERT it if there is none.
FindWorkspace(m, n) ==
    LET named == {i \in DOMAIN workspaces : workspaces[i] = n} IN
    /\ pc[m] = "find"
    /\ \/ /\ named # {}
          /\ \E i \in named : ws' = [ws EXCEPT ![m] = i]
          /\ UNCHANGED fresh
       \/ /\ named = {}
          /\ ws' = [ws EXCEPT ![m] = m]
          /\ fresh' = [fresh EXCEPT ![m] = n]
    /\ pc' = [pc EXCEPT ![m] = "key"]
    /\ since' = [since EXCEPT ![m] = {o \in Mints : InTx(o)}]
    /\ UNCHANGED <<workspaces, apiKeys, key>>

\* The transaction is rolled back, and nothing of it stays.
Fail(m) ==
    /\ pc' = [pc EXCEPT ![m] = "failed"]
    /\ ws' = [ws EXCEPT ![m] = None]
    /\ fresh' = [fresh EXCEPT ![m] = "none"]
    /\ key' = [key EXCEPT ![m] = Invalid]

KeyIds == {apiKeys[i].keyId : i \in DOMAIN apiKeys}

\* INSERT INTO api_keys: it waits while another transaction has the key id, and
\* fails if that has committed.
InsertKey(m) ==
    /\ pc[m] = "key"
    /\ ~\E o \in Mints : pc[o] = "inserted" /\ key[o].id = key[m].id
    /\ IF key[m].id \in KeyIds
       THEN Fail(m)
       ELSE pc' = [pc EXCEPT ![m] = "inserted"] /\ UNCHANGED <<key, ws, fresh>>
    /\ UNCHANGED <<workspaces, apiKeys, since>>

\* COMMIT makes both rows visible and the token is printed; or its answer is
\* lost, and the command reports a failure though the rows are there.
Commit(m) ==
    /\ pc[m] = "inserted"
    /\ workspaces' = [i \in DOMAIN workspaces \cup {ws[m]} |->
                         IF i \in DOMAIN workspaces THEN workspaces[i] ELSE fresh[m]]
    /\ apiKeys' = [i \in DOMAIN apiKeys \cup {m} |->
                      IF i = m THEN Row(key[m], ws[m], m) ELSE apiKeys[i]]
    /\ \E l \in {"done", "failed"} : pc' = [pc EXCEPT ![m] = l]
    /\ UNCHANGED <<key, ws, fresh, since>>

\* An error, or the thirty seconds of the command are over.
Abort(m) ==
    /\ pc[m] \in {"find", "key", "inserted"}
    /\ Fail(m)
    /\ UNCHANGED <<workspaces, apiKeys, since>>

\* -revoke-key
RevokeKey(i) ==
    /\ ~apiKeys[i].revoked
    /\ apiKeys' = [apiKeys EXCEPT ![i].revoked = TRUE]
    /\ UNCHANGED <<workspaces, local, since>>

Next ==
    \/ \E m \in Mints :
           \/ Generate(m) \/ InsertKey(m) \/ Commit(m) \/ Abort(m)
           \/ \E n \in Names : FindWorkspace(m, n)
    \/ \E i \in DOMAIN apiKeys : RevokeKey(i)

Spec == Init /\ [][Next]_vars

-----------------------------------------------------------------------------

(* Properties *)

\* The shape of both tables and of the mints.
TypeOK ==
    /\ DOMAIN workspaces \subseteq Mints \cup {Old}
    /\ workspaces \in [DOMAIN workspaces -> Names]
    /\ DOMAIN apiKeys \subseteq Mints \cup {Old}
    /\ apiKeys \in [DOMAIN apiKeys -> Rows]
    /\ \A i \in DOMAIN apiKeys : apiKeys[i].ws \in DOMAIN workspaces
    /\ pc \in [Mints -> {"new", "find", "key", "inserted", "done", "failed"}]
    /\ key \in [Mints -> KeyParts \cup {Invalid}]
    /\ ws \in [Mints -> Mints \cup {Old, None}]
    /\ fresh \in [Mints -> Names \cup {"none"}]
    /\ since \in [Mints -> SUBSET Mints]

\* A token that was printed is read back as what was minted, wherever its "_"
\* are, and resolves to the row of its own mint and to no other, be it of a mint
\* whose command reported a failure.
TokenFindsItsRow ==
    \A m \in Mints : pc[m] = "done" =>
        /\ ParseBearer(Token(key[m])) = key[m]
        /\ Resolve(Token(key[m])) = {m}

\* Two workspaces have one name only if the mints that made them overlapped:
\* the one that committed second had looked before the first one committed.  A
\* mint that is run again after a failure, the COMMIT lost or not, finds the
\* workspace of the first try or makes the only one.
OneWorkspacePerName ==
    \A i, j \in DOMAIN workspaces :
        i # j /\ workspaces[i] = workspaces[j]
            => i \in Mints /\ j \in Mints /\ (i \in since[j] \/ j \in since[i])

=============================================================================
