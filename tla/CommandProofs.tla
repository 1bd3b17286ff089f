---------------------------- MODULE CommandProofs ----------------------------
(***************************************************************************)
(* Proofs about the commands of the two binaries, which share no state:    *)
(* the key commands (KeyMint), for any number of mints, names,             *)
(* environments and characters and for any lengths of the two parts of a   *)
(* token; and starting and migrating (Boot), for any number of processes,  *)
(* migrations and deaths.                                                  *)
(***************************************************************************)
EXTENDS KeyMint, Boot, SequenceTheorems, TLAPS

-----------------------------------------------------------------------------

(* KeyMint *)

Letters == Chars \cup Envs

\* A word is a sequence of its length.
LEMMA WordIsSeq ==
    ASSUME NEW n \in Nat, NEW w \in Words(n)
    PROVE  w \in Seq(Letters) /\ Len(w) = n
BY DEF Words, Letters

\* Appending, with the lengths given.
LEMMA Appended ==
    ASSUME NEW S, NEW a \in Seq(S), NEW b \in Seq(S), NEW m \in Nat, NEW n \in Nat,
           Len(a) = m, Len(b) = n
    PROVE  /\ a \o b \in Seq(S)
           /\ Len(a \o b) = m + n
           /\ \A i \in 1..m : (a \o b)[i] = a[i]
           /\ \A i \in 1..n : (a \o b)[m + i] = b[i]
<1>1. a \o b \in Seq(S)
  OBVIOUS
<1>2. Len(a \o b) = Len(a) + Len(b)
  OBVIOUS
<1>3. \A i \in 1..Len(a) : (a \o b)[i] = a[i]
  BY ConcatProperties
<1>4. \A i \in 1..Len(b) : (a \o b)[Len(a) + i] = b[i]
  BY ConcatProperties
<1> DEFINE c == a \o b
<1> HIDE DEF c
<1>5. /\ Len(c) = Len(a) + Len(b) /\ \A i \in 1..Len(a) : c[i] = a[i]
      /\ \A i \in 1..Len(b) : c[Len(a) + i] = b[i]
  BY <1>2, <1>3, <1>4, Zenon DEF c
<1>6. Len(c) = m + n /\ (\A i \in 1..m : c[i] = a[i]) /\ \A i \in 1..n : c[m + i] = b[i]
  BY <1>5, Zenon
<1> QED
  BY <1>1, <1>6, Zenon DEF c

\* What is where in the token that auth.Mint writes.
LEMMA TokenLayout ==
    ASSUME NEW k \in KeyParts
    PROVE  /\ Token(k) \in Seq(Letters)
           /\ Len(Token(k)) = KeyIdLen + SecretLen + 3
           /\ Token(k)[1] = k.env
           /\ Token(k)[2] = Sep
           /\ \A i \in 1..KeyIdLen : Token(k)[i + 2] = k.id[i]
           /\ Token(k)[KeyIdLen + 3] = Sep
           /\ \A i \in 1..SecretLen : Token(k)[KeyIdLen + 3 + i] = k.secret[i]
<1> DEFINE a == <<k.env, Sep>>
           b == a \o k.id
           c == b \o <<Sep>>
           t == c \o k.secret
<1>1. KeyIdLen \in Nat /\ SecretLen \in Nat
  BY MintAssumption, Zenon
<1>2. k.env \in Letters /\ Sep \in Letters
  BY MintAssumption, Zenon DEF KeyParts, Letters
<1>3. k.id \in Seq(Letters) /\ Len(k.id) = KeyIdLen
  BY <1>1, WordIsSeq, Zenon DEF KeyParts
<1>4. k.secret \in Seq(Letters) /\ Len(k.secret) = SecretLen
  BY <1>1, WordIsSeq, Zenon DEF KeyParts
<1>5. a \in Seq(Letters) /\ Len(a) = 2 /\ a[1] = k.env /\ a[2] = Sep
  BY <1>2
<1>6. <<Sep>> \in Seq(Letters) /\ Len(<<Sep>>) = 1 /\ <<Sep>>[1] = Sep
  BY <1>2
<1> HIDE DEF a
<1>7. /\ b \in Seq(Letters) /\ Len(b) = 2 + KeyIdLen
      /\ \A i \in 1..2 : b[i] = a[i]
      /\ \A i \in 1..KeyIdLen : b[2 + i] = k.id[i]
  <2>1. 2 \in Nat /\ a \in Seq(Letters) /\ Len(a) = 2
    BY <1>5, Zenon
  <2> HIDE DEF b
  <2>2. b = a \o k.id
    BY Zenon DEF b
  <2>3. \A m \in Nat : Len(a) = m =>
            /\ a \o k.id \in Seq(Letters) /\ Len(a \o k.id) = m + KeyIdLen
            /\ \A i \in 1..m : (a \o k.id)[i] = a[i]
            /\ \A i \in 1..KeyIdLen : (a \o k.id)[m + i] = k.id[i]
    BY <1>1, <1>3, <2>1, Appended
  <2> QED
    BY <2>1, <2>2, <2>3, Zenon
<1> HIDE DEF b
<1>8. /\ c \in Seq(Letters) /\ Len(c) = (2 + KeyIdLen) + 1
      /\ \A i \in 1..(2 + KeyIdLen) : c[i] = b[i]
      /\ \A i \in 1..1 : c[(2 + KeyIdLen) + i] = <<Sep>>[i]
  <2>1. 2 + KeyIdLen \in Nat /\ 1 \in Nat
    BY <1>1
  <2> QED
    BY <1>6, <1>7, <2>1, Appended
<1> HIDE DEF c
<1>9. /\ t \in Seq(Letters) /\ Len(t) = ((2 + KeyIdLen) + 1) + SecretLen
      /\ \A i \in 1..((2 + KeyIdLen) + 1) : t[i] = c[i]
      /\ \A i \in 1..SecretLen : t[((2 + KeyIdLen) + 1) + i] = k.secret[i]
  <2>1. (2 + KeyIdLen) + 1 \in Nat
    BY <1>1
  <2> QED
    BY <1>1, <1>4, <1>8, <2>1, Appended
<1>10. Token(k) = t
  BY Zenon DEF Token, a, b, c
<1> HIDE DEF t
<1>11. t[1] = k.env /\ t[2] = Sep
  BY <1>1, <1>5, <1>7, <1>8, <1>9
<1>12. c[KeyIdLen + 3] = Sep
  BY <1>1, <1>6, <1>8
<1>13. t[KeyIdLen + 3] = Sep
  BY <1>1, <1>9, <1>12
<1>14. \A i \in 1..KeyIdLen : t[i + 2] = k.id[i]
  BY <1>1, <1>7, <1>8, <1>9
<1>15. \A i \in 1..SecretLen : t[KeyIdLen + 3 + i] = k.secret[i]
  BY <1>1, <1>9
<1>16. Len(t) = KeyIdLen + SecretLen + 3
  BY <1>1, <1>9
<1> QED
  BY <1>9, <1>10, <1>11, <1>13, <1>14, <1>15, <1>16, Zenon

\* ParseBearer reads back what auth.Mint wrote, wherever the separator is in the
\* key id or in the secret.
THEOREM RoundTrip ==
    ASSUME NEW k \in KeyParts
    PROVE  ParseBearer(Token(k)) = k
<1> DEFINE t == Token(k)
<1>1. KeyIdLen \in Nat \ {0} /\ SecretLen \in Nat \ {0}
  BY MintAssumption, Zenon
<1>2. /\ t \in Seq(Letters) /\ Len(t) = KeyIdLen + SecretLen + 3
      /\ t[1] = k.env /\ t[2] = Sep /\ t[KeyIdLen + 3] = Sep
      /\ \A i \in 1..KeyIdLen : t[i + 2] = k.id[i]
      /\ \A i \in 1..SecretLen : t[KeyIdLen + 3 + i] = k.secret[i]
  BY TokenLayout, Zenon
<1>3. k.env \in Envs /\ k.env # Sep
  BY MintAssumption, Zenon DEF KeyParts
<1> HIDE DEF t
<1>4. IsFirst(t, 2)
  BY <1>1, <1>2, <1>3 DEF IsFirst
<1>5. \E sep \in 1..Len(t) :
          /\ IsFirst(t, sep)
          /\ sep = 2 /\ t[1] \in Envs
          /\ Len(t) - sep = KeyIdLen + 1 + SecretLen
          /\ t[sep + KeyIdLen + 1] = Sep
  <2>1. 2 \in 1..Len(t) /\ Len(t) - 2 = KeyIdLen + 1 + SecretLen
    BY <1>1, <1>2
  <2>2. 2 + KeyIdLen + 1 = KeyIdLen + 3
    BY <1>1
  <2> QED
    BY <1>2, <1>3, <1>4, <2>1, <2>2, Zenon
<1>6. k.id \in Seq(Letters) /\ Len(k.id) = KeyIdLen /\ k.secret \in Seq(Letters) /\ Len(k.secret) = SecretLen
  BY <1>1, WordIsSeq, Zenon DEF KeyParts
<1>7. \A i \in 1..Len(t) : t[i] \in Letters
  BY <1>2
<1>8. SubSeq(t, 3, KeyIdLen + 2) = k.id
  <2> DEFINE s == SubSeq(t, 3, KeyIdLen + 2)
  <2>1. /\ s \in Seq(Letters)
        /\ Len(s) = IF 3 <= KeyIdLen + 2 THEN KeyIdLen + 2 - 3 + 1 ELSE 0
        /\ \A i \in 1..(KeyIdLen + 2 - 3 + 1) : s[i] = t[3 + i - 1]
    BY <1>1, <1>2, <1>7, SubSeqProperties
  <2>2. Len(s) = KeyIdLen /\ \A i \in 1..KeyIdLen : s[i] = k.id[i]
    <3> HIDE DEF s
    <3>1. Len(s) = KeyIdLen
      BY <1>1, <2>1
    <3>2. ASSUME NEW i \in 1..KeyIdLen PROVE s[i] = k.id[i]
      <4>1. s[i] = t[3 + i - 1] /\ 3 + i - 1 = i + 2
        BY <1>1, <2>1
      <4> QED
        BY <1>2, <4>1, Zenon
    <3> QED
      BY <3>1, <3>2, Zenon
  <2> HIDE DEF s
  <2>3. s = k.id
    BY <1>6, <2>1, <2>2, SeqEqual, Zenon
  <2> QED
    BY <2>3, Zenon DEF s
<1>9. SubSeq(t, KeyIdLen + 4, Len(t)) = k.secret
  <2> DEFINE s == SubSeq(t, KeyIdLen + 4, Len(t))
  <2>1. /\ s \in Seq(Letters)
        /\ Len(s) = IF KeyIdLen + 4 <= Len(t) THEN Len(t) - (KeyIdLen + 4) + 1 ELSE 0
        /\ \A i \in 1..(Len(t) - (KeyIdLen + 4) + 1) : s[i] = t[KeyIdLen + 4 + i - 1]
    BY <1>1, <1>2, <1>7, SubSeqProperties
  <2>2. Len(s) = SecretLen /\ \A i \in 1..SecretLen : s[i] = k.secret[i]
    <3> HIDE DEF s
    <3>1. Len(t) - (KeyIdLen + 4) + 1 = SecretLen /\ KeyIdLen + 4 <= Len(t)
      BY <1>1, <1>2
    <3>2. Len(s) = SecretLen
      BY <2>1, <3>1, Zenon
    <3>3. ASSUME NEW i \in 1..SecretLen PROVE s[i] = k.secret[i]
      <4>1. s[i] = t[KeyIdLen + 4 + i - 1] /\ KeyIdLen + 4 + i - 1 = KeyIdLen + 3 + i
        BY <1>1, <2>1, <3>1
      <4> QED
        BY <1>2, <4>1, Zenon
    <3> QED
      BY <3>2, <3>3, Zenon
  <2> HIDE DEF s
  <2>3. s = k.secret
    BY <1>6, <2>1, <2>2, SeqEqual, Zenon
  <2> QED
    BY <2>3, Zenon DEF s
<1>10. k = [env |-> k.env, id |-> k.id, secret |-> k.secret]
  BY Zenon DEF KeyParts
<1> QED
  BY <1>2, <1>5, <1>8, <1>9, <1>10, Zenon DEF ParseBearer, t

-----------------------------------------------------------------------------

(* The inductive invariant *)

\* api_keys.key_id is unique; a transaction that has inserted holds its key id.
KeysUnique ==
    \A i, j \in DOMAIN apiKeys : apiKeys[i].keyId = apiKeys[j].keyId => i = j

Locked ==
    \A m \in Mints : pc[m] = "inserted" =>
        /\ key[m].id \notin KeyIds
        /\ \A o \in Mints : pc[o] = "inserted" /\ key[o].id = key[m].id => o = m

\* The row of a mint is what the mint generated.
OwnRow ==
    \A m \in Mints :
        /\ m \in DOMAIN apiKeys => pc[m] \in {"done", "failed"}
        /\ pc[m] = "done" => m \in DOMAIN apiKeys
        /\ pc[m] = "done" => /\ apiKeys[m].keyId = key[m].id
                             /\ apiKeys[m].hash = HashSecret(key[m].secret, m)
                             /\ apiKeys[m].ws = ws[m]

Keyed ==
    \A m \in Mints : pc[m] \notin {"new", "failed"} => key[m] \in KeyParts

\* A transaction has made its workspace or found a committed one.
Placed ==
    \A m \in Mints :
        /\ InTx(m) => (ws[m] = m /\ fresh[m] \in Names) \/ ws[m] \in DOMAIN workspaces
        /\ m \in DOMAIN workspaces => pc[m] \in {"done", "failed"}

\* Of two open transactions one saw the other open.  So did a transaction that
\* is about to double a name.
Overlap ==
    /\ \A m, o \in Mints :
           InTx(m) /\ InTx(o) /\ m # o => m \in since[o] \/ o \in since[m]
    /\ \A m \in Mints : InTx(m) /\ ws[m] = m =>
           \A i \in DOMAIN workspaces : workspaces[i] = fresh[m] =>
               i \in Mints /\ (i \in since[m] \/ m \in since[i])

Inv ==
    /\ TypeOK /\ KeysUnique /\ Locked /\ OwnRow /\ Keyed /\ Placed /\ Overlap
    /\ OneWorkspacePerName

\* A new row is a row, with the fields of the key.
LEMMA RowFields ==
    ASSUME NEW k \in KeyParts, NEW w \in Mints \cup {Old}, NEW salt \in Mints \cup {Old}
    PROVE  /\ Row(k, w, salt) \in Rows
           /\ Row(k, w, salt).ws = w /\ Row(k, w, salt).keyId = k.id
           /\ Row(k, w, salt).hash = HashSecret(k.secret, salt)
BY Zenon DEF Row, Rows, KeyParts, HashSecret

LEMMA InitInv == Init => Inv
<1> SUFFICES ASSUME Init PROVE Inv
  BY Zenon
<1>1. TypeOK
  <2>1. CASE workspaces = <<>> /\ apiKeys = <<>>
    BY <2>1, MintAssumption DEF Init, TypeOK
  <2>2. ASSUME NEW n \in Names, NEW k \in KeyParts,
               workspaces = [i \in {Old} |-> n],
               apiKeys = [i \in {Old} |-> Row(k, Old, Old)]
        PROVE  TypeOK
    <3>1. Row(k, Old, Old) \in Rows /\ Row(k, Old, Old).ws = Old
      BY RowFields
    <3> DEFINE row == Row(k, Old, Old)
    <3> HIDE DEF row
    <3>2. row \in Rows /\ row.ws = Old
      BY <3>1, Zenon DEF row
    <3>3. apiKeys = [i \in {Old} |-> row]
      BY <2>2, Zenon DEF row
    <3>4. /\ DOMAIN apiKeys = {Old} /\ apiKeys \in [DOMAIN apiKeys -> Rows]
          /\ \A i \in DOMAIN apiKeys : apiKeys[i].ws \in {Old}
      BY <3>2, <3>3, Zenon
    <3>5. DOMAIN workspaces = {Old} /\ workspaces \in [DOMAIN workspaces -> Names]
      BY <2>2, Zenon
    <3> QED
      BY <3>4, <3>5, MintAssumption DEF Init, TypeOK
  <2> QED
    BY <2>1, <2>2, Zenon DEF Init
<1>2. DOMAIN workspaces \subseteq {Old} /\ DOMAIN apiKeys \subseteq {Old}
  BY DEF Init
<1>3. \A m \in Mints : pc[m] = "new" /\ ~InTx(m)
  BY Zenon DEF Init, InTx
<1>4. KeysUnique /\ OneWorkspacePerName
  BY <1>2, Zenon DEF KeysUnique, OneWorkspacePerName
<1>5. Locked /\ OwnRow /\ Keyed /\ Placed /\ Overlap
  BY <1>2, <1>3, MintAssumption, Zenon DEF Locked, OwnRow, Keyed, Placed, Overlap, Init
<1> QED
  BY <1>1, <1>4, <1>5, Zenon DEF Inv

\* Before the transaction.
LEMMA GenerateInv ==
    ASSUME Inv, NEW m \in Mints, Generate(m)
    PROVE  Inv'
<1> USE DEF Inv
<1>1. TypeOK'
  BY DEF TypeOK, Generate
<1>2. /\ UNCHANGED <<workspaces, apiKeys, ws, fresh, since>>
      /\ pc[m] = "new" /\ pc'[m] \in {"find", "failed"}
      /\ pc'[m] = "find" => key'[m] \in KeyParts
      /\ \A o \in Mints \ {m} : pc'[o] = pc[o] /\ key'[o] = key[o]
  BY Zenon DEF TypeOK, Generate
<1>3. KeysUnique' /\ Locked' /\ OwnRow' /\ Keyed'
  BY <1>1, <1>2 DEF TypeOK, KeysUnique, Locked, KeyIds, OwnRow, Keyed
<1>4. \A o \in Mints : InTx(o)' <=> InTx(o)
  BY <1>2, Zenon DEF InTx
<1>5. Placed' /\ Overlap' /\ OneWorkspacePerName'
  BY <1>2, <1>4 DEF Placed, Overlap, OneWorkspacePerName
<1> QED
  BY <1>1, <1>3, <1>5, Zenon

\* The SELECT, and the INSERT of a workspace.
LEMMA FindWorkspaceInv ==
    ASSUME Inv, NEW m \in Mints, NEW n \in Names, FindWorkspace(m, n)
    PROVE  Inv'
<1> USE DEF Inv
<1>1. TypeOK'
  BY DEF TypeOK, FindWorkspace
<1>2. /\ UNCHANGED <<workspaces, apiKeys, key>>
      /\ pc[m] = "find" /\ pc'[m] = "key"
      /\ since'[m] = {o \in Mints : InTx(o)}
      /\ \A o \in Mints \ {m} : /\ pc'[o] = pc[o] /\ ws'[o] = ws[o]
                                /\ fresh'[o] = fresh[o] /\ since'[o] = since[o]
  BY DEF TypeOK, FindWorkspace
<1>3. \/ ws'[m] \in DOMAIN workspaces
      \/ /\ ws'[m] = m /\ fresh'[m] = n
         /\ \A i \in DOMAIN workspaces : workspaces[i] # n
  BY Zenon DEF TypeOK, FindWorkspace
<1>4. KeysUnique' /\ Locked' /\ OwnRow' /\ Keyed'
  BY <1>2 DEF TypeOK, KeysUnique, Locked, KeyIds, OwnRow, Keyed
<1>5. InTx(m)' /\ ~InTx(m) /\ \A o \in Mints \ {m} : InTx(o)' <=> InTx(o)
  BY <1>2, Zenon DEF InTx
<1>6. m \notin DOMAIN workspaces
  BY <1>2, Zenon DEF Placed
<1>7. Placed'
  BY <1>2, <1>3, <1>5 DEF Placed
<1>8. Overlap'
  BY <1>2, <1>3, <1>5, <1>6 DEF Overlap
<1>9. OneWorkspacePerName'
  BY <1>2, <1>6 DEF OneWorkspacePerName
<1> QED
  BY <1>1, <1>4, <1>7, <1>8, <1>9, Zenon

\* A rollback, wherever the mint was.
LEMMA FailInv ==
    ASSUME Inv, NEW m \in Mints, pc[m] \in {"find", "key", "inserted"}, Fail(m),
           UNCHANGED <<workspaces, apiKeys, since>>
    PROVE  Inv'
<1> USE DEF Inv
<1>1. TypeOK'
  BY Zenon DEF TypeOK, Fail
<1>2. /\ pc'[m] = "failed"
      /\ \A o \in Mints \ {m} : /\ pc'[o] = pc[o] /\ ws'[o] = ws[o]
                                /\ fresh'[o] = fresh[o] /\ key'[o] = key[o]
  BY Zenon DEF TypeOK, Fail
<1>3. KeysUnique' /\ Locked' /\ OwnRow' /\ Keyed'
  BY <1>2 DEF TypeOK, KeysUnique, Locked, KeyIds, OwnRow, Keyed
<1>4. ~InTx(m)' /\ \A o \in Mints \ {m} : InTx(o)' <=> InTx(o)
  BY <1>2, Zenon DEF InTx
<1>5. Placed' /\ Overlap' /\ OneWorkspacePerName'
  BY <1>2, <1>4 DEF Placed, Overlap, OneWorkspacePerName
<1> QED
  BY <1>1, <1>3, <1>5, Zenon

\* The INSERT of a key.
LEMMA InsertKeyInv ==
    ASSUME Inv, NEW m \in Mints, InsertKey(m)
    PROVE  Inv'
<1> USE DEF Inv
<1>1. CASE key[m].id \in KeyIds
  BY <1>1, FailInv, Zenon DEF InsertKey
<1>2. CASE key[m].id \notin KeyIds
  <2>1. TypeOK'
    BY <1>2, Zenon DEF TypeOK, InsertKey
  <2>2. /\ UNCHANGED <<workspaces, apiKeys, key, ws, fresh, since>>
        /\ pc[m] = "key" /\ pc'[m] = "inserted" /\ \A o \in Mints \ {m} : pc'[o] = pc[o]
        /\ ~\E o \in Mints : pc[o] = "inserted" /\ key[o].id = key[m].id
    BY <1>2, Zenon DEF TypeOK, InsertKey
  <2>3. KeysUnique' /\ OwnRow' /\ Keyed'
    BY <2>2 DEF TypeOK, KeysUnique, OwnRow, Keyed
  <2>4. Locked'
    BY <1>2, <2>2 DEF Locked, KeyIds
  <2>5. \A o \in Mints : InTx(o)' <=> InTx(o)
    BY <2>2, Zenon DEF InTx
  <2>6. Placed' /\ Overlap' /\ OneWorkspacePerName'
    BY <2>2, <2>5 DEF Placed, Overlap, OneWorkspacePerName
  <2> QED
    BY <2>1, <2>3, <2>4, <2>6, Zenon
<1> QED
  BY <1>1, <1>2, Zenon

\* The COMMIT makes the row, and the workspace if the transaction made one.
LEMMA CommitInv ==
    ASSUME Inv, NEW m \in Mints, Commit(m)
    PROVE  Inv'
<1> USE DEF Inv
<1> DEFINE row == Row(key[m], ws[m], m)
<1>1. pc[m] = "inserted" /\ InTx(m) /\ key[m] \in KeyParts /\ ws[m] \in Mints \cup {Old}
  BY DEF TypeOK, Commit, InTx, Keyed, Placed
<1>2. /\ row \in Rows /\ row.ws = ws[m] /\ row.keyId = key[m].id
      /\ row.hash = HashSecret(key[m].secret, m)
  <2>1. m \in Mints \cup {Old}
    BY Zenon
  <2> QED
    BY ONLY <1>1, <2>1, RowFields, ZenonT(30)
<1> HIDE DEF row
<1>3. /\ UNCHANGED <<key, ws, fresh, since>>
      /\ pc'[m] \in {"done", "failed"} /\ \A o \in Mints \ {m} : pc'[o] = pc[o]
  BY Zenon DEF TypeOK, Commit
<1>4. /\ DOMAIN apiKeys' = DOMAIN apiKeys \cup {m} /\ apiKeys'[m] = row
      /\ \A i \in DOMAIN apiKeys \ {m} : apiKeys'[i] = apiKeys[i]
      /\ m \notin DOMAIN apiKeys
  BY <1>1, Zenon DEF Commit, OwnRow, row
<1>5. /\ DOMAIN workspaces' = DOMAIN workspaces \cup {ws[m]}
      /\ \A i \in DOMAIN workspaces : workspaces'[i] = workspaces[i]
      /\ ws[m] \notin DOMAIN workspaces => ws[m] = m /\ fresh[m] \in Names /\ workspaces'[m] = fresh[m]
  BY <1>1, Zenon DEF Commit, Placed
<1>6. TypeOK'
  <2>1. DOMAIN workspaces' \subseteq Mints \cup {Old} /\ workspaces' \in [DOMAIN workspaces' -> Names]
    <3>1. \A i \in DOMAIN workspaces' : workspaces'[i] \in Names
      BY <1>5, Zenon DEF TypeOK
    <3> QED
      BY <1>1, <1>5, <3>1, Zenon DEF TypeOK, Commit
  <2>2. DOMAIN apiKeys' \subseteq Mints \cup {Old} /\ apiKeys' \in [DOMAIN apiKeys' -> Rows]
    <3>1. \A i \in DOMAIN apiKeys' : apiKeys'[i] \in Rows
      BY <1>2, <1>4, Zenon DEF TypeOK
    <3> QED
      BY <1>4, <3>1, Zenon DEF TypeOK, Commit
  <2>3. \A i \in DOMAIN apiKeys' : apiKeys'[i].ws \in DOMAIN workspaces'
    BY <1>2, <1>4, <1>5, Zenon DEF TypeOK
  <2>4. pc' \in [Mints -> {"new", "find", "key", "inserted", "done", "failed"}]
    BY Zenon DEF TypeOK, Commit
  <2> QED
    BY <1>3, <2>1, <2>2, <2>3, <2>4, Zenon DEF TypeOK
<1>7. key[m].id \notin KeyIds
  BY <1>1, Zenon DEF Locked
<1>8. KeysUnique'
  BY <1>2, <1>4, <1>7 DEF KeysUnique, KeyIds
<1>9. Locked'
  <2>1. KeyIds' \subseteq KeyIds \cup {key[m].id}
    BY <1>2, <1>4 DEF KeyIds
  <2> QED
    BY <1>1, <1>3, <2>1, Zenon DEF Locked
<1>10. OwnRow'
  BY <1>2, <1>3, <1>4 DEF OwnRow
<1>11. Keyed'
  BY <1>1, <1>3, Zenon DEF Keyed
<1>12. ~InTx(m)' /\ \A o \in Mints \ {m} : InTx(o)' <=> InTx(o)
  BY <1>3, Zenon DEF InTx
<1>13. Placed'
  BY <1>3, <1>5, <1>12, Zenon DEF Placed
<1>14. Overlap'
  <2>1. ASSUME NEW o \in Mints \ {m}, InTx(o), ws[o] = o,
               NEW i \in DOMAIN workspaces', workspaces'[i] = fresh[o]
        PROVE  i \in Mints /\ (i \in since[o] \/ o \in since[i])
    <3>1. CASE i \in DOMAIN workspaces
      BY <1>5, <2>1, <3>1, Zenon DEF Overlap
    <3>2. CASE i \notin DOMAIN workspaces
      BY <1>1, <1>5, <2>1, <3>2, Zenon DEF Overlap
    <3> QED
      BY <3>1, <3>2, Zenon
  <2> QED
    BY <1>3, <1>12, <2>1, Zenon DEF Overlap
<1>15. OneWorkspacePerName'
  <2>1. CASE ws[m] \in DOMAIN workspaces
    BY <1>3, <1>5, <2>1 DEF OneWorkspacePerName
  <2>2. CASE ws[m] \notin DOMAIN workspaces
    <3>1. \A i \in DOMAIN workspaces : workspaces[i] = fresh[m] => i \in Mints /\ (i \in since[m] \/ m \in since[i])
      BY <1>1, <1>5, <2>2, Zenon DEF Overlap
    <3> QED
      BY <1>3, <1>5, <2>2, <3>1 DEF OneWorkspacePerName
  <2> QED
    BY <2>1, <2>2, Zenon
<1> QED
  BY <1>6, <1>8, <1>9, <1>10, <1>11, <1>13, <1>14, <1>15, Zenon

\* Revoking touches no other column.
LEMMA RevokeKeyInv ==
    ASSUME Inv, NEW r \in DOMAIN apiKeys, RevokeKey(r)
    PROVE  Inv'
<1> USE DEF Inv
<1>1. /\ UNCHANGED <<workspaces, pc, key, ws, fresh, since>>
      /\ DOMAIN apiKeys' = DOMAIN apiKeys
  BY Zenon DEF RevokeKey, local, TypeOK
<1>2. apiKeys[r] \in Rows
  BY Zenon DEF TypeOK
<1>3. apiKeys' = [apiKeys EXCEPT ![r] = [apiKeys[r] EXCEPT !.revoked = TRUE]]
  BY Zenon DEF RevokeKey
<1> DEFINE row == [apiKeys[r] EXCEPT !.revoked = TRUE]
<1>4. /\ row \in Rows /\ row.ws = apiKeys[r].ws /\ row.keyId = apiKeys[r].keyId
      /\ row.hash = apiKeys[r].hash
  BY <1>2, Zenon DEF Rows
<1> HIDE DEF row
<1>5. apiKeys' = [apiKeys EXCEPT ![r] = row]
  BY <1>3, Zenon DEF row
<1>6. apiKeys' \in [DOMAIN apiKeys -> Rows]
  BY <1>4, <1>5, Zenon DEF TypeOK
<1>7. apiKeys'[r] = row /\ \A i \in DOMAIN apiKeys \ {r} : apiKeys'[i] = apiKeys[i]
  BY <1>5, Zenon DEF TypeOK
<1>8. \A i \in DOMAIN apiKeys : /\ apiKeys'[i].ws = apiKeys[i].ws /\ apiKeys'[i].keyId = apiKeys[i].keyId
                                /\ apiKeys'[i].hash = apiKeys[i].hash
  BY <1>4, <1>7, Zenon
<1>9. TypeOK'
  BY <1>1, <1>6, <1>8, Zenon DEF TypeOK
<1>10. KeysUnique' /\ KeyIds' = KeyIds
  BY <1>1, <1>8 DEF KeysUnique, KeyIds
<1>11. Locked' /\ OwnRow' /\ Keyed'
  BY <1>1, <1>8, <1>10, Zenon DEF Locked, OwnRow, Keyed
<1>12. Placed' /\ Overlap' /\ OneWorkspacePerName'
  BY <1>1 DEF Placed, Overlap, OneWorkspacePerName, InTx
<1> QED
  BY <1>9, <1>10, <1>11, <1>12, Zenon

LEMMA StepInv == Inv /\ [Next]_vars => Inv'
<1> SUFFICES ASSUME Inv, [Next]_vars PROVE Inv'
  BY Zenon
<1>1. ASSUME NEW m \in Mints, Abort(m) PROVE Inv'
  BY <1>1, FailInv, Zenon DEF Abort
<1>2. CASE UNCHANGED vars
  BY <1>2 DEF vars, local, Inv, TypeOK, KeysUnique, Locked, KeyIds, OwnRow, Keyed, Placed, Overlap,
              InTx, OneWorkspacePerName
<1> QED
  BY <1>1, <1>2, GenerateInv, FindWorkspaceInv, InsertKeyInv, CommitInv,
     RevokeKeyInv, Zenon
     DEF Next

-----------------------------------------------------------------------------

(* What follows *)

\* A printed token is read back, and finds the row of its own mint and no other.
LEMMA InvFinds == Inv => TokenFindsItsRow
<1> SUFFICES ASSUME Inv, NEW m \in Mints, pc[m] = "done"
             PROVE  ParseBearer(Token(key[m])) = key[m] /\ Resolve(Token(key[m])) = {m}
  BY Zenon DEF TokenFindsItsRow
<1>1. key[m] \in KeyParts
  BY Zenon DEF Inv, Keyed
<1>2. ParseBearer(Token(key[m])) = key[m]
  BY <1>1, RoundTrip, Zenon
<1>3. /\ m \in DOMAIN apiKeys /\ apiKeys[m].keyId = key[m].id
      /\ apiKeys[m].hash = HashSecret(key[m].secret, m)
  BY <1>1, Zenon DEF Inv, OwnRow
<1>4. VerifySecret(key[m].secret, apiKeys[m].hash)
  BY <1>3 DEF VerifySecret, HashSecret
<1>5. \A i \in DOMAIN apiKeys : apiKeys[i].keyId = key[m].id => i = m
  BY <1>3, Zenon DEF Inv, KeysUnique
<1>6. Resolve(Token(key[m])) = {m}
  BY <1>2, <1>3, <1>4, <1>5, Zenon DEF Resolve
<1> QED
  BY <1>2, <1>6, Zenon

\* The columns' shapes hold in every reachable state.
THEOREM MintTypes == Spec => []TypeOK
<1>1. Inv => TypeOK
  BY Zenon DEF Inv
<1> QED
  BY <1>1, InitInv, StepInv, PTL DEF Spec

\* For any alphabet that has the separator in it, and any lengths, the token
\* that -mint-key prints resolves to its own row.
THEOREM PrintedTokensWork == Spec => []TokenFindsItsRow
BY InvFinds, InitInv, StepInv, PTL DEF Spec

\* Only transactions that overlap can make two workspaces of one name.
THEOREM NamesDoubleOnlyOnOverlap == Spec => []OneWorkspacePerName
<1>1. Inv => OneWorkspacePerName
  BY Zenon DEF Inv
<1> QED
  BY <1>1, InitInv, StepInv, PTL DEF Spec

-----------------------------------------------------------------------------

(***************************************************************************)
(* Boot.  RunMigrations forces the version to one below the one it saw     *)
(* dirty, and other processes may have moved the version on since.  The    *)
(* argument is that a version was dirty only when all below it were        *)
(* applied, and that migrations are never undone: what was seen stays      *)
(* good.  All of it holds until an operator forces past a migration.       *)
(***************************************************************************)

Inside == {"mark", "file", "clean"}
Outside == {"down", "ensure", "up", "open", "ready"}
Labels == Inside \cup Outside \cup {"force"}

\* Types, and the holder of the lock is the process inside Up.
Shape ==
    /\ version \in NilVersion..N + 1 /\ done \subseteq 1..N
    /\ public \subseteq Makers /\ moved \subseteq Makers
    /\ phase \in [Proc -> Labels] /\ mode \in [Proc -> Modes] /\ seen \in [Proc -> 0..N]
    /\ \A p \in Proc : (lock = p) <=> (phase[p] \in Inside)

\* What the row of schema_migrations is at each step inside Up.
Marked ==
    /\ dirty => version \in 1..N
    /\ \A p \in Proc :
        /\ phase[p] = "mark" => ~dirty /\ version < N
        /\ phase[p] = "file" => dirty
        /\ phase[p] = "clean" => dirty /\ version \in done
        /\ phase[p] = "force" /\ mode[p] # "force" => seen[p] >= 1

\* The tables of a file that was applied are in one of the two schemas.
Kept == \A m \in Makers : m \in done => m \in public \cup moved

\* The migrations below v are applied.
Below(v) == \A u \in 1..N : u < v => u \in done

\* Until an operator forces past a migration: what is clean, or below what is
\* or was seen dirty, is applied; the move has moved every table; a server
\* past its migrations has them all.
Good ==
    /\ version <= N /\ Below(version) /\ (~dirty /\ version \in 1..N => version \in done)
    /\ \A p \in Proc : Below(seen[p])
    /\ SplitAt \in done => moved = Makers
    /\ \A p \in Proc : mode[p] = "server" /\ phase[p] \in {"open", "ready"} => 1..N \subseteq done

\* Until the version is forced below a file that creates tables: once they
\* have moved the version is past those files, and no table is in both schemas.
Ahead == \A m \in Makers : m <= version /\ (dirty => m < version)
Apart == (moved # {} => Ahead) /\ public \cap moved = {}

BootInv ==
    /\ Shape /\ Marked /\ Kept
    /\ "past" \notin forced => Good
    /\ "replay" \notin forced => Apart

LEMMA BootInitInv == BootInit => BootInv
  <1> SUFFICES ASSUME BootInit PROVE BootInv
    OBVIOUS
  <1>1. Shape /\ Marked /\ Kept
    BY BootAssumption, SMTT(30)
       DEF BootInit, Shape, Marked, Kept, NilVersion, Inside, Outside, Labels
  <1>2. Good
    BY BootAssumption, SMTT(30) DEF BootInit, Good, Below, NilVersion
  <1>3. Apart
    BY Zenon DEF BootInit, Apart
  <1> QED
    BY <1>1, <1>2, <1>3 DEF BootInv

\* Any step outside the lock that leaves the row alone and moves one process
\* to a step outside Up, without forgetting the version it saw for a new one.
LEMMA MoveInv ==
  ASSUME BootInv, NEW p \in Proc, NEW l \in Outside,
         Enter(p, l), phase[p] \notin Inside,
         mode[p] = "server" /\ l \in {"open", "ready"} /\ "past" \notin forced => 1..N \subseteq done,
         seen' = seen \/ seen' = [seen EXCEPT ![p] = 0],
         UNCHANGED <<version, dirty, done, tables, forced, lock, mode>>
  PROVE  BootInv'
  <1>1. Shape'
    BY BootAssumption DEF BootInv, Shape, Enter, Inside, Outside, Labels, tables
  <1>2. Marked'
    BY Zenon DEF BootInv, Shape, Marked, Enter, Inside, Outside, Labels
  <1>3. Kept'
    BY Zenon DEF BootInv, Kept, tables
  <1>4. ASSUME "past" \notin forced PROVE Good'
    <2>1. Good
      BY <1>4, Zenon DEF BootInv
    <2>2. \A q \in Proc : Below(seen[q])'
      BY <2>1, BootAssumption DEF BootInv, Shape, Good, Below
    <2>3. \A q \in Proc : mode'[q] = "server" /\ phase'[q] \in {"open", "ready"} => 1..N \subseteq done'
      BY <1>4, <2>1, Zenon DEF BootInv, Shape, Good, Enter
    <2> QED
      BY <2>1, <2>2, <2>3, Zenon DEF Good, Below, tables
  <1>5. Apart => Apart'
    BY Zenon DEF Apart, Ahead, tables
  <1> QED
    BY <1>1, <1>2, <1>3, <1>4, <1>5, Zenon DEF BootInv

LEMMA StartInv == ASSUME BootInv, NEW p \in Proc, Main(p) PROVE BootInv'
  <1>1. mode[p] \in {"server", "nomigrate", "up", "force"}
    BY BootAssumption, Zenon DEF BootInv, Shape
  <1>2. CASE mode[p] = "force"
    <2>1. Enter(p, "force")
      BY <1>2, Zenon DEF Main
    <2>2. Shape' /\ Marked' /\ Kept'
      BY <1>2, <2>1, Zenon DEF BootInv, Shape, Marked, Kept, Main, Enter, Inside, Outside,
                               Labels, tables
    <2>3. Good => Good'
      BY <2>1, <1>2, Zenon DEF BootInv, Shape, Good, Below, Main, Enter, tables
    <2>4. Apart => Apart'
      BY Zenon DEF Apart, Ahead, Main, tables
    <2> QED
      BY <2>2, <2>3, <2>4, Zenon DEF BootInv, Main
  <1>3. CASE mode[p] # "force"
    <2>1. PICK l \in {"ensure", "open", "up"} : Enter(p, l) /\ (l = "open" => mode[p] # "server")
      BY <1>1, <1>3, Zenon DEF Main
    <2> QED
      BY <2>1, MoveInv, Zenon DEF Main, Inside, Outside, Labels
  <1> QED
    BY <1>2, <1>3, Zenon

\* A clean version N has every migration applied.
LEMMA AllApplied ==
  ASSUME BootInv, "past" \notin forced, version = N, ~dirty \/ N \in done
  PROVE  1..N \subseteq done
  BY BootAssumption DEF BootInv, Good, Below

LEMMA UpInv == ASSUME BootInv, NEW p \in Proc, Up(p) PROVE BootInv'
  <1>1. /\ phase[p] = "up" /\ lock = Nobody
        /\ UNCHANGED <<version, dirty, done, tables, forced, mode>>
    BY Zenon DEF Up
  <1>2. Apart => Apart'
    BY <1>1, Zenon DEF Apart, Ahead, tables
  <1>3. CASE dirty /\ seen' = [seen EXCEPT ![p] = version] /\ Enter(p, "force") /\ UNCHANGED lock
    <2>1. version \in 1..N
      BY <1>3, Zenon DEF BootInv, Marked
    <2>2. Shape' /\ Marked' /\ Kept'
      BY <1>1, <1>3, <2>1 DEF BootInv, Shape, Marked, Kept, Enter, Inside, Outside, Labels,
                              tables
    <2>3. Good => Good'
      BY <1>1, <1>3, <2>1, Zenon DEF BootInv, Shape, Good, Below, Enter, tables
    <2> QED
      BY <1>1, <1>2, <2>2, <2>3, Zenon DEF BootInv
  <1>4. CASE Exit(p) /\ UNCHANGED lock
    BY <1>1, <1>4, MoveInv, Zenon DEF Exit, Inside, Outside, Labels
  <1>5. CASE ~dirty /\ version = N /\ Migrated(p) /\ UNCHANGED lock
    <2>1. "past" \notin forced => 1..N \subseteq done
      BY <1>5, AllApplied, Zenon
    <2>2. PICK l \in {"open", "down"} : Enter(p, l)
      BY <1>5, Zenon DEF Migrated
    <2> QED
      BY <1>1, <1>5, <2>1, <2>2, MoveInv, Zenon DEF Migrated, Inside, Outside, Labels
  <1>6. CASE ~dirty /\ HasFile /\ version # N /\ lock' = p /\ Enter(p, "mark") /\ UNCHANGED seen
    <2>1. Shape' /\ Kept'
      BY <1>1, <1>6, BootAssumption, Zenon DEF BootInv, Shape, Kept, Enter, Inside,
                                               Outside, Labels, tables
    <2>2. version < N
      BY <1>6, BootAssumption DEF HasFile, NilVersion
    <2>3. Marked'
      BY <1>1, <1>6, <2>2, Zenon DEF BootInv, Shape, Marked, Enter, Inside, Outside, Labels
    <2>4. Good => Good'
      BY <1>1, <1>6, Zenon DEF BootInv, Shape, Good, Below, Enter, tables
    <2> QED
      BY <1>1, <1>2, <2>1, <2>3, <2>4, Zenon DEF BootInv
  <1> QED
    BY <1>3, <1>4, <1>5, <1>6, Zenon DEF Up

\* A process inside Up is alone there.
LEMMA Alone ==
  ASSUME BootInv, NEW p \in Proc, phase[p] \in Inside
  PROVE  lock = p /\ \A q \in Proc : q # p => phase[q] \notin Inside
  BY Zenon DEF BootInv, Shape

LEMMA MarkDirtyInv == ASSUME BootInv, NEW p \in Proc, MarkDirty(p) PROVE BootInv'
  <1>1. phase[p] = "mark" /\ ~dirty /\ version < N /\ version \in NilVersion..N + 1
    BY Zenon DEF BootInv, Shape, Marked, MarkDirty
  <1>2. lock = p /\ \A q \in Proc : q # p => phase[q] \notin Inside
    BY <1>1, Alone, Zenon DEF Inside, Outside, Labels
  <1>3. version' \in 1..N
    BY <1>1, BootAssumption DEF MarkDirty, NilVersion
  <1>4. Shape'
    <2>1. version' \in NilVersion..N + 1
      BY <1>3, BootAssumption DEF NilVersion
    <2> QED
      BY <1>1, <1>2, <2>1, Zenon DEF BootInv, Shape, MarkDirty, Enter, Inside, Outside,
                                     Labels, tables
  <1>5. Marked' /\ Kept'
    BY <1>1, <1>2, <1>3, Zenon DEF BootInv, Shape, Marked, Kept, MarkDirty, Enter, Inside,
                                   Outside, Labels, tables
  <1>6. ASSUME Good PROVE Good'
    <2>1. version' <= N /\ Below(version)'
      BY <1>1, <1>3, <1>6, BootAssumption DEF Good, Below, MarkDirty, NilVersion
    <2> QED
      BY <1>6, <2>1, Zenon DEF BootInv, Shape, Good, Below, MarkDirty, Enter, tables
  <1>7. Apart => Apart'
    <2>1. Ahead => Ahead'
      BY <1>1, BootAssumption DEF Ahead, MarkDirty, NilVersion
    <2> QED
      BY <2>1, Zenon DEF Apart, MarkDirty, tables
  <1> QED
    BY <1>4, <1>6, <1>5, <1>7, Zenon DEF BootInv, MarkDirty

\* What a file that commits leaves behind.
LEMMA CommitKeeps ==
  ASSUME BootInv, dirty, Commits(version)
  PROVE  /\ done' = done \cup {version} /\ done' \subseteq 1..N
         /\ public' \subseteq Makers /\ moved' \subseteq Makers /\ Kept'
         /\ Good => (SplitAt \in done' => moved' = Makers)
         /\ Apart => (moved' # {} => Ahead) /\ public' \cap moved' = {}
  <1>1. version \in 1..N /\ done' = done \cup {version}
    BY Zenon DEF BootInv, Marked, Commits
  <1>2. done' \subseteq 1..N
    BY <1>1, Zenon DEF BootInv, Shape
  <1>3. CASE version \in Makers /\ CreateTables(version)
    <2>1. version # SplitAt
      BY <1>3, BootAssumption
    <2>2. Apart => moved = {}
      BY <1>1, <1>3 DEF Apart, Ahead
    <2> QED
      BY <1>1, <1>2, <1>3, <2>1, <2>2, Zenon DEF BootInv, Shape, Kept, Good, CreateTables
  <1>4. CASE version = SplitAt /\ SplitControlPlane
    <2>1. /\ public' \subseteq Makers /\ moved' \subseteq Makers /\ moved' = moved \cup public
      BY <1>4, Zenon DEF BootInv, Shape, SplitControlPlane
    <2>2. SplitAt \notin Makers
      BY BootAssumption
    <2>3. Kept'
      BY <1>1, <1>4, <2>1, <2>2, Zenon DEF BootInv, Kept
    <2>4. ASSUME Good PROVE Makers \subseteq moved'
      <3>1. Makers \subseteq done
        BY <1>4, <2>4, BootAssumption DEF Good, Below
      <3> QED
        BY <2>1, <3>1, Zenon DEF BootInv, Kept
    <2>5. Ahead /\ public' \cap moved' = {}
      BY <1>1, <1>4, BootAssumption DEF Ahead, SplitControlPlane
    <2> QED
      BY <1>1, <1>2, <2>1, <2>3, <2>4, <2>5, Zenon
  <1>5. CASE version \notin Makers \cup {SplitAt} /\ UNCHANGED tables
    BY <1>1, <1>2, <1>5, Zenon DEF BootInv, Shape, Kept, Good, Apart, tables
  <1> QED
    BY <1>3, <1>4, <1>5, Zenon DEF Commits

\* Leaving the lock from inside Up, the version being dirty or not, with the
\* transaction committed or not.
LEMMA LeaveInv ==
  ASSUME BootInv, NEW p \in Proc, NEW l \in Outside, Enter(p, l), phase[p] \in Inside,
         mode[p] = "server" /\ l \in {"open", "ready"} /\ "past" \notin forced => 1..N \subseteq done,
         seen' = [seen EXCEPT ![p] = 0], lock' = Nobody,
         (dirty /\ Commits(version)) \/ UNCHANGED <<done, tables>>,
         UNCHANGED <<version, mode, forced>>, dirty' => dirty,
         dirty /\ ~dirty' => version \in done
  PROVE  BootInv'
  <1>1. lock = p /\ \A q \in Proc : q # p => phase[q] \notin Inside
    BY Alone, Zenon
  <1>2. /\ done \subseteq done' /\ done' \subseteq 1..N
        /\ public' \subseteq Makers /\ moved' \subseteq Makers /\ Kept'
        /\ Good => (SplitAt \in done' => moved' = Makers)
        /\ Apart => (moved' # {} => Ahead) /\ public' \cap moved' = {}
    <2>1. CASE dirty /\ Commits(version)
      BY <2>1, CommitKeeps, Zenon
    <2>2. CASE UNCHANGED <<done, tables>>
      BY <2>2, Zenon DEF BootInv, Shape, Kept, Good, Apart, tables
    <2> QED
      BY <2>1, <2>2, Zenon
  <1>3. Shape' /\ Marked'
    BY <1>1, <1>2, BootAssumption DEF BootInv, Shape, Marked, Enter, Inside, Outside, Labels
  <1>4. ASSUME "past" \notin forced PROVE Good'
    <2>1. Good
      BY <1>4, Zenon DEF BootInv
    <2>2. version' <= N /\ Below(version)' /\ (~dirty' /\ version' \in 1..N => version' \in done')
      BY <1>2, <2>1, Zenon DEF Good, Below
    <2>3. \A q \in Proc : Below(seen[q])'
      BY <1>2, <2>1, BootAssumption DEF BootInv, Shape, Good, Below
    <2>4. \A q \in Proc : mode'[q] = "server" /\ phase'[q] \in {"open", "ready"} => 1..N \subseteq done'
      BY <1>2, <1>4, <2>1, Zenon DEF BootInv, Shape, Good, Enter
    <2> QED
      BY <1>2, <2>1, <2>2, <2>3, <2>4, Zenon DEF Good
  <1>5. Apart => Apart'
    BY <1>2, Zenon DEF Apart, Ahead
  <1> QED
    BY <1>2, <1>3, <1>4, <1>5, Zenon DEF BootInv

LEMMA RunFileInv == ASSUME BootInv, NEW p \in Proc, RunFile(p) PROVE BootInv'
  <1>1. phase[p] = "file" /\ dirty /\ version \in 1..N
    BY Zenon DEF BootInv, Marked, RunFile
  <1>2. lock = p /\ \A q \in Proc : q # p => phase[q] \notin Inside
    BY <1>1, Alone, Zenon DEF Inside, Outside, Labels
  <1>3. CASE Commits(version) /\ Enter(p, "clean") /\ UNCHANGED <<lock, seen>>
    <2>1. /\ done' = done \cup {version} /\ done' \subseteq 1..N
          /\ public' \subseteq Makers /\ moved' \subseteq Makers /\ Kept'
          /\ Good => (SplitAt \in done' => moved' = Makers)
          /\ Apart => (moved' # {} => Ahead) /\ public' \cap moved' = {}
      BY <1>1, <1>3, CommitKeeps, Zenon
    <2>2. Shape' /\ Marked'
      BY <1>1, <1>2, <1>3, <2>1, Zenon DEF BootInv, Shape, Marked, RunFile, Enter, Inside,
                                           Outside, Labels
    <2>3. Good => Good'
      BY <1>1, <1>3, <2>1, Zenon DEF BootInv, Shape, Good, Below, RunFile, Enter
    <2>4. Apart => Apart'
      BY <2>1, Zenon DEF Apart, Ahead, RunFile
    <2> QED
      BY <2>1, <2>2, <2>3, <2>4, Zenon DEF BootInv, RunFile
  <1>4. CASE lock' = Nobody /\ Exit(p) /\ UNCHANGED <<done, tables>>
    BY <1>1, <1>4, LeaveInv, Zenon DEF RunFile, Exit, Inside, Outside, Labels
  <1> QED
    BY <1>3, <1>4, Zenon DEF RunFile

LEMMA MarkCleanInv == ASSUME BootInv, NEW p \in Proc, MarkClean(p) PROVE BootInv'
  <1>1. phase[p] = "clean" /\ dirty /\ version \in 1..N /\ version \in done
    BY Zenon DEF BootInv, Marked, MarkClean
  <1>2. lock = p /\ \A q \in Proc : q # p => phase[q] \notin Inside
    BY <1>1, Alone, Zenon DEF Inside, Outside, Labels
  <1>3. CASE version < N /\ Enter(p, "mark") /\ UNCHANGED <<lock, seen>>
    <2>1. Shape' /\ Marked' /\ Kept'
      BY <1>1, <1>2, <1>3, Zenon DEF BootInv, Shape, Marked, Kept, MarkClean, Enter,
                                     Inside, Outside, Labels, tables
    <2>2. Good => Good'
      BY <1>1, <1>3, Zenon DEF BootInv, Shape, Good, Below, MarkClean, Enter, tables
    <2>3. Apart => Apart'
      BY Zenon DEF Apart, Ahead, MarkClean, tables
    <2> QED
      BY <2>1, <2>2, <2>3, Zenon DEF BootInv, MarkClean
  <1>4. CASE version = N /\ lock' = Nobody /\ Migrated(p)
    <2>1. "past" \notin forced => 1..N \subseteq done
      BY <1>1, <1>4, AllApplied, Zenon
    <2>2. PICK l \in {"open", "down"} : Enter(p, l)
      BY <1>4, Zenon DEF Migrated
    <2>3. /\ seen' = [seen EXCEPT ![p] = 0] /\ dirty' = FALSE
          /\ UNCHANGED <<version, done, tables, forced, mode>>
      BY <1>4, Zenon DEF Migrated, MarkClean
    <2> QED
      BY <1>1, <1>4, <2>1, <2>2, <2>3, LeaveInv, Zenon DEF Inside, Outside, Labels
  <1> QED
    BY <1>3, <1>4, Zenon DEF MarkClean

\* m.Force to a version with everything up to it applied, or past that.
LEMMA ForcedInv ==
  ASSUME BootInv, NEW p \in Proc, NEW v \in 0..N + 1, NEW l \in {"up", "down"},
         phase[p] = "force", lock = Nobody, Enter(p, l),
         "past" \notin forced' => "past" \notin forced /\ v <= N /\ Below(v) /\ (v \in 1..N => v \in done),
         forced \cup Astray(v) \subseteq forced',
         version' = v, dirty' = FALSE, UNCHANGED <<done, tables, lock, mode, seen>>
  PROVE  BootInv'
  <1>1. \A q \in Proc : phase[q] \notin Inside
    BY BootAssumption, Zenon DEF BootInv, Shape
  <1>2. Shape' /\ Marked' /\ Kept'
    BY <1>1, BootAssumption DEF BootInv, Shape, Marked, Kept, Enter, Inside, Outside,
                                Labels, NilVersion, tables
  <1>3. ASSUME "past" \notin forced' PROVE Good'
    BY <1>3, Zenon DEF BootInv, Shape, Good, Below, Enter, tables
  <1>4. ASSUME "replay" \notin forced' PROVE Apart'
    <2>1. "replay" \notin forced /\ (moved # {} => ~\E m \in Makers : v < m)
      BY <1>4, Zenon DEF Astray
    <2>2. moved # {} => Ahead'
      BY <2>1, BootAssumption DEF Ahead
    <2> QED
      BY <2>1, <2>2, Zenon DEF BootInv, Apart, tables
  <1> QED
    BY <1>2, <1>3, <1>4, Zenon DEF BootInv

LEMMA ForceInv == ASSUME BootInv, NEW p \in Proc, ForceVersion(p) PROVE BootInv'
  <1>1. CASE /\ mode[p] # "force" /\ version' = seen[p] - 1 /\ Enter(p, "up")
             /\ forced' = forced \cup Astray(seen[p] - 1)
    <2>1. seen[p] \in 1..N /\ seen[p] - 1 \in 0..N + 1
      BY <1>1, BootAssumption DEF BootInv, Shape, Marked, ForceVersion
    <2>2. ASSUME "past" \notin forced'
          PROVE  /\ "past" \notin forced /\ seen[p] - 1 <= N /\ Below(seen[p] - 1)
                 /\ seen[p] - 1 \in 1..N => seen[p] - 1 \in done
      <3>1. "past" \notin forced
        BY <1>1, <2>2, Zenon
      <3>2. Below(seen[p])
        BY <3>1, Zenon DEF BootInv, Good
      <3> QED
        BY <2>1, <3>1, <3>2, BootAssumption DEF Below
    <2> QED
      BY <1>1, <2>1, <2>2, ForcedInv, Zenon DEF ForceVersion
  <1>2. ASSUME NEW v \in 0..N + 1, version' = v, Enter(p, "down"),
               forced' = forced \cup Astray(v) \cup Past(v)
        PROVE  BootInv'
    <2>1. ASSUME "past" \notin forced'
          PROVE  "past" \notin forced /\ v <= N /\ Below(v) /\ (v \in 1..N => v \in done)
      <3>1. "past" \notin forced /\ 1..v \subseteq done
        BY <1>2, <2>1, Zenon DEF Past
      <3> QED
        BY <3>1, BootAssumption DEF Below, BootInv, Shape
    <2> QED
      BY <1>2, <2>1, ForcedInv, Zenon DEF ForceVersion
  <1> QED
    BY <1>1, <1>2, Zenon DEF ForceVersion

LEMMA OpenInv == ASSUME BootInv, NEW p \in Proc, Open(p) PROVE BootInv'
  <1>1. mode[p] = "server" /\ "past" \notin forced => 1..N \subseteq done
    BY Zenon DEF BootInv, Good, Open
  <1>2. PICK l \in {"ready", "down"} : Enter(p, l)
    BY Zenon DEF Open, Exit
  <1> QED
    BY <1>1, <1>2, MoveInv, Zenon DEF Open, Exit, Inside, Outside, Labels

\* A death loses the lock and the seen version, never a commit.
LEMMA DieInv == ASSUME BootInv, NEW p \in Proc, Die(p) PROVE BootInv'
  <1>1. /\ Enter(p, "down") /\ seen' = [seen EXCEPT ![p] = 0]
        /\ UNCHANGED <<version, dirty, forced, mode>>
    BY Zenon DEF Die, Exit
  <1>2. CASE phase[p] \in Inside
    <2>1. lock = p
      BY <1>2, Alone, Zenon
    <2>2. lock' = Nobody
      BY <2>1, Zenon DEF Die
    <2>3. (dirty /\ Commits(version)) \/ UNCHANGED <<done, tables>>
      BY Zenon DEF Die, BootInv, Marked
    <2> QED
      BY <1>1, <1>2, <2>2, <2>3, LeaveInv, Zenon DEF Inside, Outside, Labels
  <1>3. CASE phase[p] \notin Inside
    <2>1. lock # p
      BY <1>3, Zenon DEF BootInv, Shape
    <2>2. UNCHANGED <<done, tables, lock>>
      BY <1>3, <2>1, Zenon DEF Die, Inside, Outside, Labels
    <2> QED
      BY <1>1, <1>3, <2>2, MoveInv, Zenon DEF Inside, Outside, Labels
  <1> QED
    BY <1>2, <1>3, Zenon

LEMMA BootStepInv == BootInv /\ [BootNext]_bootVars => BootInv'
  <1> SUFFICES ASSUME BootInv, [BootNext]_bootVars PROVE BootInv'
    BY Zenon
  <1>1. ASSUME NEW p \in Proc, EnsureOwnerRole(p) PROVE BootInv'
    BY <1>1, MoveInv, Zenon DEF EnsureOwnerRole, Inside, Outside, Labels
  <1>2. ASSUME NEW p \in Proc, Stop(p) PROVE BootInv'
    BY <1>2, MoveInv, Zenon DEF Stop, Exit, Inside, Outside, Labels
  <1>3. CASE UNCHANGED bootVars
    BY <1>3, Zenon DEF bootVars, tables, BootInv, Shape, Marked, Kept, Good, Below, Apart, Ahead
  <1> QED
    BY <1>1, <1>2, <1>3, StartInv, UpInv, MarkDirtyInv, RunFileInv, MarkCleanInv, ForceInv,
       OpenInv, DieInv DEF BootNext, Step

\* The flags, whatever else happens: no action gives them another value.
LEMMA FlagsStep ==
  ASSUME dirty \in BOOLEAN, ownerRole \in BOOLEAN, forced \subseteq {"replay", "past"},
         [BootNext]_bootVars
  PROVE  dirty' \in BOOLEAN /\ ownerRole' \in BOOLEAN /\ forced' \subseteq {"replay", "past"}
  <1>1. ASSUME NEW p \in Proc, Main(p) \/ Step(p) \/ Stop(p) \/ Die(p)
        PROVE  dirty' \in {dirty, TRUE, FALSE} /\ ownerRole' \in {ownerRole, TRUE}
    BY <1>1, Zenon
       DEF Main, Step, Stop, Die, EnsureOwnerRole, Up, MarkDirty, RunFile, MarkClean, ForceVersion, Open
  <1>2. ASSUME NEW p \in Proc, Main(p) \/ Step(p) \/ Stop(p) \/ Die(p)
        PROVE  forced' \subseteq {"replay", "past"}
    <2>1. CASE ForceVersion(p)
      <3>1. \A v : Astray(v) \subseteq {"replay", "past"} /\ Past(v) \subseteq {"replay", "past"}
        BY Zenon DEF Astray, Past
      <3> QED
        BY <2>1, <3>1, Zenon DEF ForceVersion
    <2>2. CASE ~ForceVersion(p)
      BY <1>2, <2>2, Zenon
         DEF Main, Step, Stop, Die, EnsureOwnerRole, Up, MarkDirty, RunFile, MarkClean, Open
    <2> QED
      BY <2>1, <2>2, Zenon
  <1> QED
    BY <1>1, <1>2, Zenon DEF BootNext, bootVars

\* The row of schema_migrations stays within the versions there are, and the
\* advisory lock is held by the process inside Up and by no other.
THEOREM BootTypes == BootSpec => []BootTypeOK
  <1> DEFINE Flags == dirty \in BOOLEAN /\ ownerRole \in BOOLEAN /\ forced \subseteq {"replay", "past"}
  <1>1. BootInit => Flags
    BY Zenon DEF BootInit
  <1>2. Flags /\ [BootNext]_bootVars => Flags'
    BY FlagsStep, Zenon
  <1>3. BootInv /\ Flags => BootTypeOK
    BY Zenon DEF BootInv, Shape, BootTypeOK, Inside
  <1> HIDE DEF Flags
  <1> QED
    BY BootInitInv, BootStepInv, <1>1, <1>2, <1>3, PTL DEF BootSpec

\* RunMigrations never skips a migration: unless an operator forced past one,
\* a version that schema_migrations has as clean is applied with all below it,
\* whatever died and however stale the version a recovery forced.
THEOREM CleanVersionsAreApplied == BootSpec => []CleanIsApplied
  <1>1. BootInv => CleanIsApplied
    <2> SUFFICES ASSUME BootInv, "past" \notin forced, NEW v \in 1..version, ~dirty \/ v < version
                 PROVE  v \in done
      BY Zenon DEF CleanIsApplied
    <2>1. Good /\ version \in NilVersion..N + 1
      BY Zenon DEF BootInv, Shape
    <2> QED
      BY <2>1, BootAssumption DEF Good, Below, NilVersion
  <1> QED
    BY BootInitInv, BootStepInv, <1>1, PTL DEF BootSpec

\* A server that migrates on start is ready only with every migration applied
\* and every control-plane table moved, unless an operator forced past one.
THEOREM ReadyServersAreMigrated == BootSpec => []ReadyMeansMigrated
  <1>1. BootInv => ReadyMeansMigrated
    BY BootAssumption, Zenon DEF BootInv, Good, ReadyMeansMigrated
  <1> QED
    BY BootInitInv, BootStepInv, <1>1, PTL DEF BootSpec

\* The migration files can be run again: what a recovery repeats never fails
\* for where the tables are, unless the version was forced below a file that
\* creates tables after they had moved, or past a migration.
THEOREM MigrationsRunAgain == BootSpec => []FilesRunAgain
  <1>1. BootInv => FilesRunAgain
    <2> SUFFICES ASSUME BootInv, forced = {}, ownerRole, NEW p \in Proc, phase[p] = "file", Fails(version)
                 PROVE  FALSE
      BY Zenon DEF FilesRunAgain
    <2>1. Good /\ Apart /\ Kept /\ dirty /\ version \in 1..N
      BY Zenon DEF BootInv, Marked
    <2>2. CASE version \in Referring /\ public \cap {1, version} = {}
      <3>1. version \in Makers /\ 1 \in Makers /\ 1 \in done
        BY <2>1, <2>2, BootAssumption DEF Good, Below
      <3>2. moved = {}
        BY <2>1, <3>1 DEF Apart, Ahead
      <3> QED
        BY <2>1, <2>2, <3>1, <3>2, Zenon DEF Kept
    <2>3. CASE version = SplitAt /\ (~ownerRole \/ public \cap moved # {})
      BY <2>1, <2>3, Zenon DEF Apart
    <2>4. CASE version \in RoleUsers \cup {ReassignAt} /\ GatewayAt \notin done
      BY <2>1, <2>4, BootAssumption DEF Good, Below
    <2> QED
      BY <2>2, <2>3, <2>4, Zenon DEF Fails
  <1> QED
    BY BootInitInv, BootStepInv, <1>1, PTL DEF BootSpec

=============================================================================
