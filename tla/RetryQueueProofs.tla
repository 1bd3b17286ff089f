-------------------------- MODULE RetryQueueProofs --------------------------
(***************************************************************************)
(* Proofs about RetryQueue: ack, fail and the move preserve the invariant  *)
(* of RetryQueueInvariant, and what follows from it.                       *)
(***************************************************************************)
EXTENDS RetryQueueInvariant

\* A flusher deletes the row of its item and drops the copy.
LEMMA DeleteStep ==
    ASSUME Inv, NEW f \in Flushers, pc[f] \notin {"idle", "loop"},
           DeletePending(Item(f).w, Item(f).id), Advance(f) \/ Return(f),
           UNCHANGED <<dead, lastId, enq, tries, gateway, cleared, torn, shared, late, crashes,
                      lapses>>,
           acked \subseteq acked', acked' \subseteq acked \cup {Item(f).w}
    PROVE  /\ TypeOK' /\ Shrinks /\ Room' /\ OncePerKey' /\ Settled' /\ Accepted'
           /\ OneCopy' /\ TrueCopy'
           /\ \A w \in Writes : w = Item(f).w =>
                  pending'[w] = None /\ (w \notin shared => Nowhere(w)')
           /\ \A w \in Writes : pending'[w] # pending[w] => w = Item(f).w
           /\ pc'[f] \in {"idle", "loop", "send"}
           /\ \A g \in Flushers \ {f} : batch'[g] = batch[g] /\ pc'[g] = pc[g]
<1> USE DEF Inv
<1> DEFINE it == Item(f)
<1>1. it \in batch[f] /\ it.w \in Writes
  BY ItemInBatch, Zenon
<1>2. /\ pc' \in [Flushers -> {"idle", "loop", "send", "ack", "fail", "move", "drop"}]
      /\ batch' \in [Flushers -> SUBSET Items]
      /\ \A g \in Flushers : (batch'[g] = {}) <=> (pc'[g] \in {"idle", "loop"})
      /\ err' \in [Flushers -> {"none", "network"}]
      /\ pc'[f] \in {"idle", "loop", "send"}
      /\ batch'[f] \subseteq batch[f] \ {it}
      /\ \A g \in Flushers \ {f} : batch'[g] = batch[g] /\ pc'[g] = pc[g]
  BY LeaveType, Zenon
<1>3. /\ pending' \in [Writes -> Rows \cup {None}]
      /\ \A v \in Writes : pending'[v] # pending[v] => v = it.w /\ pending'[v] = None
      /\ pending[it.w] # None /\ pending[it.w].id = it.id => pending'[it.w] = None
  BY <1>1, DeleteType, Zenon DEF TypeOK
<1> HIDE DEF it
<1>4. UNCHANGED <<key, applied>>
  BY Zenon DEF gateway
<1>5. acked' \subseteq Writes
  BY <1>1, Zenon DEF TypeOK, it
<1>6. TypeOK'
  <2>1. QueueTypes' /\ GatewayTypes' /\ HistoryTypes'
    BY <1>3, <1>4, <1>5, TypeParts, Zenon DEF QueueTypes, GatewayTypes, HistoryTypes
  <2>2. FlusherTypes'
    BY <1>2, TypeParts, Zenon DEF FlusherTypes
  <2> QED
    BY <2>1, <2>2, TypePartsNext, Zenon
<1>7. Shrinks
  BY <1>2, <1>3, Zenon DEF Shrinks
<1>8. Queued' \subseteq Queued
  BY <1>3, Zenon DEF Queued
<1>9. Room'
  BY <1>8, RoomShrinks, Zenon
<1>10. OncePerKey'
  BY <1>4, <1>7, ShrinksCopies, OnceStays, Zenon
<1>11. Settled'
  BY <1>2, <1>4, SettledStays, Zenon
<1>12. OneCopy' /\ TrueCopy'
  BY <1>7, ShrinksCopies, Zenon
<1>13. Accepted'
  <2>1. enq[it.w] = "accepted"
    BY <1>1, Zenon DEF Accepted
  <2> QED
    BY <1>3, <1>4, <1>7, <2>1, ShrinksCopies, Zenon DEF Accepted, it
<1>14. pending'[it.w] = None
  BY <1>1, <1>3, Zenon DEF TrueCopy
<1>15. ASSUME NEW w \in Writes, w = it.w, w \notin shared PROVE Nowhere(w)'
  <2>1. ASSUME NEW g \in Flushers, NEW j \in batch'[g] PROVE j.w # w
    <3>1. j \in batch[g]
      BY <1>2, <2>1, Zenon
    <3> QED
      BY <1>1, <1>2, <1>15, <2>1, <3>1, Zenon DEF OneCopy
  <2> QED
    BY <1>14, <1>15, <2>1, Zenon DEF Nowhere
<1> QED
  BY <1>2, <1>3, <1>6, <1>7, <1>9, <1>10, <1>11, <1>12, <1>13, <1>14, <1>15,
     Zenon DEF it

\* Queue.ack: the write was executed, and is gone from everywhere.
LEMMA AckInv ==
    ASSUME Inv, NEW f \in Flushers, Ack(f)
    PROVE  Inv'
<1> USE DEF Inv
<1> DEFINE u == Item(f).w
<1>1. /\ pc[f] = "ack" /\ DeletePending(Item(f).w, Item(f).id) /\ Advance(f)
      /\ UNCHANGED <<dead, lastId, enq, tries, gateway, cleared, torn, shared, late, crashes,
                      lapses>>
      /\ acked' = acked \cup {u}
  BY Zenon DEF Ack
<1>2. Item(f) \in batch[f] /\ u \in Writes
  BY <1>1, ItemInBatch, Zenon
<1>3. /\ TypeOK' /\ Shrinks /\ Room' /\ OncePerKey' /\ Settled' /\ Accepted' /\ OneCopy' /\ TrueCopy'
      /\ \A w \in Writes : w = u => pending'[w] = None /\ (w \notin shared => Nowhere(w)')
      /\ \A w \in Writes : pending'[w] # pending[w] => w = u
      /\ \A g \in Flushers \ {f} : batch'[g] = batch[g] /\ pc'[g] = pc[g]
  BY <1>1, DeleteStep, Zenon
<1>4. u \notin torn \cup shared => dead[u] = 0
  <2>1. ASSUME u \notin torn \cup shared, dead[u] > 0 PROVE FALSE
    <3>1. Nowhere(u) \/ \E g \in Flushers : pc[g] = "drop" /\ Item(g).w = u
      BY <1>2, <2>1, Zenon DEF Moved
    <3>2. ~Nowhere(u)
      BY <1>2, Zenon DEF Nowhere
    <3>3. ASSUME NEW g \in Flushers, pc[g] = "drop", Item(g).w = u PROVE FALSE
      <4>1. Item(g) \in batch[g]
        BY <3>3, ItemInBatch, Zenon
      <4>2. g = f
        BY <1>2, <2>1, <3>3, <4>1, Zenon DEF OneCopy
      <4> QED
        BY <1>1, <3>3, <4>2, Zenon
    <3> QED
      BY <3>1, <3>2, <3>3, Zenon
  <2>2. dead[u] \in Nat
    BY <1>2 DEF TypeOK
  <2> QED
    BY <2>1, <2>2
<1>5. Moved' /\ Sent'
  <2>1. \A w \in acked' \ acked :
            /\ pending'[w] = None
            /\ w \notin torn \cup shared => Nowhere(w)' /\ dead[w] = 0
    BY <1>1, <1>2, <1>3, <1>4, Zenon
  <2>2. acked' \subseteq Writes
    BY <1>3, Zenon DEF TypeOK
  <2>3. \A g \in Flushers : pc[g] = "drop" => pc'[g] = "drop" /\ batch'[g] = batch[g]
    BY <1>1, <1>3, Zenon
  <2> QED
    BY <1>1, <1>3, <2>1, <2>2, <2>3, ShrinksMoved, Zenon
<1>6. applied[u] > 0 /\ UNCHANGED applied
  BY <1>1, <1>2, Zenon DEF Settled, gateway
<1>7. NoWriteLost'
  <2> HIDE DEF u
  <2>1. ASSUME NEW w \in Writes, enq[w] = "accepted"
        PROVE  \/ pending'[w] # None
               \/ dead[w] > 0 \/ w \in cleared
               \/ w \in acked' /\ applied[w] > 0
    <3>1. CASE w = u
      BY <1>1, <1>6, <3>1, Zenon
    <3>2. CASE w # u
      BY <1>1, <1>3, <2>1, <3>2, Zenon DEF NoWriteLost, Queued
    <3> QED
      BY <3>1, <3>2, Zenon
  <2> QED
    BY <1>1, <1>6, <2>1, Zenon DEF NoWriteLost, Queued
<1> QED
  BY <1>3, <1>5, <1>7, Zenon

\* The DELETE after the INSERT into the dead letters.
LEMMA DropInv ==
    ASSUME Inv, NEW f \in Flushers, Drop(f)
    PROVE  Inv'
<1> USE DEF Inv
<1> DEFINE u == Item(f).w
<1>1. /\ pc[f] = "drop" /\ DeletePending(Item(f).w, Item(f).id) /\ (Advance(f) \/ Return(f))
      /\ UNCHANGED <<dead, lastId, enq, tries, gateway, acked, cleared, torn, shared, late, crashes,
                      lapses>>
  BY Zenon DEF Drop, history
<1>2. u \in Writes /\ (dead[u] > 0 \/ u \in cleared)
  BY <1>1, ItemInBatch, Zenon DEF Settled
<1>3. /\ TypeOK' /\ Shrinks /\ Room' /\ OncePerKey' /\ Settled' /\ Accepted' /\ OneCopy' /\ TrueCopy'
      /\ \A w \in Writes : w = u => pending'[w] = None /\ (w \notin shared => Nowhere(w)')
      /\ \A w \in Writes : pending'[w] # pending[w] => w = u
      /\ \A g \in Flushers \ {f} : batch'[g] = batch[g] /\ pc'[g] = pc[g]
  BY <1>1, DeleteStep, Zenon
<1>4. Moved' /\ Sent'
  <2>1. acked' \subseteq Writes /\ \A w \in acked' \ acked : FALSE
    BY <1>1, <1>3, Zenon DEF TypeOK
  <2>2. ASSUME NEW g \in Flushers, pc[g] = "drop"
        PROVE  \/ pc'[g] = "drop" /\ batch'[g] = batch[g]
               \/ \A w \in Writes : w = Item(g).w => Nowhere(w)' \/ w \in torn' \cup shared
    BY <1>3, <2>2, Zenon
  <2> QED
    BY <1>1, <1>3, <2>1, <2>2, ShrinksMoved, Zenon
<1>5. NoWriteLost'
  <2>1. UNCHANGED applied
    BY <1>1, Zenon DEF gateway
  <2> QED
    BY <1>1, <1>2, <1>3, <2>1, Zenon DEF NoWriteLost, Queued
<1> QED
  BY <1>3, <1>4, <1>5, Zenon

Requeued(f, due) ==
    pending' = [pending EXCEPT ![Item(f).w] =
                   IF @ # None /\ @.id = Item(f).id
                   THEN [id |-> Item(f).id, attempts |-> Item(f).attempts + 1, due |-> due]
                   ELSE @]

\* Queue.fail puts the row back with one attempt more.
LEMMA RequeueInv ==
    ASSUME Inv, NEW f \in Flushers, pc[f] = "fail", NEW due \in BOOLEAN, Requeued(f, due),
           Return(f), UNCHANGED <<dead, lastId, enq, tries, gateway, history>>
    PROVE  /\ Inv'
           /\ \A w \in Writes \ shared : pending[w] # None =>
                  pending'[w] # None /\ pending'[w].attempts >= pending[w].attempts
<1> USE DEF Inv
<1> DEFINE it == Item(f)
           row == [id |-> it.id, attempts |-> it.attempts + 1, due |-> due]
<1>1. /\ it \in batch[f] /\ it.w \in Writes /\ it.id \in Nat \ {0} /\ it.attempts \in Nat
  BY ItemInBatch, Zenon
<1>2. row \in Rows /\ row.attempts = it.attempts + 1 /\ row.id = it.id
  BY <1>1 DEF Rows
<1>3. row # None
  BY <1>2, SizeAssumption, Zenon
<1>4. pending' = [pending EXCEPT ![it.w] = IF pending[it.w] # None /\ pending[it.w].id = it.id
                                         THEN row ELSE pending[it.w]]
  BY Zenon DEF Requeued
<1> HIDE DEF it, row
<1>5. /\ \A v \in Writes \ {it.w} : pending'[v] = pending[v]
      /\ \A v \in Writes : pending'[v] = None <=> pending[v] = None
      /\ pending'[it.w] = pending[it.w] \/ pending'[it.w] = row
      /\ pending' \in [Writes -> Rows \cup {None}]
  <2>1. pending \in [Writes -> Rows \cup {None}]
    BY Zenon DEF TypeOK
  <2>2. pending'[it.w] = IF pending[it.w] # None /\ pending[it.w].id = it.id THEN row ELSE pending[it.w]
    BY <1>1, <1>4, <2>1, Zenon
  <2>3. \A v \in Writes \ {it.w} : pending'[v] = pending[v]
    BY <1>4, <2>1, Zenon
  <2>4. pending'[it.w] \in Rows \cup {None}
    BY <1>1, <1>2, <2>1, <2>2, Zenon
  <2>5. pending' \in [Writes -> Rows \cup {None}]
    BY <1>4, <2>1, <2>2, <2>4, Zenon
  <2> QED
    BY <1>1, <1>3, <2>2, <2>3, <2>5, Zenon
<1>6. /\ batch' = [batch EXCEPT ![f] = {}] /\ err' = [err EXCEPT ![f] = "none"]
      /\ pc' = [pc EXCEPT ![f] = "idle"]
  BY Zenon DEF Return, Goto
<1>7. /\ batch'[f] = {} /\ \A g \in Flushers \ {f} : batch'[g] = batch[g] /\ pc'[g] = pc[g]
      /\ pc'[f] = "idle"
  BY <1>6, Zenon DEF TypeOK
<1>8. UNCHANGED <<key, applied, acked, cleared, torn, shared, late, crashes,
                      lapses>>
  BY Zenon DEF gateway, history
<1>9. TypeOK'
  <2>1. QueueTypes' /\ GatewayTypes' /\ HistoryTypes'
    BY <1>5, <1>8, TypeParts, Zenon DEF QueueTypes, GatewayTypes, HistoryTypes
  <2>2. FlusherTypes'
    BY <1>6, <1>7, TypeParts, Zenon DEF FlusherTypes
  <2> QED
    BY <2>1, <2>2, TypePartsNext, Zenon
<1>10. \A g \in Flushers : \A j \in batch'[g] : g # f /\ j \in batch[g] /\ j.w \in Writes
  BY <1>7 DEF TypeOK, Items
<1>11. OneCopy'
  BY <1>8, <1>10, Zenon DEF OneCopy
<1>12. \A g \in Flushers : \A j \in batch'[g] : j.w \notin shared => j.w # it.w
  BY <1>1, <1>10, Zenon DEF OneCopy
<1>13. TrueCopy'
  <2>1. \A v \in Writes : pending[v] # None => pending'[v].id = pending[v].id
    BY <1>1, <1>2, <1>5, Zenon DEF TrueCopy
  <2> QED
    BY <1>5, <1>8, <1>10, <1>12, <2>1, SMTT(30) DEF TrueCopy
<1>14. Accepted'
  BY <1>5, <1>8, <1>10, Zenon DEF Accepted
<1>15. Settled'
  BY <1>7, <1>8, SettledStays, Zenon
<1>16. \A w \in Writes : Nowhere(w) => Nowhere(w)'
  BY <1>5, <1>10, Zenon DEF Nowhere
<1>17. \A g \in Flushers : pc[g] = "drop" => pc'[g] = "drop" /\ Item(g)' = Item(g)
  BY <1>7, Zenon DEF Item
<1>18. Moved'
  BY <1>8, <1>16, <1>17 DEF Moved
<1>19. Sent'
  BY <1>5, <1>8, <1>16, Zenon DEF Sent, TypeOK
<1>20. Queued' = Queued
  BY <1>5, Zenon DEF Queued
<1>21. Room' /\ OncePerKey' /\ NoWriteLost'
  BY <1>8, <1>16, <1>20, RoomShrinks, OnceStays, Zenon DEF NoWriteLost
<1>22. ASSUME NEW w \in Writes \ shared, pending[w] # None
       PROVE  pending'[w] # None /\ pending'[w].attempts >= pending[w].attempts
  <2>1. pending'[w] # None /\ pending[w].attempts \in Nat
    BY <1>5, <1>22, SMTT(30) DEF TypeOK, Rows
  <2>2. CASE pending'[w] = pending[w]
    BY <2>1, <2>2
  <2>3. CASE pending'[w] # pending[w]
    <3>1. w = it.w /\ pending'[w] = row
      BY <1>5, <2>3, Zenon
    <3>2. pending[w].attempts = it.attempts
      BY <1>1, <1>22, <3>1, Zenon DEF TrueCopy
    <3> QED
      BY <1>1, <1>2, <2>1, <3>1, <3>2
  <2> QED
    BY <2>2, <2>3, Zenon
<1> QED
  BY <1>9, <1>11, <1>13, <1>14, <1>15, <1>18, <1>19, <1>21, <1>22, Zenon

\* Only the step of one flusher changes.
LEMMA GoInv ==
    ASSUME Inv, NEW f \in Flushers, pc[f] = "fail", Goto(f, "move"),
           UNCHANGED <<queue, batch, tries, err, gateway, history>>
    PROVE  Inv'
<1>1. /\ pc' \in [Flushers -> {"idle", "loop", "send", "ack", "fail", "move", "drop"}]
      /\ pc'[f] = "move" /\ \A g \in Flushers \ {f} : pc'[g] = pc[g]
  BY Zenon DEF Goto, Inv, TypeOK
<1>2. UNCHANGED <<key, applied, pending, enq, acked, cleared, torn, shared, late, crashes, lapses>>
  BY Zenon DEF gateway, queue, history
<1>3. FlusherTypes' /\ HistoryTypes'
  BY <1>1, <1>2, TypeParts, Zenon DEF Inv, FlusherTypes, HistoryTypes
<1>4. GatewayTypes' /\ OncePerKey'
  BY <1>2, OnceStays, TypeParts, Zenon DEF Inv, GatewayTypes, Nowhere
<1>5. \A g \in Flushers : pc'[g] = "ack" => applied'[Item(g).w] > 0
  BY <1>1, <1>2, Zenon DEF Inv, Settled
<1>6. \A v \in Writes : key'[v] # "none" \/ applied'[v] > 0 => enq[v] = "accepted"
  BY <1>2, Zenon DEF Inv, Accepted
<1> QED
  BY <1>1, <1>2, <1>3, <1>4, <1>5, <1>6, PostInv, Zenon

\* INSERT INTO dead.
LEMMA MoveInv ==
    ASSUME Inv, NEW f \in Flushers, Move(f)
    PROVE  Inv'
<1> USE DEF Inv
<1> DEFINE u == Item(f).w
<1>1. /\ UNCHANGED <<pending, lastId, enq, batch, tries, err, key, applied, acked, cleared, torn, shared, late, crashes,
                      lapses>>
      /\ pc[f] = "move" /\ pc' = [pc EXCEPT ![f] = "drop"]
      /\ dead' = [dead EXCEPT ![u] = @ + 1]
  BY Zenon DEF Move, Goto, gateway, history
<1>2. Item(f) \in batch[f] /\ u \in Writes
  BY <1>1, ItemInBatch, Zenon
<1> HIDE DEF u
<1>3. /\ dead' \in [Writes -> Nat] /\ dead'[u] > 0 /\ \A v \in Writes \ {u} : dead'[v] = dead[v]
      /\ \A v \in Writes : dead[v] > 0 => dead'[v] > 0
  BY <1>1, <1>2 DEF TypeOK
<1>4. /\ pc' \in [Flushers -> {"idle", "loop", "send", "ack", "fail", "move", "drop"}]
      /\ pc'[f] = "drop" /\ \A g \in Flushers \ {f} : pc'[g] = pc[g]
  BY <1>1, Zenon DEF TypeOK
<1>5. TypeOK'
  <2>1. QueueTypes' /\ GatewayTypes' /\ HistoryTypes'
    BY <1>1, <1>3, TypeParts, Zenon DEF QueueTypes, GatewayTypes, HistoryTypes
  <2>2. FlusherTypes'
    BY <1>1, <1>4, TypeParts, Zenon DEF FlusherTypes
  <2> QED
    BY <2>1, <2>2, TypePartsNext, Zenon
<1>6. Shrinks
  BY <1>1, Zenon DEF Shrinks
<1>7. enq[u] = "accepted"
  BY <1>2, Zenon DEF Accepted, u
<1>8. OneCopy' /\ TrueCopy' /\ Accepted'
  BY <1>1, <1>3, <1>6, <1>7, ShrinksCopies, Zenon DEF Accepted
<1>9. \A g \in Flushers : Item(g)' = Item(g)
  BY <1>1, Zenon DEF Item
<1>10. \A g \in Flushers : pc[g] \notin {"idle", "loop"} => Item(g).w \in Writes
  BY ItemInBatch, Zenon
<1>11. Settled'
  <2>1. ASSUME NEW g \in Flushers
        PROVE  /\ pc'[g] = "ack" => applied[Item(g).w] > 0
               /\ pc'[g] = "drop" => dead'[Item(g).w] > 0 \/ Item(g).w \in cleared
    <3>1. CASE g = f
      BY <1>3, <1>4, <3>1, Zenon DEF u
    <3>2. CASE g # f
      BY <1>3, <1>4, <1>10, <3>2, Zenon DEF Settled
    <3> QED
      BY <3>1, <3>2, Zenon
  <2> QED
    BY <1>1, <1>9, <2>1, Zenon DEF Settled
<1>12. \A w \in Writes : Nowhere(w) => Nowhere(w)' /\ w # u
  BY <1>1, <1>2, Zenon DEF Nowhere, u
<1>13. Sent'
  BY <1>1, <1>3, <1>12, SMTT(30) DEF Sent, TypeOK
<1>14. Moved'
  <2>1. ASSUME NEW w \in Writes \ (torn \cup shared), dead'[w] > 0
        PROVE  Nowhere(w)' \/ \E g \in Flushers : pc'[g] = "drop" /\ Item(g)'.w = w
    <3>1. CASE w = u
      BY <1>4, <1>9, <3>1, Zenon DEF u
    <3>2. CASE w # u
      <4>1. Nowhere(w) \/ \E g \in Flushers : pc[g] = "drop" /\ Item(g).w = w
        BY <1>3, <2>1, <3>2, Zenon DEF Moved
      <4> QED
        BY <1>1, <1>4, <1>9, <1>12, <4>1, Zenon
    <3> QED
      BY <3>1, <3>2, Zenon
  <2> QED
    BY <1>1, <2>1, Zenon DEF Moved
<1>15. Queued' = Queued
  BY <1>1, Zenon DEF Queued
<1>16. Room' /\ OncePerKey' /\ NoWriteLost'
  BY <1>1, <1>3, <1>12, <1>15, RoomShrinks, OnceStays, Zenon DEF NoWriteLost
<1> QED
  BY <1>5, <1>8, <1>11, <1>13, <1>14, <1>16, Zenon

\* The dead letters are cleared.
LEMMA ClearDeadInv ==
    ASSUME Inv, ClearDead
    PROVE  Inv'
<1> USE DEF Inv
<1>1. /\ UNCHANGED <<pending, lastId, enq, pc, batch, tries, err, key, applied, acked, torn, shared, late, crashes,
                      lapses>>
      /\ dead' = [w \in Writes |-> 0] /\ cleared' = cleared \cup {w \in Writes : dead[w] > 0}
  BY Zenon DEF ClearDead, flusher, gateway
<1>2. /\ dead' \in [Writes -> Nat] /\ \A w \in Writes : dead'[w] = 0 /\ ~(dead'[w] > 0)
      /\ cleared' \subseteq Writes
  BY <1>1 DEF TypeOK
<1>3. TypeOK'
  <2>1. QueueTypes' /\ GatewayTypes' /\ HistoryTypes'
    BY <1>1, <1>2, TypeParts, Zenon DEF QueueTypes, GatewayTypes, HistoryTypes
  <2>2. FlusherTypes'
    BY <1>1, TypeParts, Zenon DEF FlusherTypes
  <2> QED
    BY <2>1, <2>2, TypePartsNext, Zenon
<1>4. Shrinks
  BY <1>1, SMTT(30) DEF Shrinks
<1>5. OneCopy' /\ TrueCopy' /\ Accepted'
  BY <1>1, <1>2, <1>4, ShrinksCopies, Zenon DEF Accepted
<1>6. Moved'
  BY <1>2, SMT, SMTT(30) DEF Moved
<1>7. Sent'
  BY <1>1, <1>2, <1>4, ShrinksCopies, SMT, SMTT(30) DEF Sent, TypeOK
<1>8. Settled'
  BY <1>1, SettledStays, Zenon
<1>9. Queued' = Queued
  BY <1>1, Zenon DEF Queued
<1>10. Room' /\ OncePerKey' /\ NoWriteLost'
  BY <1>1, <1>4, <1>9, RoomShrinks, ShrinksCopies, OnceStays, Zenon DEF NoWriteLost
<1> QED
  BY <1>3, <1>5, <1>6, <1>7, <1>8, <1>10, Zenon

\* A crash between the two statements of a move tears its write.
LEMMA CrashInv ==
    ASSUME Inv, NEW f \in Flushers, Crash(f)
    PROVE  Inv'
<1> USE DEF Inv
<1>1. /\ UNCHANGED <<pending, dead, lastId, enq, key, applied, acked, cleared, shared, late, lapses>>
      /\ batch' = [batch EXCEPT ![f] = {}] /\ err' = [err EXCEPT ![f] = "none"]
      /\ pc' = [pc EXCEPT ![f] = "idle"] /\ tries' = [tries EXCEPT ![f] = 0]
      /\ crashes' = crashes + 1 /\ crashes < MaxCrashes
  BY Zenon DEF Crash, Return, Goto, queue, gateway
<1>2. torn' = IF pc[f] = "drop" THEN torn \cup {Item(f).w} ELSE torn
  BY Zenon DEF Crash
<1>3. torn \subseteq torn' /\ torn' \subseteq Writes
  <2>1. pc[f] = "drop" => Item(f).w \in Writes
    BY ItemInBatch, Zenon
  <2> QED
    BY <1>2, <2>1, Zenon DEF TypeOK
<1>4. /\ batch'[f] = {} /\ pc'[f] = "idle"
      /\ \A g \in Flushers \ {f} : batch'[g] = batch[g] /\ pc'[g] = pc[g]
  BY <1>1, Zenon DEF TypeOK
<1>5. TypeOK'
  <2>1. crashes' \in 0..MaxCrashes
    BY <1>1, SizeAssumption, SMTT(30) DEF TypeOK
  <2>2. QueueTypes' /\ GatewayTypes' /\ HistoryTypes'
    BY <1>1, <1>3, <2>1, TypeParts, Zenon DEF QueueTypes, GatewayTypes, HistoryTypes
  <2>3. tries' \in [Flushers -> 0..(MaxTries - 1)]
    BY <1>1, SizeAssumption DEF TypeOK
  <2>4. FlusherTypes'
    BY <1>1, <1>4, <2>3, TypeParts, SMTT(30) DEF FlusherTypes
  <2> QED
    BY <2>2, <2>4, TypePartsNext, Zenon
<1>6. Shrinks
  BY <1>1, <1>3, <1>4, Zenon DEF Shrinks
<1>7. OneCopy' /\ TrueCopy' /\ Accepted'
  BY <1>1, <1>6, ShrinksCopies, Zenon DEF Accepted
<1>8. Moved' /\ Sent'
  <2>1. acked' \subseteq Writes /\ \A w \in acked' \ acked : FALSE
    BY <1>1, Zenon DEF TypeOK
  <2>2. ASSUME NEW g \in Flushers, pc[g] = "drop"
        PROVE  \/ pc'[g] = "drop" /\ batch'[g] = batch[g]
               \/ \A w \in Writes : w = Item(g).w => Nowhere(w)' \/ w \in torn' \cup shared
    BY <1>2, <1>4, <2>2, SMTT(30)
  <2> QED
    BY <1>1, <1>6, <2>1, <2>2, ShrinksMoved, Zenon
<1>9. Settled'
  BY <1>1, <1>4, SettledStays, Zenon
<1>10. Queued' = Queued
  BY <1>1, SMTT(30) DEF Queued
<1>11. Room' /\ OncePerKey' /\ NoWriteLost'
  BY <1>1, <1>6, <1>10, RoomShrinks, ShrinksCopies, OnceStays, Zenon DEF NoWriteLost
<1> QED
  BY <1>5, <1>7, <1>8, <1>9, <1>11, Zenon

LEMMA FailInv ==
    ASSUME Inv, NEW f \in Flushers, Fail(f)
    PROVE  Inv'
<1>1. CASE Goto(f, "move") /\ UNCHANGED <<pending, batch, err>>
  BY <1>1, GoInv, Zenon DEF Fail, queue
<1>2. CASE ~(Goto(f, "move") /\ UNCHANGED <<pending, batch, err>>)
  BY <1>2, RequeueInv, Zenon DEF Fail, Requeued
<1> QED
  BY <1>1, <1>2, Zenon

LEMMA StepInv == Inv /\ [Next]_vars => Inv'
<1> SUFFICES ASSUME Inv, [Next]_vars PROVE Inv'
  BY Zenon
<1>1. CASE UNCHANGED vars
  <2>1. /\ UNCHANGED <<queue, batch, pending, enq, pc, tries, err, key, applied>>
        /\ UNCHANGED <<acked, cleared, torn, shared, late, crashes, lapses>>
    BY <1>1, Zenon DEF vars, flusher, gateway, queue, history
  <2>2. FlusherTypes' /\ GatewayTypes' /\ HistoryTypes'
    BY <2>1, TypeParts, Zenon DEF Inv, FlusherTypes, GatewayTypes, HistoryTypes
  <2>3. OncePerKey'
    BY <2>1, OnceStays, Zenon DEF Nowhere
  <2>4. \A f \in Flushers : pc'[f] = "ack" => applied'[Item(f).w] > 0
    BY <2>1, Zenon DEF Inv, Settled
  <2>5. \A v \in Writes : key'[v] # "none" \/ applied'[v] > 0 => enq[v] = "accepted"
    BY <2>1, Zenon DEF Inv, Accepted
  <2> QED
    BY <2>1, <2>2, <2>3, <2>4, <2>5, PostInv, Zenon
<1>2. ASSUME NEW f \in Flushers, Flush(f) PROVE Inv'
  BY <1>2, FetchInv, SendInv, AckInv, FailInv, MoveInv, DropInv, Zenon DEF Flush
<1> QED
  BY <1>1, <1>2, CountInv, InsertInv, WakeInv, FinishInv, LapseInv, CrashInv, ClearDeadInv,
     Zenon DEF Next

-----------------------------------------------------------------------------

(* What follows *)

\* Both tables, the flushers and the gateway keep their shape; a flusher between
\* two batches, and no other, has nothing in hand.
THEOREM TypesHold == Spec => []TypeOK
<1>1. Inv => TypeOK
  BY Zenon DEF Inv
<1> QED
  BY <1>1, InitInv, StepInv, PTL DEF Spec

\* No accepted write disappears, whichever process stops and whoever flushes.
THEOREM WritesAreKept == Spec => []NoWriteLost
<1>1. Inv => NoWriteLost
  BY Zenon DEF Inv
<1> QED
  BY <1>1, InitInv, StepInv, PTL DEF Spec

\* A write is executed once, however often it is sent and whatever the answer was,
\* unless its key lapses while it may still be sent.
THEOREM WritesApplyOnce == Spec => []AppliedOnce
<1>1. Inv => AppliedOnce
  <2> SUFFICES ASSUME Inv, NEW w \in Writes, w \notin late PROVE ~(applied[w] > 1)
    BY Zenon DEF AppliedOnce
  <2>1. applied[w] <= 1 /\ applied[w] \in Nat
    BY Zenon DEF Inv, OncePerKey, TypeOK
  <2> QED
    BY <2>1
<1> QED
  BY <1>1, InitInv, StepInv, PTL DEF Spec

\* The queue outgrows max_size only by the producers that had counted.
THEOREM QueueIsBounded == Spec => []SizeBound
<1>1. Inv => SizeBound
  <2> SUFFICES ASSUME Inv PROVE SizeBound
    BY Zenon
  <2>1. IsFiniteSet(Queued) /\ IsFiniteSet(Counted)
    BY SizeAssumption, FS_Subset, Zenon DEF Queued, Counted
  <2>2. Cardinality(Queued) \in Nat /\ Cardinality(Counted) \in Nat
    BY <2>1, FS_CardinalityType, Zenon
  <2> QED
    BY <2>2, SizeAssumption DEF Inv, Room, SizeBound
<1> QED
  BY <1>1, InitInv, StepInv, PTL DEF Spec

\* A write reported as sent is no dead letter, but for a crash in the middle of a
\* move and for two flushers with the same row.
THEOREM SentIsNotDead == Spec => []AckedIsNotDead
<1>1. Inv => AckedIsNotDead
  BY DEF Inv, TypeOK, Sent, AckedIsNotDead
<1> QED
  BY <1>1, InitInv, StepInv, PTL DEF Spec

\* The attempts of a row only grow while one flusher at a time has a copy.
THEOREM AttemptsOnlyGrow == Spec => AttemptsGrow
<1> DEFINE Grow == \A w \in Writes \ shared :
                       pending[w] # None /\ pending'[w] # None =>
                           pending'[w].attempts >= pending[w].attempts
<1>1. Inv /\ [Next]_vars => [Grow]_vars
  <2> SUFFICES ASSUME Inv, Next PROVE Grow
    BY Zenon
  <2>1. \A w \in Writes : pending[w] # None => pending[w].attempts \in Nat
    BY DEF Inv, TypeOK, Rows
  <2>2. CASE UNCHANGED pending
    BY <2>1, <2>2
  <2>3. ASSUME NEW w \in Writes, Insert(w) PROVE Grow
    <3>1. pending[w] = None /\ \A v \in Writes \ {w} : pending'[v] = pending[v]
      BY <2>3 DEF Insert, Inv, Accepted, TypeOK
    <3> QED
      BY <2>1, <3>1
  <2>4. ASSUME NEW w \in Writes, Wake(w) PROVE Grow
    <3>1. pending[w] \in Rows
      BY <2>4, Zenon DEF Wake, Queued, Inv, TypeOK
    <3>2. [pending[w] EXCEPT !.due = TRUE].attempts = pending[w].attempts
      BY <3>1, Zenon DEF Rows
    <3>3. pending' = [pending EXCEPT ![w] = [pending[w] EXCEPT !.due = TRUE]]
      BY <2>4, Zenon DEF Wake
    <3>4. pending'[w].attempts = pending[w].attempts /\ \A v \in Writes \ {w} : pending'[v] = pending[v]
      BY <3>2, <3>3, Zenon DEF Inv, TypeOK
    <3> QED
      BY <2>1, <3>4
  <2>5. ASSUME NEW f \in Flushers, Ack(f) \/ Drop(f) PROVE Grow
    <3>1. DeletePending(Item(f).w, Item(f).id) /\ pc[f] \in {"ack", "drop"}
      BY <2>5, Zenon DEF Ack, Drop
    <3>2. Item(f).w \in Writes
      BY <3>1, ItemInBatch, Zenon DEF Inv
    <3>3. \A v \in Writes : pending'[v] = pending[v] \/ pending'[v] = None
      BY <3>1, <3>2, DeleteType, Zenon DEF Inv, TypeOK
    <3> QED
      BY <2>1, <3>3
  <2>6. ASSUME NEW f \in Flushers, Fail(f) PROVE Grow
    <3>1. CASE UNCHANGED pending
      BY <2>1, <3>1
    <3>2. CASE pending' # pending
      BY <2>6, <3>2, RequeueInv, Zenon DEF Fail, Requeued
    <3> QED
      BY <3>1, <3>2, Zenon
  <2>7. ASSUME NEW f \in Flushers, Fetch(f) \/ Send(f) \/ Move(f) \/ Crash(f) PROVE Grow
    BY <2>2, <2>7, Zenon DEF Fetch, Send, Move, Crash, queue
  <2>8. ASSUME NEW w \in Writes, Count(w) \/ Finish(w) \/ Lapse(w) PROVE Grow
    BY <2>2, <2>8, Zenon DEF Count, Finish, Lapse, queue
  <2>9. CASE ClearDead
    BY <2>2, <2>9, Zenon DEF ClearDead
  <2> HIDE DEF Grow
  <2> QED
    BY <2>3, <2>4, <2>5, <2>6, <2>7, <2>8, <2>9, Zenon DEF Next, Flush
<1>2. Inv /\ [Next]_vars => [\A w \in Writes \ shared :
                              pending[w] # None /\ pending'[w] # None =>
                                  pending'[w].attempts >= pending[w].attempts]_vars
  BY <1>1, Zenon
<1> QED
  BY <1>2, InitInv, StepInv, PTL DEF Spec, AttemptsGrow

=============================================================================
