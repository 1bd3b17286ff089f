------------------------- MODULE RetryQueueInvariant ------------------------
(***************************************************************************)
(* The inductive invariant of RetryQueue, for any number of writes,        *)
(* flushers, producers and crashes and any limits: enqueue, next_due and   *)
(* the sends preserve it.  The rest, and what follows, is RetryQueueProofs.*)
(***************************************************************************)
EXTENDS RetryQueue, FiniteSetTheorems, WellFoundedInduction, TLAPS

\* Every set of numbers that is not empty has a least one.
LEMMA Least ==
    ASSUME NEW T \in SUBSET Nat, T # {}
    PROVE  \E x \in T : \A y \in T : x <= y
<1> DEFINE R == {p \in Nat \X Nat : p[1] < p[2]}
<1>1. IsWellFoundedOn(R, Nat)
  BY NatLessThanWellFounded, Zenon DEF OpToRel
<1>2. PICK x \in T : \A y \in T : ~(<<y, x>> \in R)
  BY <1>1, WFMin, Zenon
<1>3. ASSUME NEW y \in T PROVE x <= y
  <2>1. x \in Nat /\ y \in Nat
    BY Zenon
  <2>2. y < x => <<y, x>> \in R
    BY <2>1, Zenon
  <2> QED
    BY <1>2, <2>1, <2>2
<1> QED
  BY <1>3, Zenon

\* Some item of a batch is the oldest.
LEMMA OldestExists ==
    ASSUME NEW B \in SUBSET Items, B # {}
    PROVE  \E i \in B : \A j \in B : i.id <= j.id
<1> DEFINE T == {i.id : i \in B}
<1>1. T \in SUBSET Nat /\ T # {}
  BY Zenon DEF Items
<1>2. PICK x \in T : \A y \in T : x <= y
  <2> HIDE DEF T
  <2> QED
    BY <1>1, Least, Zenon
<1> QED
  BY <1>2, Zenon

LEMMA OldestIsIn ==
    ASSUME NEW B \in SUBSET Items, B # {}
    PROVE  Oldest(B) \in B
BY OldestExists, Zenon DEF Oldest

-----------------------------------------------------------------------------

(* The inductive invariant *)

Counted == {w \in Writes : enq[w] = "counted"}

\* A producer that has counted holds a place.
Room == Cardinality(Queued) + Cardinality(Counted) <= MaxSize + Producers - 1

Nowhere(w) == pending[w] = None /\ \A f \in Flushers : \A i \in batch[f] : i.w # w

\* A key that is done was executed.  Before the key of a write lapses too early it
\* is executed once, and not again: it has a key, or nobody is left to send it.
OncePerKey ==
    \A w \in Writes :
        /\ key[w] = "done" => applied[w] > 0
        /\ w \notin late =>
               /\ applied[w] <= 1
               /\ key[w] = "running" => applied[w] = 0
               /\ key[w] = "none" /\ applied[w] > 0 => Nowhere(w)

\* A flusher that is about to delete a row has its dead letter, or it was executed.
Settled ==
    \A f \in Flushers :
        /\ pc[f] = "ack" => applied[Item(f).w] > 0
        /\ pc[f] = "drop" => dead[Item(f).w] > 0 \/ Item(f).w \in cleared

\* Only an accepted write is anywhere.
Accepted ==
    /\ \A f \in Flushers : \A i \in batch[f] : enq[i.w] = "accepted"
    /\ \A w \in Writes :
           \/ pending[w] # None \/ dead[w] > 0 \/ w \in acked
           \/ key[w] # "none" \/ applied[w] > 0
           => enq[w] = "accepted"

\* A copy has the id of its row; of a write that was never shared one flusher has a
\* copy, and a true one.
OneCopy ==
    \A f, g \in Flushers : \A i \in batch[f], j \in batch[g] :
        i.w = j.w /\ i.w \notin shared => f = g /\ i = j

TrueCopy ==
    \A f \in Flushers : \A i \in batch[f] :
        pending[i.w] # None =>
            /\ pending[i.w].id = i.id
            /\ i.w \notin shared => pending[i.w].attempts = i.attempts

\* A dead letter is nowhere else, but for the step between INSERT and DELETE.
Moved ==
    \A w \in Writes \ (torn \cup shared) : dead[w] > 0 =>
        Nowhere(w) \/ \E f \in Flushers : pc[f] = "drop" /\ Item(f).w = w

Sent ==
    /\ \A w \in acked : pending[w] = None
    /\ \A w \in acked \ (torn \cup shared) : Nowhere(w) /\ dead[w] = 0

Inv ==
    /\ TypeOK /\ Room /\ OncePerKey /\ Settled /\ Accepted /\ OneCopy /\ TrueCopy
    /\ Moved /\ Sent /\ NoWriteLost

\* What the flusher at work on an item has in hand.
LEMMA ItemInBatch ==
    ASSUME TypeOK, NEW f \in Flushers, pc[f] \notin {"idle", "loop"}
    PROVE  /\ Item(f) \in batch[f] /\ Item(f) \in Items /\ Item(f).w \in Writes
           /\ Item(f).id \in Nat \ {0} /\ Item(f).attempts \in Nat
<1>1. batch[f] \in SUBSET Items /\ batch[f] # {}
  BY Zenon DEF TypeOK
<1>2. Item(f) \in batch[f]
  BY <1>1, OldestIsIn, Zenon DEF Item
<1>3. Item(f) \in Items
  BY <1>1, <1>2, Zenon
<1> QED
  BY <1>2, <1>3, Zenon DEF Items

LEMMA InitInv == Init => Inv
<1> SUFFICES ASSUME Init PROVE Inv
  BY Zenon
<1>1. TypeOK
  BY SizeAssumption DEF Init, TypeOK
<1>2. Room
  <2>1. Queued = {} /\ Counted = {}
    BY Zenon DEF Init, Queued, Counted
  <2>2. MaxSize \in Nat \ {0} /\ Producers \in Nat \ {0}
    BY SizeAssumption, Zenon
  <2> QED
    BY <2>1, <2>2, FS_EmptySet DEF Room
<1>3. OncePerKey /\ Settled /\ Accepted /\ OneCopy /\ TrueCopy
  BY DEF Init, OncePerKey, Settled, Accepted, OneCopy, TrueCopy
<1>4. Moved /\ Sent /\ NoWriteLost
  BY DEF Init, Moved, Sent, NoWriteLost
<1> QED
  BY <1>1, <1>2, <1>3, <1>4, Zenon DEF Inv

-----------------------------------------------------------------------------

(* Types *)

\* What next_due returns are copies of rows, and something if anything is due.
LEMMA NextDueItems ==
    ASSUME TypeOK
    PROVE  /\ NextDue \in SUBSET Items
           /\ NextDue = {} <=> Due = {}
           /\ \A i \in NextDue : /\ i.w \in Writes /\ pending[i.w] # None
                                 /\ i = [w |-> i.w, id |-> pending[i.w].id,
                                         attempts |-> pending[i.w].attempts]
<1>1. Due \in SUBSET Items
  <2>1. ASSUME NEW w \in Queued
        PROVE  [w |-> w, id |-> pending[w].id, attempts |-> pending[w].attempts] \in Items
    <3>1. w \in Writes /\ pending[w] \in Rows
      BY Zenon DEF Queued, TypeOK
    <3> QED
      BY <3>1, Zenon DEF Items, Rows
  <2> QED
    BY <2>1, Zenon DEF Due
<1>2. \A i \in Due : /\ i.w \in Writes /\ pending[i.w] # None
                     /\ i = [w |-> i.w, id |-> pending[i.w].id,
                             attempts |-> pending[i.w].attempts]
  BY DEF Due, Queued
<1>3. NextDue \subseteq Due
  BY Zenon DEF NextDue
<1>4. ASSUME Due # {} PROVE NextDue # {}
  <2>1. PICK i \in Due : \A j \in Due : i.id <= j.id
    BY <1>1, <1>4, OldestExists, Zenon
  <2>2. \A j \in Due : i.id \in Nat /\ j.id \in Nat
    BY <1>1, Zenon DEF Items
  <2>3. {j \in Due : j.id < i.id} = {}
    BY <2>1, <2>2
  <2>4. Cardinality({j \in Due : j.id < i.id}) < BatchLimit
    <3>1. Cardinality({j \in Due : j.id < i.id}) = 0
      BY <2>3, FS_EmptySet, Zenon
    <3> QED
      BY <3>1, SizeAssumption
  <2> QED
    BY <2>4, Zenon DEF NextDue
<1> QED
  BY <1>1, <1>2, <1>3, <1>4, Zenon

\* The queue and its producers.
QueueTypes ==
    /\ pending \in [Writes -> Rows \cup {None}]
    /\ dead \in [Writes -> Nat]
    /\ lastId \in Nat
    /\ enq \in [Writes -> {"new", "counted", "refused", "accepted"}]

FlusherTypes ==
    /\ pc \in [Flushers -> {"idle", "loop", "send", "ack", "fail", "move", "drop"}]
    /\ batch \in [Flushers -> SUBSET Items]
    /\ \A f \in Flushers : (batch[f] = {}) <=> (pc[f] \in {"idle", "loop"})
    /\ tries \in [Flushers -> 0..(MaxTries - 1)]
    /\ err \in [Flushers -> {"none", "network"}]

GatewayTypes ==
    /\ key \in [Writes -> {"none", "running"} \cup Ends]
    /\ applied \in [Writes -> Nat]

HistoryTypes ==
    /\ acked \subseteq Writes /\ cleared \subseteq Writes
    /\ torn \subseteq Writes /\ shared \subseteq Writes /\ late \subseteq Writes
    /\ crashes \in 0..MaxCrashes /\ lapses \in 0..MaxLapses

LEMMA TypeParts == TypeOK <=> QueueTypes /\ FlusherTypes /\ GatewayTypes /\ HistoryTypes
BY Zenon DEF TypeOK, QueueTypes, FlusherTypes, GatewayTypes, HistoryTypes

LEMMA TypePartsNext ==
    QueueTypes' /\ FlusherTypes' /\ GatewayTypes' /\ HistoryTypes' => TypeOK'
BY Zenon DEF TypeOK, QueueTypes, FlusherTypes, GatewayTypes, HistoryTypes

LEMMA DeleteType ==
    ASSUME pending \in [Writes -> Rows \cup {None}], NEW w \in Writes, NEW id, DeletePending(w, id)
    PROVE  /\ pending' \in [Writes -> Rows \cup {None}]
           /\ \A v \in Writes : pending'[v] # pending[v] => v = w /\ pending'[v] = None
           /\ pending[w] # None /\ pending[w].id = id => pending'[w] = None
BY Zenon DEF DeletePending

\* A flusher goes to the next item, or to the end.
LEMMA LeaveType ==
    ASSUME TypeOK, NEW f \in Flushers, pc[f] \notin {"idle", "loop"},
           Advance(f) \/ Return(f)
    PROVE  /\ pc' \in [Flushers -> {"idle", "loop", "send", "ack", "fail", "move", "drop"}]
           /\ batch' \in [Flushers -> SUBSET Items]
           /\ \A g \in Flushers : (batch'[g] = {}) <=> (pc'[g] \in {"idle", "loop"})
           /\ err' \in [Flushers -> {"none", "network"}]
           /\ pc'[f] \in {"idle", "loop", "send"}
           /\ batch'[f] \subseteq batch[f] \ {Item(f)}
           /\ \A g \in Flushers \ {f} : batch'[g] = batch[g] /\ pc'[g] = pc[g]
<1>1. Item(f) \in batch[f]
  BY ItemInBatch, Zenon
<1>2. CASE Return(f)
  BY <1>2, Zenon DEF Return, Goto, TypeOK
<1>3. CASE Advance(f)
  <2>1. /\ batch' = [batch EXCEPT ![f] = batch[f] \ {Item(f)}]
        /\ err' = [err EXCEPT ![f] = "none"]
        /\ pc' = [pc EXCEPT ![f] = IF batch[f] = {Item(f)} THEN "loop" ELSE "send"]
    BY <1>3, Zenon DEF Advance, Goto
  <2>2. batch[f] \ {Item(f)} = {} <=> batch[f] = {Item(f)}
    BY <1>1, Zenon
  <2> QED
    BY <2>1, <2>2 DEF TypeOK
<1> QED
  BY <1>2, <1>3, Zenon

-----------------------------------------------------------------------------

(* What most steps have in common *)

\* Rows and copies go, accepted writes stay accepted.
Shrinks ==
    /\ \A f \in Flushers : batch'[f] \subseteq batch[f]
    /\ \A w \in Writes : enq[w] = "accepted" => enq'[w] = "accepted"
    /\ \A w \in Writes :
           \/ pending'[w] = None
           \/ /\ pending[w] # None /\ pending'[w].id = pending[w].id
              /\ pending'[w].attempts = pending[w].attempts
    /\ shared' = shared /\ torn \subseteq torn'

LEMMA ShrinksCopies ==
    ASSUME Inv, Shrinks
    PROVE  /\ OneCopy' /\ TrueCopy'
           /\ \A f \in Flushers : \A i \in batch'[f] : enq'[i.w] = "accepted"
           /\ \A w \in Writes : Nowhere(w) => Nowhere(w)'
<1>1. \A f \in Flushers : \A i \in batch'[f] : i \in batch[f] /\ i.w \in Writes
  BY DEF Shrinks, Inv, TypeOK, Items
<1>2. OneCopy'
  BY <1>1 DEF Shrinks, Inv, OneCopy
<1>3. TrueCopy'
  BY <1>1, Zenon DEF Shrinks, Inv, TrueCopy
<1>4. \A f \in Flushers : \A i \in batch'[f] : enq'[i.w] = "accepted"
  BY <1>1, Zenon DEF Shrinks, Inv, Accepted
<1>5. \A w \in Writes : Nowhere(w) => Nowhere(w)'
  BY <1>1, Zenon DEF Shrinks, Nowhere
<1> QED
  BY <1>2, <1>3, <1>4, <1>5, Zenon

\* Table dead does not change, a write that is acked is gone, and a flusher that
\* is to delete a row either still is, or has, or its write is torn.
LEMMA ShrinksMoved ==
    ASSUME Inv, Shrinks, UNCHANGED dead, acked' \subseteq Writes,
           \A w \in acked' \ acked :
               /\ pending'[w] = None
               /\ w \notin torn \cup shared => Nowhere(w)' /\ dead[w] = 0,
           \A f \in Flushers : pc[f] = "drop" =>
               \/ pc'[f] = "drop" /\ batch'[f] = batch[f]
               \/ \A w \in Writes : w = Item(f).w => Nowhere(w)' \/ w \in torn' \cup shared
    PROVE  Moved' /\ Sent'
<1>1. \A w \in Writes : Nowhere(w) => Nowhere(w)'
  BY ShrinksCopies, Zenon
<1>2. \A f \in Flushers : batch'[f] = batch[f] => Item(f)' = Item(f)
  BY Zenon DEF Item
<1>3. Moved'
  <2>1. ASSUME NEW w \in Writes, w \notin torn', w \notin shared', dead[w] > 0
        PROVE  Nowhere(w)' \/ \E f \in Flushers : pc'[f] = "drop" /\ Item(f)'.w = w
    <3>1. Nowhere(w) \/ \E f \in Flushers : pc[f] = "drop" /\ Item(f).w = w
      BY <2>1, Zenon DEF Inv, Moved, Shrinks
    <3>2. ASSUME NEW f \in Flushers, pc[f] = "drop", Item(f).w = w
          PROVE  Nowhere(w)' \/ \E g \in Flushers : pc'[g] = "drop" /\ Item(g)'.w = w
      <4>1. CASE pc'[f] = "drop" /\ batch'[f] = batch[f]
        BY <1>2, <3>2, <4>1, Zenon
      <4>2. CASE Nowhere(w)' \/ w \in torn' \cup shared
        BY <2>1, <4>2, Zenon DEF Shrinks
      <4> QED
        BY <3>2, <4>1, <4>2, Zenon
    <3> QED
      BY <1>1, <3>1, <3>2, Zenon
  <2> QED
    BY <2>1, Zenon DEF Moved
<1>4. Sent'
  BY <1>1, Zenon DEF Inv, Sent, Shrinks, TypeOK
<1> QED
  BY <1>3, <1>4, Zenon

\* What a flusher has in hand stays settled.
LEMMA SettledStays ==
    ASSUME Inv,
           \A w \in Writes : applied[w] > 0 => applied'[w] > 0,
           \A w \in Writes : dead[w] > 0 \/ w \in cleared => dead'[w] > 0 \/ w \in cleared',
           \A f \in Flushers : pc'[f] \in {"ack", "drop"} => pc'[f] = pc[f] /\ batch'[f] = batch[f]
    PROVE  Settled'
<1>1. ASSUME NEW f \in Flushers, pc'[f] \in {"ack", "drop"}
      PROVE  /\ pc'[f] = pc[f] /\ Item(f)' = Item(f) /\ Item(f).w \in Writes
  <2>1. pc'[f] = pc[f] /\ batch'[f] = batch[f]
    BY <1>1, Zenon
  <2>2. Item(f)' = Item(f)
    BY <2>1, Zenon DEF Item
  <2>3. pc[f] \notin {"idle", "loop"}
    BY <1>1, <2>1, Zenon
  <2> QED
    BY <2>1, <2>2, <2>3, ItemInBatch, Zenon DEF Inv
<1> QED
  BY <1>1 DEF Inv, Settled

\* No write that is nowhere comes back.
LEMMA OnceStays ==
    ASSUME Inv, UNCHANGED <<key, applied, late>>,
           \A w \in Writes : enq[w] = "accepted" /\ Nowhere(w) => Nowhere(w)'
    PROVE  OncePerKey'
<1>1. ASSUME NEW w \in Writes PROVE applied[w] > 0 => enq[w] = "accepted"
  BY Zenon DEF Inv, Accepted
<1> QED
  BY <1>1, Zenon DEF Inv, OncePerKey

\* Nobody new comes in.
LEMMA RoomShrinks ==
    ASSUME TypeOK, Room, UNCHANGED enq, Queued' \subseteq Queued
    PROVE  Room'
<1>1. Counted' = Counted
  BY Zenon DEF Counted
<1>2. IsFiniteSet(Queued) /\ IsFiniteSet(Counted)
  BY SizeAssumption, FS_Subset, Zenon DEF Queued, Counted
<1>3. Cardinality(Queued') <= Cardinality(Queued) /\ Cardinality(Queued') \in Nat
  BY <1>2, FS_Subset, FS_CardinalityType, Zenon
<1>4. Cardinality(Queued) \in Nat /\ Cardinality(Counted) \in Nat
  BY <1>2, FS_CardinalityType, Zenon
<1> QED
  BY <1>1, <1>3, <1>4, SizeAssumption DEF Room

-----------------------------------------------------------------------------

(* The steps *)

\* SELECT count(*): one more producer holds a place, and there is one.
LEMMA CountInv ==
    ASSUME Inv, NEW w \in Writes, Count(w)
    PROVE  Inv'
<1> USE DEF Inv
<1>1. UNCHANGED <<pending, dead, lastId, flusher, gateway, history>>
  BY Zenon DEF Count
<1>2. UNCHANGED <<pc, batch, tries, err, key, applied, acked, cleared, torn, shared, late, crashes,
                  lapses>>
  BY <1>1, Zenon DEF flusher, gateway, history
<1>3. /\ enq[w] = "new" /\ enq'[w] \in {"refused", "counted"}
      /\ enq' \in [Writes -> {"new", "counted", "refused", "accepted"}]
      /\ \A v \in Writes \ {w} : enq'[v] = enq[v]
  BY Zenon DEF Count, TypeOK
<1>4. TypeOK'
  BY <1>1, <1>2, <1>3, Zenon DEF TypeOK
<1>5. Shrinks
  BY <1>1, <1>2, <1>3, Zenon DEF Shrinks
<1>6. OneCopy' /\ TrueCopy' /\ Accepted'
  BY <1>1, <1>2, <1>3, <1>5, ShrinksCopies, Zenon DEF Accepted
<1>7. Moved' /\ Sent'
  BY <1>1, <1>2, <1>4, <1>5, ShrinksMoved, Zenon DEF TypeOK
<1>8. Settled'
  BY <1>1, <1>2, SettledStays, Zenon
<1>9. OncePerKey' /\ NoWriteLost'
  BY <1>1, <1>2, <1>3, <1>5, ShrinksCopies, OnceStays, Zenon DEF NoWriteLost, Queued
<1>10. Room'
  <2>1. Queued' = Queued
    BY <1>1, Zenon DEF Queued
  <2>2. IsFiniteSet(Queued) /\ IsFiniteSet(Counted)
    BY SizeAssumption, FS_Subset, Zenon DEF Queued, Counted
  <2>3. Cardinality(Queued) \in Nat /\ Cardinality(Counted) \in Nat
    BY <2>2, FS_CardinalityType, Zenon
  <2>4. CASE enq'[w] = "refused"
    <3>1. Counted' = Counted
      BY <1>3, <2>4, Zenon DEF Counted
    <3> QED
      BY <2>1, <3>1, Zenon DEF Room
  <2>5. CASE enq'[w] = "counted"
    <3>1. Counted' = Counted \cup {w} /\ w \notin Counted
      BY <1>3, <2>5, Zenon DEF Counted
    <3>2. Cardinality(Counted') = Cardinality(Counted) + 1
      BY <2>2, <3>1, FS_AddElement, Zenon
    <3>3. ~(Cardinality(Queued) >= MaxSize) /\ Cardinality(Counted) < Producers
      BY <2>5, Zenon DEF Count, Counted, TypeOK
    <3>4. MaxSize \in Nat /\ Producers \in Nat
      BY SizeAssumption, Zenon
    <3> QED
      BY <2>1, <2>3, <3>2, <3>3, <3>4 DEF Room
  <2> QED
    BY <1>3, <2>4, <2>5, Zenon
<1> QED
  BY <1>4, <1>6, <1>7, <1>8, <1>9, <1>10, Zenon

\* The INSERT takes the place that was counted.
LEMMA InsertInv ==
    ASSUME Inv, NEW w \in Writes, Insert(w)
    PROVE  Inv'
<1> USE DEF Inv
<1>1. /\ UNCHANGED dead /\ enq[w] = "counted" /\ lastId' = lastId + 1
      /\ UNCHANGED <<pc, batch, tries, err, key, applied, acked, cleared, torn, shared, late, crashes,
                  lapses>>
  BY Zenon DEF Insert, flusher, gateway, history
<1> DEFINE row == [id |-> lastId + 1, attempts |-> 0, due |-> TRUE]
<1>2. row \in Rows /\ row # None
  <2>1. lastId + 1 \in Nat \ {0} /\ 0 \in Nat
    BY DEF TypeOK
  <2>2. row \in Rows
    BY <2>1, Zenon DEF Rows
  <2> QED
    BY <2>2, SizeAssumption, Zenon
<1>3. pending' = [pending EXCEPT ![w] = row] /\ enq' = [enq EXCEPT ![w] = "accepted"]
  BY Zenon DEF Insert
<1> HIDE DEF row
<1>4. TypeOK'
  <2>1. QueueTypes'
    BY <1>1, <1>2, <1>3, TypeParts DEF QueueTypes
  <2>2. FlusherTypes' /\ GatewayTypes' /\ HistoryTypes'
    BY <1>1, TypeParts, Zenon DEF FlusherTypes, GatewayTypes, HistoryTypes
  <2> QED
    BY <2>1, <2>2, TypePartsNext, Zenon
<1>5. /\ pending'[w] = row /\ \A v \in Writes \ {w} : pending'[v] = pending[v]
      /\ enq'[w] = "accepted" /\ \A v \in Writes \ {w} : enq'[v] = enq[v]
  BY <1>3, Zenon DEF TypeOK
<1>6. /\ pending[w] = None /\ dead[w] = 0 /\ w \notin acked
      /\ \A f \in Flushers : \A i \in batch[f] : i.w # w
  BY <1>1 DEF Accepted, TypeOK
<1>7. \A f \in Flushers : \A i \in batch[f] : i.w \in Writes
  BY DEF TypeOK, Items
<1>8. OneCopy'
  BY <1>1 DEF OneCopy
<1>9. TrueCopy'
  BY <1>1, <1>5, <1>6, <1>7 DEF TrueCopy
<1>10. Accepted'
  BY <1>1, <1>5, <1>7, Zenon DEF Accepted
<1>11. Settled'
  BY <1>1, SettledStays, Zenon
<1>12. \A v \in Writes \ {w} : Nowhere(v) => Nowhere(v)'
  BY <1>1, <1>5, Zenon DEF Nowhere
<1>13. \A f \in Flushers : Item(f)' = Item(f)
  BY <1>1, Zenon DEF Item
<1>14. Moved' /\ Sent'
  <2>1. acked \subseteq Writes /\ ~(dead[w] > 0)
    BY <1>6 DEF TypeOK
  <2>2. Moved'
    BY <1>1, <1>12, <1>13, <2>1 DEF Moved
  <2>3. Sent'
    BY <1>1, <1>5, <1>6, <1>12, <2>1, Zenon DEF Sent
  <2> QED
    BY <2>2, <2>3, Zenon
<1>15. OncePerKey' /\ NoWriteLost'
  BY <1>1, <1>2, <1>5, <1>12, OnceStays, Zenon DEF NoWriteLost, Queued
<1>16. Room'
  <2>1. IsFiniteSet(Queued) /\ IsFiniteSet(Counted)
    BY SizeAssumption, FS_Subset, Zenon DEF Queued, Counted
  <2>2. Cardinality(Queued) \in Nat /\ Cardinality(Counted) \in Nat
    BY <2>1, FS_CardinalityType, Zenon
  <2>3. Queued' = Queued \cup {w} /\ w \notin Queued
    BY <1>2, <1>5, <1>6 DEF Queued
  <2>4. Counted' = Counted \ {w} /\ w \in Counted
    BY <1>1, <1>5, Zenon DEF Counted
  <2>5. Cardinality(Queued') = Cardinality(Queued) + 1
    BY <2>1, <2>3, FS_AddElement, Zenon
  <2>6. Cardinality(Counted') = Cardinality(Counted) - 1
    BY <2>1, <2>4, FS_RemoveElement, Zenon
  <2> QED
    BY <2>2, <2>5, <2>6, SizeAssumption DEF Room
<1> QED
  BY <1>4, <1>8, <1>9, <1>10, <1>11, <1>14, <1>15, <1>16, Zenon

\* A row comes due.
LEMMA WakeInv ==
    ASSUME Inv, NEW w \in Writes, Wake(w)
    PROVE  Inv'
<1> USE DEF Inv
<1>1. /\ UNCHANGED <<dead, lastId, enq>>
      /\ UNCHANGED <<pc, batch, tries, err, key, applied, acked, cleared, torn, shared, late, crashes,
                  lapses>>
  BY Zenon DEF Wake, flusher, gateway, history
<1>2. pending[w] \in Rows /\ pending[w] # None
  BY Zenon DEF Wake, Queued, TypeOK
<1> DEFINE row == [pending[w] EXCEPT !.due = TRUE]
<1>3. row \in Rows /\ row.id = pending[w].id /\ row.attempts = pending[w].attempts
  BY <1>2, Zenon DEF Rows
<1>4. pending' = [pending EXCEPT ![w] = row]
  BY Zenon DEF Wake
<1>5. row # None
  BY <1>3, SizeAssumption, Zenon
<1> HIDE DEF row
<1>6. pending'[w] = row /\ \A v \in Writes \ {w} : pending'[v] = pending[v]
  BY <1>4, Zenon DEF TypeOK
<1>7. TypeOK'
  <2>1. QueueTypes'
    BY <1>1, <1>3, <1>4, TypeParts, Zenon DEF QueueTypes
  <2>2. FlusherTypes' /\ GatewayTypes' /\ HistoryTypes'
    BY <1>1, TypeParts, Zenon DEF FlusherTypes, GatewayTypes, HistoryTypes
  <2> QED
    BY <2>1, <2>2, TypePartsNext, Zenon
<1>8. Shrinks
  BY <1>1, <1>2, <1>3, <1>6, Zenon DEF Shrinks
<1>9. OneCopy' /\ TrueCopy' /\ Accepted'
  BY <1>1, <1>2, <1>6, <1>8, ShrinksCopies, Zenon DEF Accepted
<1>10. Moved' /\ Sent'
  BY <1>1, <1>7, <1>8, ShrinksMoved, Zenon DEF TypeOK
<1>11. Settled'
  BY <1>1, SettledStays, Zenon
<1>12. Queued' = Queued
  BY <1>2, <1>5, <1>6, Zenon DEF Queued
<1>13. OncePerKey' /\ NoWriteLost'
  BY <1>1, <1>8, <1>12, ShrinksCopies, OnceStays, Zenon DEF NoWriteLost
<1>14. Room'
  BY <1>1, <1>12, RoomShrinks, Zenon
<1> QED
  BY <1>7, <1>9, <1>10, <1>11, <1>13, <1>14, Zenon

\* The gateway runs what has no answer yet, if it was asked to.
Asked(w) ==
    \/ UNCHANGED gateway
    \/ /\ key[w] = "running" \/ (key[w] = "none" /\ ~Nowhere(w))
       /\ \E end \in Ends : Run(w, end)
    \/ /\ key[w] = "none" /\ ~Nowhere(w)
       /\ key' = [key EXCEPT ![w] = "running"]
       /\ UNCHANGED applied

LEMMA GatewayStep ==
    ASSUME GatewayTypes, OncePerKey, NEW w \in Writes, UNCHANGED <<pending, batch, late>>,
           Asked(w)
    PROVE  /\ GatewayTypes' /\ OncePerKey'
           /\ \A v \in Writes : applied[v] > 0 => applied'[v] > 0
           /\ \A v \in Writes \ {w} : key'[v] = key[v] /\ applied'[v] = applied[v]
<1>1. \A v \in Writes : Nowhere(v)' <=> Nowhere(v)
  BY Zenon DEF Nowhere
<1>2. CASE UNCHANGED gateway
  BY <1>1, <1>2, Zenon DEF GatewayTypes, OncePerKey, gateway
<1>3. ASSUME NEW k \in {"running"} \cup Ends, key' = [key EXCEPT ![w] = k],
             \/ applied' = [applied EXCEPT ![w] = @ + 1]
             \/ k # "done" /\ UNCHANGED applied,
             k = "running" => UNCHANGED applied /\ key[w] = "none",
             key[w] = "running" \/ (key[w] = "none" /\ ~Nowhere(w))
      PROVE  /\ GatewayTypes' /\ OncePerKey'
             /\ \A v \in Writes : applied[v] > 0 => applied'[v] > 0
             /\ \A v \in Writes \ {w} : key'[v] = key[v] /\ applied'[v] = applied[v]
  <2>1. /\ key'[w] = k /\ \A v \in Writes \ {w} : key'[v] = key[v] /\ applied'[v] = applied[v]
        /\ GatewayTypes'
    BY <1>3 DEF GatewayTypes
  <2>2. applied[w] \in Nat
    BY Zenon DEF GatewayTypes
  <2>3. \/ applied'[w] = applied[w] + 1 /\ k # "running"
        \/ applied'[w] = applied[w] /\ k # "done"
    BY <1>3 DEF GatewayTypes, Ends
  <2>4. \A v \in Writes : applied[v] > 0 => applied'[v] > 0
    BY <2>1, <2>2, <2>3
  <2>5. w \notin late => applied[w] = 0
    BY <1>3, <2>2 DEF OncePerKey
  <2>6. /\ k = "done" => applied'[w] > 0
        /\ w \notin late => applied'[w] <= 1 /\ (k = "running" => applied'[w] = 0)
        /\ k # "none"
    BY <2>2, <2>3, <2>5 DEF Ends
  <2>7. OncePerKey'
    BY <1>1, <2>1, <2>6, Zenon DEF OncePerKey
  <2> QED
    BY <2>1, <2>4, <2>7, Zenon
<1>4. CASE \E end \in Ends : Run(w, end) /\ (key[w] = "running" \/ (key[w] = "none" /\ ~Nowhere(w)))
  <2>1. PICK end \in Ends : Run(w, end) /\ (key[w] = "running" \/ (key[w] = "none" /\ ~Nowhere(w)))
    BY <1>4, Zenon
  <2>2. /\ end \in {"running"} \cup Ends /\ end # "running" /\ key' = [key EXCEPT ![w] = end]
        /\ \/ applied' = [applied EXCEPT ![w] = @ + 1]
           \/ end # "done" /\ UNCHANGED applied
    BY <2>1, Zenon DEF Run, Ends
  <2> QED
    BY <1>3, <2>1, <2>2, Zenon
<1>5. CASE /\ key[w] = "none" /\ ~Nowhere(w)
           /\ key' = [key EXCEPT ![w] = "running"] /\ UNCHANGED applied
  BY <1>3, <1>5, Zenon
<1> QED
  BY <1>2, <1>4, <1>5, Zenon DEF Asked

\* Steps of the gateway, and of a flusher that waits for it.
LEMMA PostInv ==
    ASSUME Inv, UNCHANGED <<queue, batch, acked, cleared, torn, shared>>,
           FlusherTypes', GatewayTypes', HistoryTypes', OncePerKey',
           \A v \in Writes : applied[v] > 0 => applied'[v] > 0,
           \A v \in Writes : key'[v] # "none" \/ applied'[v] > 0 => enq[v] = "accepted",
           \A f \in Flushers : pc[f] = "drop" <=> pc'[f] = "drop",
           \A f \in Flushers : pc'[f] = "ack" => applied'[Item(f).w] > 0
    PROVE  Inv'
<1> USE DEF Inv
<1>1. UNCHANGED <<pending, dead, lastId, enq, batch, acked, cleared, torn, shared>>
  BY Zenon DEF queue
<1>2. TypeOK'
  <2>1. QueueTypes'
    BY <1>1, TypeParts, SMTT(30) DEF QueueTypes
  <2> QED
    BY <2>1, TypePartsNext, Zenon
<1>3. Shrinks
  BY <1>1, Zenon DEF Shrinks
<1>4. OneCopy' /\ TrueCopy' /\ Accepted'
  BY <1>1, <1>3, ShrinksCopies, Zenon DEF Accepted
<1>5. Moved' /\ Sent'
  BY <1>1, <1>2, <1>3, ShrinksMoved, Zenon DEF TypeOK
<1>6. \A f \in Flushers : Item(f)' = Item(f)
  BY <1>1, SMTT(30) DEF Item
<1>7. Settled'
  BY <1>1, <1>6, Zenon DEF Settled
<1>8. Queued' = Queued
  BY <1>1, Zenon DEF Queued
<1>9. Room'
  BY <1>1, <1>8, RoomShrinks, Zenon
<1>10. NoWriteLost'
  BY <1>1, <1>8, Zenon DEF NoWriteLost
<1> QED
  BY <1>2, <1>4, <1>5, <1>7, <1>9, <1>10, Zenon

\* What is executed stays executed.
LEMMA AckStays ==
    ASSUME Inv, \A v \in Writes : applied[v] > 0 => applied'[v] > 0,
           NEW f \in Flushers, pc[f] = "ack"
    PROVE  applied'[Item(f).w] > 0
<1>1. Item(f).w \in Writes /\ applied[Item(f).w] > 0
  BY ItemInBatch, Zenon DEF Inv, Settled
<1> QED
  BY <1>1, Zenon

LEMMA FinishInv ==
    ASSUME Inv, NEW w \in Writes, Finish(w)
    PROVE  Inv'
<1>1. /\ UNCHANGED <<queue, history, pc, batch, tries, err>>
      /\ UNCHANGED <<pending, enq, acked, cleared, torn, shared, late, crashes, lapses>>
  BY Zenon DEF Finish, flusher, history, queue
<1>2. /\ GatewayTypes' /\ OncePerKey'
      /\ \A v \in Writes : applied[v] > 0 => applied'[v] > 0
      /\ \A v \in Writes \ {w} : key'[v] = key[v] /\ applied'[v] = applied[v]
  BY <1>1, GatewayStep, TypeParts, Zenon DEF Inv, Finish, Asked
<1>3. FlusherTypes' /\ HistoryTypes'
  BY <1>1, TypeParts, Zenon DEF Inv, FlusherTypes, HistoryTypes
<1>4. \A f \in Flushers : pc'[f] = "ack" => applied'[Item(f).w] > 0
  BY <1>1, <1>2, AckStays, Zenon
<1>5. \A v \in Writes : key'[v] # "none" \/ applied'[v] > 0 => enq[v] = "accepted"
  <2>1. key[w] = "running"
    BY Zenon DEF Finish
  <2> QED
    BY <1>2, <2>1, Zenon DEF Inv, Accepted
<1> QED
  BY <1>1, <1>2, <1>3, <1>4, <1>5, PostInv, Zenon

\* A key lapses: the write is late, or nobody has it any more.
LEMMA LapseInv ==
    ASSUME Inv, NEW w \in Writes, Lapse(w)
    PROVE  Inv'
<1>1. /\ UNCHANGED <<queue, pending, enq, pc, batch, tries, err, applied>>
      /\ UNCHANGED <<acked, cleared, torn, shared, crashes>>
  BY Zenon DEF Lapse, flusher, queue
<1>2. /\ key[w] \in Ends /\ lapses < MaxLapses /\ lapses' = lapses + 1
      /\ key' = [key EXCEPT ![w] = "none"]
      /\ late' = IF w \in Queued \ acked \/ Held(w) THEN late \cup {w} ELSE late
  BY Zenon DEF Lapse
<1>3. key' \in [Writes -> {"none", "running"} \cup Ends]
  BY <1>2, TypeParts, Zenon DEF Inv, GatewayTypes
<1>4. key'[w] = "none" /\ \A v \in Writes \ {w} : key'[v] = key[v]
  BY <1>2, TypeParts, Zenon DEF Inv, GatewayTypes
<1>5. lapses' \in 0..MaxLapses
  BY <1>2, TypeParts, SizeAssumption DEF Inv, HistoryTypes
<1>6. FlusherTypes' /\ GatewayTypes' /\ HistoryTypes'
  <2>1. late' \subseteq Writes
    BY <1>2, TypeParts, Zenon DEF Inv, HistoryTypes
  <2> QED
    BY <1>1, <1>3, <1>5, <2>1, TypeParts, Zenon
       DEF Inv, FlusherTypes, GatewayTypes, HistoryTypes
<1>7. \A v \in Writes : Nowhere(v)' <=> Nowhere(v)
  BY <1>1, Zenon DEF Nowhere
<1>8. w \notin late' => Nowhere(w)
  <2>1. w \in acked => pending[w] = None
    BY Zenon DEF Inv, Sent
  <2> QED
    BY <1>2, <2>1, Zenon DEF Nowhere, Held, Queued
<1>9. OncePerKey'
  <2>1. late \subseteq late' /\ \A v \in Writes \ {w} : v \in late' => v \in late
    BY <1>2, Zenon
  <2> QED
    BY <1>1, <1>4, <1>7, <1>8, <2>1, Zenon DEF Inv, OncePerKey
<1>10. \A v \in Writes : key'[v] # "none" \/ applied'[v] > 0 => enq[v] = "accepted"
  BY <1>1, <1>4, Zenon DEF Inv, Accepted
<1>11. \A f \in Flushers : pc'[f] = "ack" => applied'[Item(f).w] > 0
  BY <1>1, AckStays, Zenon
<1> QED
  BY <1>1, <1>6, <1>9, <1>10, <1>11, PostInv, Zenon

\* One try: only an answer that is ok leads to the ack.
LEMMA SendInv ==
    ASSUME Inv, NEW f \in Flushers, Send(f)
    PROVE  Inv'
<1> DEFINE w == Item(f).w
<1>1. /\ UNCHANGED <<queue, batch, history>> /\ pc[f] = "send"
      /\ UNCHANGED <<pending, enq, acked, cleared, torn, shared, late, crashes, lapses>>
  BY Zenon DEF Send, queue, history
<1>2. w \in Writes /\ ~Nowhere(w) /\ enq[w] = "accepted"
  <2>1. Item(f) \in batch[f] /\ w \in Writes
    BY <1>1, ItemInBatch, Zenon DEF Inv
  <2> QED
    BY <2>1, Zenon DEF Inv, Accepted, Nowhere
<1>3. PICK seen \in {"ok"} \cup Errors :
         /\ Post(w, seen)
         /\ IF seen \in {"network", "server"} /\ tries[f] + 1 < MaxTries
            THEN /\ tries' = [tries EXCEPT ![f] = @ + 1]
                 /\ UNCHANGED <<pc, err>>
            ELSE /\ tries' = [tries EXCEPT ![f] = 0]
                 /\ err' = [err EXCEPT ![f] = IF seen = "network" THEN seen ELSE "none"]
                 /\ Goto(f, CASE seen = "ok" -> "ack"
                              [] seen = "network" -> "fail"
                              [] OTHER -> "move")
  BY Zenon DEF Send
<1> HIDE DEF w
<1>4. /\ GatewayTypes' /\ OncePerKey'
      /\ \A v \in Writes : applied[v] > 0 => applied'[v] > 0
      /\ \A v \in Writes \ {w} : key'[v] = key[v] /\ applied'[v] = applied[v]
  <2>1. GatewayTypes /\ OncePerKey
    BY TypeParts, Zenon DEF Inv
  <2>2. Asked(w)
    BY <1>2, <1>3, SMTT(30) DEF Post, Asked, Ends
  <2> QED
    BY <1>1, <1>2, <2>1, <2>2, GatewayStep, Zenon
<1>5. seen = "ok" => applied'[w] > 0
  <2>1. applied \in [Writes -> Nat] /\ (key[w] = "done" => applied[w] > 0)
    BY <1>2, TypeParts, Zenon DEF Inv, GatewayTypes, OncePerKey
  <2> QED
    BY <1>2, <1>3, <2>1, SMTT(30) DEF Post, Run, gateway, Errors
<1>6. /\ pc' \in [Flushers -> {"idle", "loop", "send", "ack", "fail", "move", "drop"}]
      /\ pc'[f] \in {"send", "ack", "fail", "move"} /\ (pc'[f] = "ack" => seen = "ok")
      /\ \A g \in Flushers \ {f} : pc'[g] = pc[g]
  <2>1. CASE UNCHANGED pc
    BY <1>1, <2>1, Zenon DEF Inv, TypeOK
  <2>2. ASSUME NEW l \in {"ack", "fail", "move"}, Goto(f, l), l = "ack" => seen = "ok"
        PROVE  /\ pc' \in [Flushers -> {"idle", "loop", "send", "ack", "fail", "move", "drop"}]
               /\ pc'[f] \in {"send", "ack", "fail", "move"} /\ (pc'[f] = "ack" => seen = "ok")
               /\ \A g \in Flushers \ {f} : pc'[g] = pc[g]
    BY <2>2, Zenon DEF Inv, TypeOK, Goto
  <2>3. \/ UNCHANGED pc
        \/ seen = "ok" /\ Goto(f, "ack")
        \/ Goto(f, "fail") \/ Goto(f, "move")
    BY <1>3, Zenon DEF Errors
  <2> QED
    BY <2>1, <2>2, <2>3, Zenon
<1>7. FlusherTypes'
  <2>1. tries' \in [Flushers -> 0..(MaxTries - 1)]
    <3>1. MaxTries \in Nat \ {0} /\ tries \in [Flushers -> 0..(MaxTries - 1)]
      BY SizeAssumption, Zenon DEF Inv, TypeOK
    <3> QED
      BY <1>3, <3>1
  <2>2. err' \in [Flushers -> {"none", "network"}]
    BY <1>3, Zenon DEF Inv, TypeOK
  <2>3. \A g \in Flushers : (batch'[g] = {}) <=> (pc'[g] \in {"idle", "loop"})
    BY <1>1, <1>6, Zenon DEF Inv, TypeOK
  <2> QED
    BY <1>1, <1>6, <2>1, <2>2, <2>3, TypeParts, Zenon DEF Inv, FlusherTypes
<1>8. ASSUME NEW g \in Flushers, pc'[g] = "ack" PROVE applied'[Item(g).w] > 0
  <2>1. CASE g = f
    BY <1>5, <1>6, <1>8, <2>1, Zenon DEF w
  <2>2. CASE g # f
    <3>1. pc[g] = "ack"
      BY <1>6, <1>8, <2>2, Zenon
    <3> QED
      BY <1>4, <3>1, AckStays, Zenon
  <2> QED
    BY <2>1, <2>2, Zenon
<1>9. \A g \in Flushers : pc[g] = "drop" <=> pc'[g] = "drop"
  BY <1>1, <1>6, Zenon
<1>10. \A v \in Writes : key'[v] # "none" \/ applied'[v] > 0 => enq[v] = "accepted"
  BY <1>2, <1>4, Zenon DEF Inv, Accepted
<1>11. HistoryTypes'
  BY <1>1, TypeParts, Zenon DEF Inv, HistoryTypes
<1> QED
  BY <1>1, <1>4, <1>7, <1>8, <1>9, <1>10, <1>11, PostInv, Zenon

\* next_due: a copy that another flusher has too makes the write a shared one.
LEMMA FetchInv ==
    ASSUME Inv, NEW f \in Flushers, Fetch(f)
    PROVE  Inv'
<1> USE DEF Inv
<1>1. /\ UNCHANGED <<pending, dead, lastId, enq, tries, err, key, applied, acked, cleared, torn, late,
                   crashes, lapses>>
      /\ pc[f] \in {"idle", "loop"} /\ batch[f] = {}
  BY Zenon DEF Fetch, queue, gateway, TypeOK
<1>2. /\ NextDue \in SUBSET Items
      /\ NextDue = {} <=> Due = {}
      /\ \A i \in NextDue : /\ i.w \in Writes /\ pending[i.w] # None
                            /\ i = [w |-> i.w, id |-> pending[i.w].id,
                                    attempts |-> pending[i.w].attempts]
  BY NextDueItems, Zenon
<1>3. \A i \in NextDue : i.id = pending[i.w].id /\ i.attempts = pending[i.w].attempts
  BY <1>2
<1>4. /\ batch' = [batch EXCEPT ![f] = NextDue]
      /\ batch'[f] = NextDue /\ \A g \in Flushers \ {f} : batch'[g] = batch[g]
  BY Zenon DEF Fetch, TypeOK
<1>5. /\ pc'[f] = (IF Due = {} THEN "idle" ELSE "send") /\ \A g \in Flushers \ {f} : pc'[g] = pc[g]
      /\ pc' \in [Flushers -> {"idle", "loop", "send", "ack", "fail", "move", "drop"}]
  <2>1. pc' = [pc EXCEPT ![f] = IF Due = {} THEN "idle" ELSE "send"]
    BY Zenon DEF Fetch, Goto
  <2> QED
    BY <2>1, Zenon DEF TypeOK
<1>6. shared' = shared \cup {i.w : i \in NextDue \cap UNION {batch[g] : g \in Flushers \ {f}}}
  BY Zenon DEF Fetch
<1> HIDE DEF NextDue, Due
<1>7. shared' \subseteq Writes /\ shared \subseteq shared'
  BY <1>2, <1>6 DEF TypeOK
<1>8. TypeOK'
  <2>1. batch' \in [Flushers -> SUBSET Items]
    BY <1>2, <1>4, Zenon DEF TypeOK
  <2>2. \A g \in Flushers : (batch'[g] = {}) <=> (pc'[g] \in {"idle", "loop"})
    BY <1>2, <1>4, <1>5, Zenon DEF TypeOK
  <2>3. FlusherTypes'
    BY <1>1, <1>5, <2>1, <2>2, TypeParts, Zenon DEF FlusherTypes
  <2>4. QueueTypes' /\ GatewayTypes' /\ HistoryTypes'
    BY <1>1, <1>7, TypeParts, Zenon DEF QueueTypes, GatewayTypes, HistoryTypes
  <2> QED
    BY <2>3, <2>4, TypePartsNext, Zenon
<1>9. ASSUME NEW g \in Flushers \ {f}, NEW i \in NextDue, NEW j \in batch[g], i.w = j.w, i.w \notin shared'
      PROVE  FALSE
  <2>1. j.id = pending[i.w].id /\ j.attempts = pending[i.w].attempts
    BY <1>2, <1>7, <1>9 DEF TrueCopy
  <2>2. j \in Items
    BY Zenon DEF TypeOK
  <2>3. j = [w |-> j.w, id |-> j.id, attempts |-> j.attempts]
    BY <2>2, Zenon DEF Items
  <2>4. i = j
    BY <1>2, <1>9, <2>1, <2>3, Zenon
  <2> QED
    BY <1>6, <1>9, <2>4, Zenon
<1>10. OneCopy'
  <2>1. ASSUME NEW g \in Flushers, NEW h \in Flushers, NEW i \in batch'[g], NEW j \in batch'[h],
               i.w = j.w, i.w \notin shared'
        PROVE  g = h /\ i = j
    <3>1. CASE g # f /\ h # f
      BY <1>4, <1>7, <2>1, <3>1 DEF OneCopy
    <3>2. CASE g = f /\ h = f
      BY <1>2, <1>4, <2>1, <3>2
    <3>3. CASE g = f /\ h # f
      BY <1>4, <1>9, <2>1, <3>3, Zenon
    <3>4. CASE g # f /\ h = f
      BY <1>4, <1>9, <2>1, <3>4, Zenon
    <3> QED
      BY <3>1, <3>2, <3>3, <3>4, Zenon
  <2> QED
    BY <2>1 DEF OneCopy
<1>11. TrueCopy'
  BY <1>1, <1>3, <1>4, <1>7 DEF TrueCopy
<1>12. Accepted'
  BY <1>1, <1>2, <1>4, SMTT(30) DEF Accepted
<1>13. Settled'
  BY <1>1, <1>4, <1>5, SettledStays, Zenon
<1>14. \A w \in Writes : Nowhere(w) => Nowhere(w)'
  BY <1>1, <1>2, <1>4, Zenon DEF Nowhere
<1>15. Sent'
  BY <1>1, <1>7, <1>14, SMTT(30) DEF Sent, TypeOK
<1>16. \A g \in Flushers : pc[g] = "drop" => pc'[g] = "drop" /\ Item(g)' = Item(g)
  BY <1>1, <1>4, <1>5, Zenon DEF Item
<1>17. Moved'
  BY <1>1, <1>7, <1>14, <1>16, SMT, SMTT(30) DEF Moved
<1>18. Queued' = Queued
  BY <1>1, Zenon DEF Queued
<1>19. Room'
  BY <1>1, <1>18, RoomShrinks, Zenon
<1>20. OncePerKey' /\ NoWriteLost'
  BY <1>1, <1>14, <1>18, OnceStays, Zenon DEF NoWriteLost
<1> QED
  BY <1>8, <1>10, <1>11, <1>12, <1>13, <1>15, <1>17, <1>19, <1>20, Zenon

=============================================================================
