----------------------------- MODULE RetryQueue -----------------------------
(***************************************************************************)
(* The offline queue of the Python client (agentcoopdb/queue.py), flushed  *)
(* through AgentCoopDBClient.execute and with_retry (client.py, retry.py). *)
(*                                                                         *)
(* Every SQLite statement is a step of its own, as the connections are in  *)
(* autocommit mode, and stays once made: processes stop, the machine does  *)
(* not.  The gateway is modelled by what its idempotency layer promises    *)
(* (module Idempotency): a key is executed once and then replayed, until   *)
(* its row is 24 h old.                                                    *)
(***************************************************************************)
EXTENDS Naturals, FiniteSets

CONSTANTS
    Writes,       \* the writes, each with an idempotency key of its own
    Flushers,     \* threads that call Queue.flush
    Producers,    \* how many threads call Queue.enqueue at a time
    None,         \* no row
    MaxSize,      \* Queue.max_size
    BatchLimit,   \* the limit of next_due
    MaxAttempts,  \* Queue.MAX_ATTEMPTS
    MaxTries,     \* max_attempts of with_retry
    MaxCrashes,   \* bound on the crashes of flushing processes
    MaxLapses     \* bound on the keys that lapse

Rows == [id : Nat \ {0}, attempts : Nat, due : BOOLEAN]

ASSUME SizeAssumption ==
    /\ {MaxSize, BatchLimit, MaxAttempts, MaxTries, Producers} \subseteq Nat \ {0}
    /\ MaxCrashes \in Nat /\ MaxLapses \in Nat
    /\ IsFiniteSet(Writes)
    /\ None \notin Rows

VARIABLES
    pending,   \* write -> row or None
    dead,      \* write -> number of rows in table dead
    lastId,    \* AUTOINCREMENT of pending
    enq,       \* write -> how far enqueue got
    pc, batch, tries, err,  \* each flusher: step, unsent items, tries, error
    key,       \* the gateway's idempotency row of each write
    applied,   \* how often the gateway has executed each write
    acked,     \* history: writes flush has reported as sent
    cleared,   \* history: writes removed by clear-dead
    torn,      \* history: a crash came between the two statements of a move
    shared,    \* history: two flushers had the write in their batches at once
    late,      \* history: the write was still to be sent when its key lapsed
    crashes, lapses

queue == <<pending, dead, lastId, enq>>
flusher == <<pc, batch, tries, err>>
gateway == <<key, applied>>
history == <<acked, cleared, torn, shared, late, crashes, lapses>>
vars == <<queue, flusher, gateway, history>>

Items == [w : Writes, id : Nat \ {0}, attempts : Nat]
\* NetworkError, ServerError or RateLimited, any other AgentCoopDBError.
Errors == {"network", "server", "permanent"}

Queued == {w \in Writes : pending[w] # None}
Oldest(items) == CHOOSE i \in items : \A j \in items : i.id <= j.id
Item(f) == Oldest(batch[f])
Goto(f, step) == pc' = [pc EXCEPT ![f] = step]

Init ==
    /\ pending = [w \in Writes |-> None]
    /\ dead = [w \in Writes |-> 0]
    /\ lastId = 0
    /\ enq = [w \in Writes |-> "new"]
    /\ pc = [f \in Flushers |-> "idle"]
    /\ batch = [f \in Flushers |-> {}]
    /\ tries = [f \in Flushers |-> 0]
    /\ err = [f \in Flushers |-> "none"]
    /\ key = [w \in Writes |-> "none"]
    /\ applied = [w \in Writes |-> 0]
    /\ acked = {} /\ cleared = {} /\ torn = {} /\ shared = {} /\ late = {}
    /\ crashes = 0 /\ lapses = 0

---------------------------------------------------------------------------
(* Queue.enqueue *)

\* Seeded fault: the bound is off by one.
CountOffByOne(w) ==
    /\ enq[w] = "new"
    /\ Cardinality({v \in Writes : enq[v] = "counted"}) < Producers
    /\ enq' = [enq EXCEPT ![w] = IF Cardinality(Queued) > MaxSize THEN "refused" ELSE "counted"]
    /\ UNCHANGED <<pending, dead, lastId, flusher, gateway, history>>

\* SELECT count(*); QueueFullError if the queue is full.
Count(w) ==
    /\ enq[w] = "new"
    /\ Cardinality({v \in Writes : enq[v] = "counted"}) < Producers
    /\ enq' = [enq EXCEPT ![w] = IF Cardinality(Queued) >= MaxSize THEN "refused" ELSE "counted"]
    /\ UNCHANGED <<pending, dead, lastId, flusher, gateway, history>>

\* INSERT INTO pending; the row is due at once.
Insert(w) ==
    /\ enq[w] = "counted"
    /\ enq' = [enq EXCEPT ![w] = "accepted"]
    /\ lastId' = lastId + 1
    /\ pending' = [pending EXCEPT ![w] = [id |-> lastId + 1, attempts |-> 0, due |-> TRUE]]
    /\ UNCHANGED <<dead, flusher, gateway, history>>

---------------------------------------------------------------------------
(* Queue.flush *)

\* What next_due returns: the oldest due rows.
Due ==
    {[w |-> w, id |-> pending[w].id, attempts |-> pending[w].attempts] :
        w \in {v \in Queued : pending[v].due}}
NextDue == {i \in Due : Cardinality({j \in Due : j.id < i.id}) < BatchLimit}

\* flush is called, or its loop comes round; it returns when nothing is due.
Fetch(f) ==
    /\ pc[f] \in {"idle", "loop"}
    /\ IF Due = {} THEN pc[f] = "loop" /\ Goto(f, "idle") ELSE Goto(f, "send")
    /\ batch' = [batch EXCEPT ![f] = NextDue]
    /\ shared' = shared \cup {i.w : i \in NextDue \cap UNION {batch[g] : g \in Flushers \ {f}}}
    /\ UNCHANGED <<queue, tries, err, gateway, acked, cleared, torn, late, crashes, lapses>>

\* What the gateway leaves behind when it is through with write w: its answer under
\* the key, or a key that is of no use ("failed"): with an error, or in progress for
\* good, since the process stopped or Complete failed.  The statement may have been
\* committed all the same: the answer to COMMIT was lost, the rows were too large
\* to be sent, or the key is what failed.
Ends == {"done", "failed"}
Run(w, end) ==
    /\ key' = [key EXCEPT ![w] = end]
    /\ \/ applied' = [applied EXCEPT ![w] = @ + 1]
       \/ end = "failed" /\ UNCHANGED applied

\* Seeded fault: a key that has failed may run again.
PostRetriesFailed(w, seen) ==
    \/ seen \in Errors /\ UNCHANGED gateway
    \/ /\ key[w] \in {"none", "failed"}
       /\ \/ Run(w, "done") /\ seen \in {"ok", "network"}
          \/ Run(w, "failed") /\ (seen \in Errors \/ applied'[w] > applied[w])
    \/ key[w] = "done" /\ seen = "ok" /\ UNCHANGED gateway

\* What one POST of write w does at the gateway, and what the client sees.
\* "running": the client's timeout expired first.  A 429, a 401 and an
\* unreachable gateway leave the key alone; so does a key that is running (500) or
\* has failed.
Post(w, seen) ==
    \/ /\ seen \in Errors
       /\ UNCHANGED gateway
    \/ /\ key[w] = "none"
       /\ \/ Run(w, "done") /\ seen \in {"ok", "network"}
          \/ Run(w, "failed") /\ (seen \in Errors \/ applied'[w] > applied[w])
    \/ /\ key[w] = "none"
       /\ key' = [key EXCEPT ![w] = "running"]
       /\ seen = "network"
       /\ UNCHANGED applied
    \/ /\ key[w] = "done"
       /\ seen = "ok"
       /\ UNCHANGED gateway

\* Seeded fault: a lost response counts as sent.
SendAndForget(f) ==
    /\ pc[f] = "send"
    /\ \E seen \in {"ok", "network"} : Post(Item(f).w, seen)
    /\ Goto(f, "ack")
    /\ UNCHANGED <<queue, batch, tries, err, history>>

\* One try of with_retry inside send(item).  Transient errors are tried again;
\* the last error of MaxTries is raised.  flush tells NetworkError from the
\* others.
Send(f) ==
    /\ pc[f] = "send"
    /\ \E seen \in {"ok"} \cup Errors :
         /\ Post(Item(f).w, seen)
         /\ IF seen \in {"network", "server"} /\ tries[f] + 1 < MaxTries
            THEN /\ tries' = [tries EXCEPT ![f] = @ + 1]
                 /\ UNCHANGED <<pc, err>>
            ELSE /\ tries' = [tries EXCEPT ![f] = 0]
                 /\ err' = [err EXCEPT ![f] = IF seen = "network" THEN seen ELSE "none"]
                 /\ Goto(f, CASE seen = "ok" -> "ack"
                              [] seen = "network" -> "fail"
                              [] OTHER -> "move")
    /\ UNCHANGED <<queue, batch, history>>

\* The item is dealt with; the next of the batch, or the next batch.
Advance(f) ==
    /\ batch' = [batch EXCEPT ![f] = @ \ {Item(f)}]
    /\ err' = [err EXCEPT ![f] = "none"]
    /\ Goto(f, IF batch[f] = {Item(f)} THEN "loop" ELSE "send")

\* flush returns after a network error (or its process stops).
Return(f) ==
    /\ batch' = [batch EXCEPT ![f] = {}]
    /\ err' = [err EXCEPT ![f] = "none"]
    /\ Goto(f, "idle")

DeletePending(w, id) ==
    pending' = [pending EXCEPT ![w] = IF @ # None /\ @.id = id THEN None ELSE @]

\* Queue.ack
Ack(f) ==
    /\ pc[f] = "ack"
    /\ DeletePending(Item(f).w, Item(f).id)
    /\ acked' = acked \cup {Item(f).w}
    /\ Advance(f)
    /\ UNCHANGED <<dead, lastId, enq, tries, gateway, cleared, torn, shared, late, crashes,
                   lapses>>

\* Seeded fault: after MAX_ATTEMPTS the row starts again.
FailRestart(f) ==
    LET i == Item(f) IN
    /\ pc[f] = "fail"
    /\ pending' = [pending EXCEPT ![i.w].attempts = (i.attempts + 1) % MaxAttempts]
    /\ Return(f)
    /\ UNCHANGED <<dead, lastId, enq, tries, gateway, history>>

\* Seeded fault: the attempt is not counted.
FailUncounted(f) ==
    /\ pc[f] = "fail"
    /\ Return(f)
    /\ UNCHANGED <<queue, tries, gateway, history>>

\* Queue.fail: the attempts come from the item as it was read.  The jittered
\* delay may be nothing.
Fail(f) ==
    LET i == Item(f) IN
    /\ pc[f] = "fail"
    /\ \/ /\ i.attempts + 1 >= MaxAttempts
          /\ Goto(f, "move")
          /\ UNCHANGED <<pending, batch, err>>
       \/ /\ i.attempts + 1 < MaxAttempts
          /\ \E due \in BOOLEAN :
               pending' = [pending EXCEPT ![i.w] =
                 IF @ # None /\ @.id = i.id
                 THEN [id |-> i.id, attempts |-> i.attempts + 1, due |-> due] ELSE @]
          /\ Return(f)
    /\ UNCHANGED <<dead, lastId, enq, tries, gateway, history>>

\* INSERT INTO dead, by fail or by flush itself.
Move(f) ==
    LET i == Item(f) IN
    /\ pc[f] = "move"
    /\ dead' = [dead EXCEPT ![i.w] = @ + 1]
    /\ Goto(f, "drop")
    /\ UNCHANGED <<pending, lastId, enq, batch, tries, err, gateway, history>>

\* Seeded fault: the row that was moved is not deleted.
DropKeepsRow(f) ==
    /\ pc[f] = "drop"
    /\ IF err[f] = "network" THEN Return(f) ELSE Advance(f)
    /\ UNCHANGED <<queue, tries, gateway, history>>

\* ... and DELETE FROM pending, the statement after it.
Drop(f) ==
    /\ pc[f] = "drop"
    /\ DeletePending(Item(f).w, Item(f).id)
    /\ IF err[f] = "network" THEN Return(f) ELSE Advance(f)
    /\ UNCHANGED <<dead, lastId, enq, tries, gateway, history>>

---------------------------------------------------------------------------
(* The environment *)

\* next_attempt_at is reached.
Wake(w) ==
    /\ w \in Queued /\ ~pending[w].due
    /\ pending' = [pending EXCEPT ![w].due = TRUE]
    /\ UNCHANGED <<dead, lastId, enq, flusher, gateway, history>>

\* The gateway finishes a request whose client has given up.
Finish(w) ==
    /\ key[w] = "running"
    /\ \E end \in Ends : Run(w, end)
    /\ UNCHANGED <<queue, flusher, history>>

\* Some flusher has a copy of the write, and may send it.
Held(w) == \E f \in Flushers : \E i \in batch[f] : i.w = w

\* The row of the key is 24 h old: the next request with it is a first one.
Lapse(w) ==
    /\ key[w] \in Ends
    /\ lapses < MaxLapses
    /\ lapses' = lapses + 1
    /\ key' = [key EXCEPT ![w] = "none"]
    /\ late' = IF w \in Queued \ acked \/ Held(w) THEN late \cup {w} ELSE late
    /\ UNCHANGED <<queue, flusher, applied, acked, cleared, torn, shared, crashes>>

\* agentic-coop-db queue clear-dead
ClearDead ==
    /\ \E w \in Writes : dead[w] > 0
    /\ dead' = [w \in Writes |-> 0]
    /\ cleared' = cleared \cup {w \in Writes : dead[w] > 0}
    /\ UNCHANGED <<pending, lastId, enq, flusher, gateway, acked, torn, shared, late, crashes,
                   lapses>>

\* The flushing process stops (or a SQLite error ends flush).
Crash(f) ==
    /\ pc[f] # "idle"
    /\ crashes < MaxCrashes
    /\ crashes' = crashes + 1
    /\ torn' = IF pc[f] = "drop" THEN torn \cup {Item(f).w} ELSE torn
    /\ Return(f)
    /\ tries' = [tries EXCEPT ![f] = 0]
    /\ UNCHANGED <<queue, gateway, acked, cleared, shared, late, lapses>>

Flush(f) ==
    Fetch(f) \/ Send(f) \/ Ack(f) \/ Fail(f) \/ Move(f) \/ Drop(f)

Next ==
    \/ \E w \in Writes : Count(w) \/ Insert(w) \/ Wake(w) \/ Finish(w) \/ Lapse(w)
    \/ \E f \in Flushers : Flush(f) \/ Crash(f)
    \/ ClearDead

Spec == Init /\ [][Next]_vars

\* flush is called again and again (a cron job or a sidecar), and goes on once
\* called; backoff ends; a gateway finishes what it runs.
Fairness ==
    /\ \A f \in Flushers : WF_vars(Flush(f))
    /\ \A w \in Writes : WF_vars(Wake(w)) /\ WF_vars(Finish(w))

FairSpec == Spec /\ Fairness

---------------------------------------------------------------------------
(* Properties *)

\* The shape of both tables, of the flushers and of the gateway's rows; a
\* flusher at work on an item has one.
TypeOK ==
    /\ pending \in [Writes -> Rows \cup {None}]
    /\ dead \in [Writes -> Nat]
    /\ lastId \in Nat
    /\ enq \in [Writes -> {"new", "counted", "refused", "accepted"}]
    /\ pc \in [Flushers -> {"idle", "loop", "send", "ack", "fail", "move", "drop"}]
    /\ batch \in [Flushers -> SUBSET Items]
    /\ \A f \in Flushers : (batch[f] = {}) <=> (pc[f] \in {"idle", "loop"})
    /\ tries \in [Flushers -> 0..(MaxTries - 1)]
    /\ err \in [Flushers -> {"none", "network"}]
    /\ key \in [Writes -> {"none", "running"} \cup Ends]
    /\ applied \in [Writes -> Nat]
    /\ {acked, cleared, torn, shared, late} \subseteq SUBSET Writes
    /\ crashes \in 0..MaxCrashes /\ lapses \in 0..MaxLapses

\* No accepted write disappears, whichever process stops and whoever flushes: it is
\* pending, in the dead letters (or was cleared from them), or reported as
\* sent, and then the gateway has executed it.
NoWriteLost ==
    \A w \in Writes : enq[w] = "accepted" =>
        \/ w \in Queued
        \/ dead[w] > 0 \/ w \in cleared
        \/ w \in acked /\ applied[w] > 0

\* However often a write is sent (tries, flushes, crashes before the ack, two
\* flushers) the gateway executes it once, also when what it did was answered with
\* an error, lost or not recorded; only a key that lapses with the write still in
\* the queue, or in a batch, lets it run again.  Once acked, or dead, it never does.
AppliedOnce == \A w \in Writes : applied[w] > 1 => w \in late

\* The queue never holds more than max_size rows, but for the threads that
\* counted before another one inserted.
SizeBound == Cardinality(Queued) <= MaxSize + Producers - 1

\* A write reported as sent is not in the dead letters, unless a crash came
\* between the INSERT and the DELETE of a move or two flushers had it at once.
AckedIsNotDead ==
    \A w \in acked : dead[w] > 0 => w \in torn \cup shared

\* The attempts of a row only grow, so that MAX_ATTEMPTS is reached; only a
\* flusher with a stale copy of the row can set them back.
AttemptsGrow ==
    [][\A w \in Writes \ shared :
        pending[w] # None /\ pending'[w] # None =>
            pending'[w].attempts >= pending[w].attempts]_vars

\* Every write leaves the queue: it is sent, or its attempts run out.
QueueDrains == \A w \in Writes : w \in Queued ~> w \notin Queued

=============================================================================
