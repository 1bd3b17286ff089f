# Verification of Agentic-Coop-DB

TLA+ models of the Agentic-Coop-DB gateway (Go, in front of PostgreSQL), of its
MCP tools and of its Python client. TLC checks them on small instances; TLAPS
proves the safety properties for all instances. All paths are
relative to `src/`; `PROJECT.json` names the lines each definition stands for,
the hazards, and the property that covers each.

## 1. The system and its modules

| Part | Module | Correct when |
|---|---|---|
| Idempotency layer and both write routes (`internal/rpc`, `internal/httpapi/api.go`, `internal/sql/executor.go`) | `Idempotency`, abstractly `Once` | one execution per key and window, a replay is of the same request, and what is answered, stored and audited agrees with what was committed |
| API keys, verify cache, rotation (`internal/auth`) | `KeyAuth` | revocation and expiry take effect in bounded time |
| Key commands and tokens (`internal/db/key*.go`, `internal/auth/key.go`) | `KeyMint` | a printed token works, a name is one workspace |
| Gateway process: pool, tenant settings, audit insert, purge, shutdown (`cmd/server`, `internal/tenant`, `internal/audit`) | `Serve` with `Config` | a statement runs with its own settings, nothing stays on a connection, requests and stops end |
| Boot and migrations (`cmd/server`, `cmd/migrate`, `internal/db/migrate.go`) | `Boot` | no migration skipped, ready means migrated, files can run again, restarts recover |
| Rate limiter (`internal/httpapi/middleware.go`) | `RateLimit` | burst and rate per window, keys independent |
| MCP tools and both back ends (`internal/mcp`, `cmd/server/direct_doer.go`) | `McpCalls` with `Validator` | a keyed retry commits once, success and audit rows are true, every call is answered |
| Client queue (`clients/python/.../queue.py`, `client.py`, `retry.py`) | `RetryQueue` | no accepted write lost, none executed twice before its key lapses, queue bounded and drained |

How they meet: the routes of `Idempotency` are the requests of `Serve` and
`KeyAuth`, each module keeping the state its properties are about; `McpCalls`
and `RetryQueue` are clients of a gateway that behaves as `Once` says inside one
window, which `Idempotency` is shown to implement; in `RetryQueue` the window may
end while a write waits.

Each module has an `MC` module with constants and symmetry for TLC. Operators
commented "Seeded fault" are the operator below them with a plausible bug; no
specification uses them, they show that a property can fail.

### Idempotency and Once

State: the table `idempotency_keys`, and per request its step, key, payload hash,
outcome, answer and audited status; `committed`, `granted` and `stolen` record
history. Actions follow the handlers: `Arrive`, `Reject`, then `BeginInsert`,
`BeginConflict`, `BeginSelect`, `BeginDelete` (the statements of BeginOrReplay),
`Execute`, `Reply`, `Complete`, `Audit`, in the order of each route, with `Crash`
of a request, `Lapse` of a row and the sweep `PurgeExpired`.

A statement is one step, as every transaction of the store has one writing
statement. Expiry is the set `lapsed` (one clock). COMMIT may report an error
after it took effect and Complete may fail. `HandlersOutliveTTL` lets a handler
run past the 24 h of its row.

`Once` is the promise without table, clock or handlers: a key opens a window for
one request, the window gets one response, that is replayed until the window
ends. The mapping (at the end of `Idempotency`) reads holder and response off the
row; a request whose row was reclaimed while it worked is a stray, and the only
one that can put a response into a window that is not its own.

### KeyAuth

State: clock, `api_keys`, cache, revoked set, and each request's token, record
and arrival. `VerifyCache.Get` is `Lookup` and `CheckFlag`, `Put` is `PutUnflag`
and `PutAdd`: the steps between which the code holds no lock. `Rotate` stamps
with the start of its transaction, and its COMMIT may be ambiguous. `RevokeKey`
is the command line, which never reaches the cache. `MaxLag` bounds the time of
a request; the overlap is assumed to be at least TTL + 2 MaxLag (defaults: 24 h
and 5 min). One gateway process; argon2id is a match or a mismatch.

### KeyMint

State: `workspaces`, `api_keys`, and each `-mint-key` with its step, key and
workspace. MintKey is one READ COMMITTED transaction: `FindWorkspace`
sees what is committed, `InsertKey` waits for an equal key id, `Commit` makes
both rows visible and may lose its answer, so that the command reports a failure
with its rows in place. Tokens are sequences of characters,
since the separator is a character of the parts.

### Serve and Config

State: the connections with their owner, the settings in force and those of the
session; each request's step, route, statement and audit row; the purge
goroutine; where run() is. `Setup` makes the five settings of `tenant.Setup` in
their order and stops at its first error; `Commit`, `Rollback` and
`ClientLeaves` end the transaction and return or destroy the connection; `Signal`,
`McpShutdown`, `Shutdown`, `ClosePool` are the stop. `Config` is Load: defaults,
silent and loud fallbacks, early returns, and what the statement timeout becomes
on each route. pgxpool and Postgres are external, as the head of the module says.

### Boot

State: the row of `schema_migrations`, the migrations committed, in which schema
the control-plane tables are, the owner role, the lock, and each process.
RunMigrations is `Up`, `MarkDirty`, `RunFile`, `MarkClean` and `ForceVersion`;
`Die` is any death or error at any step. A file is one transaction with what
matters when it runs a second time: 0001 to 0003 create their tables in `public`
unless they are there, 0007 moves them to `agentcoopdb`, so 0002 may find no
`workspaces` to refer to and 0007 a table in both schemas (`Fails`); 0006, 0007
and 0009 need the roles of 0004, 0010 too if `public` has a table left, and 0007
the owner role.
golang-migrate (v4.20.1) is external: its lock, its dirty mark and its refusal of
a version without a file. A process is a server, a server without
MigrateOnStart, `migrate up` or `migrate force`, with which an operator forces any
version at any time. `forced` keeps what a force has done that a property has to
know: it went past a migration that is not applied, or below a file that creates
tables when these had moved.

### RateLimit

State: buckets, each with the ticks at which it gave a token (`taken`, history),
the LRU order, and the bucket each request holds. The critical
sections are `LimiterFor`, `Allow` and `Tokens`; an evicted bucket stays usable
by its holders. float64 tokens are whole fractions (`Unit` per token).

### McpCalls and Validator

State: each job's request and key, each attempt's work at the gateway and what
the agent has got, the commits and the audit rows. A request is what the
handlers look at: tool, identifiers, rows, k, the statement as pg_query reports
it. `CallTool` is the handler with its early returns and the statement it
builds; `Deliver`, `GiveUp` and `Respond` are the HTTP client, which may give up
while the gateway goes on; `Check`, `Begin`, `Exec`, `Complete` the gateway or
directDoer, `Audit` the row that directDoer writes, or fails to write, before the
tool encodes the result. `Validate` is the order of the checks of `validator.go`.

### RetryQueue

State: both SQLite tables, how far each enqueue is, each flusher's batch and
tries, the gateway's row of each write. Connections are in autocommit mode, so
every statement is a step. Backoff is the flag `due`, set again by `Wake`. The
gateway (`Post`, `Finish`, `Run`) may commit what it answers with an error or
never records, and `Lapse` is the end of a key's 24 h at any moment; `late` keeps
the writes that were still to be sent then.

## 2. Runs

Distinct states in parentheses.

| Run | Shows |
|---|---|
| idem_routes (265 k) | both routes, with and without key: replay = original on the SQL route, answers true of the database, every commit audited; the layer implements `Once`; every request settles, no key stays pending |
| idem_window (3.5 M) | three requests on one key: one grant per window, replay of the same request, stored answers final |
| key_cache (2.6 M) | a revoked key is refused after TTL + 2 MaxLag, a rotated one 2 MaxLag after its overlap |
| key_mint (99 k) | a printed token finds its own row, and a name is doubled only by mints that overlap, also after a lost COMMIT |
| queue_single (301 k) | two producers, one flusher: the bound, attempts grow, every write leaves the queue |
| queue_threads (6.4 M) | two flushers, a crash, a key that lapses: no write lost, none executed twice unless its key lapsed too early, sent is not dead |
| rate_buckets (155 k) | burst + rate per window, one more burst per eviction; refused only for own traffic |
| boot_recover (195 k) | clean versions are applied; ready means migrated, with the tables moved; a file that runs again does not fail; servers get ready after deaths |
| serve (298 k) | two requests, a purge and a stop on one connection: own settings, nothing left behind, an orderly stop; with a timeout in force requests and stops end |
| mcp_calls (126 k) | three attempts on either back end: a keyed write commits once, success is true, an ok row has its commit, what runs is valid, every call is answered |

Two runs end in a violation of a sentence of the repository (`findings` has the
quotations):

| Run | The code |
|---|---|
| idem_duplicate | two requests that saw the same expired row both execute |
| key_immediate | a record read before a rotation is cached after the eviction |

Several properties name exceptions, where the code departs from its comments:

- `ServerGetsReady` leaves out version 0, a version forced below 0003 after the
  move, and one forced past a migration; `FilesRunAgain` the last two,
  and 0007 without the owner role, which `migrate up` does not make. The
  recovery itself can do the first two (section 5), although `migrate.go:85-89`
  says that the files are idempotent and a single redeploy sufficient.
  `CleanIsApplied` and `ReadyMeansMigrated` leave out only an operator who forces
  past a migration.
- `AppliedOnce` leaves out writes still queued, or in a flusher's batch, when their
  key lapses (section 5).
- `AckedIsNotDead` and `AttemptsGrow` leave out writes that two flushers held at
  once (`queue.py:73` says "Thread-safe within a single process", but a stale
  item overwrites a row or moves a sent write to the dead letters at
  `queue.py:148`), and `AckedIsNotDead` those torn by a crash between the two
  statements of a move. What they show is the order of ack, fail and move for a
  write that one flusher has.
- `IdleReverts` leaves out a SET that a client commits, `OneWorkspacePerName` mints
  that overlap, `EveryCallEnds` and `StopEnds` settings without a statement
  timeout; `RateBound` counts a burst per eviction. `PROJECT.json` notes with each
  hazard what of it is only limited, or left to the code.

Bounds. The interleavings of the idempotency layer need two or three requests on
one key: one that holds a row, one that reads it stale, one that takes it over.
Two keys (one minted from the other) and a clock past TTL, overlap and two lags
cover the cache. Two mints, a row from before, two names and an alphabet of one
letter and the separator cover KeyMint: lengths are 1, as the proof of the round
trip covers the others. Two writes, two flushers and one crash cover the moves
of the queue, and one lapse gives a write its second execution; its bound needs
two producers and more writes than fit, without a crash or a lapse, which change
neither. Six migrations stand for the ten: three that create tables, the roles,
the move and what comes after; two deaths give a dirty version and a second one
that another process still remembers. (The numbering of the ten files, run
once by hand, has 1.9 M states and no error.) One connection is a pool at its
limit; two requests are one that holds it and one that waits or comes after; the
environments are the edges of Load (timeouts 0, below a millisecond, negative,
above 60 s, malformed, unset). One job with three attempts has an attempt that
still runs, one that meets it and one that replays; the requests sit at the
limits of each tool. Symmetry is used in safety runs only. CHECK_DEADLOCK is off
where all requests of a run can be finished or the process has exited.

Fairness. Idempotency: handlers are goroutines that progress or crash, rows
expire with the clock, the purge loop is a ticker. RetryQueue: flush is called
again and again, backoff ends, the gateway finishes what it runs. Boot: compose
restarts a server (`restart: unless-stopped`; nobody has to call the command
line) and Postgres grants advisory locks in order, hence strong fairness of a
process's steps. Serve: code that does not wait goes on, pgxpool serves waiting
acquires in turn (strong fairness of Begin and Authenticate), and the timers of
Postgres, audit, sweep and shutdown go off; a statement, a client and the
operator owe nothing. McpCalls: the timeout of the HTTP client, and for the
embedded back end what Serve establishes.

## 3. Proofs

Every safety invariant, every action property and the refinement of the passing
runs is a theorem, for every value of the constants under the named assumptions
of the component's module. Each is Init => Inv, Inv /\ [Next]_vars => Inv',
Inv => property, with one lemma per action.

- `IdempotencyProofs`. `TypeCorrect`. `OneGrant`: through GrantHoldsRow, a
  granted request whose row has neither lapsed nor been deleted under it owns
  the row of its key, so two such requests would own one row. `ReplaySameRequest`
  and the action property `TerminalFinal`: through ReplayInv, a row carries the
  hash of its owner, a stored response is the owner's unless that one lost its
  row, and a request stores once. `SqlReplays`, `AnswersAreTrue`, `AuditsCoverCommits`:
  the database, the client, the stored response and the audit log get their
  version of an execution in four separate steps, so the invariant says of each
  step of a handler which of them already know and that these agree (Trip), and
  of every response in the table or replayed that it fits what its execution
  committed and answered (RowsFit, ReplaysFit). `Refinement`: Idempotency
  implements `Once`; every step of the store maps to one of its steps or to none.
  It needs Progress: a granted request is past BeginOrReplay, a replayed one is
  done.
- `KeyAuthProofs`. `KeyTypes`, `RevokedKeysAreRefused`, `RotatedKeysAreRefused`:
  outside the table every row is a copy, and Fresh bounds its age: 0 for a
  request that read the table, MaxLag for a cache entry, MaxLag + TTL for a
  request that took the entry; the request lives MaxLag more. The bound on
  expiry needs the assumption on the overlap.
- `CommandProofs`, about KeyMint. `RoundTrip`: ParseBearer inverts Mint for every
  alphabet and length. `MintTypes`, `PrintedTokensWork`, `NamesDoubleOnlyOnOverlap`:
  key ids are unique in the table and among the transactions that hold one
  (Locked), and who made a workspace had looked when no committed one had the
  name (Placed, Overlap).
- `CommandProofs`, about Boot. `CleanVersionsAreApplied`, `ReadyServersAreMigrated`:
  a version is dirty only when all below it are applied, and migrations are never
  undone, so that a ForceVersion on a stale version skips none (Good), until an
  operator forces past one. `MigrationsRunAgain`: until the version is forced
  below a file that creates tables, it is past those files once the tables have
  moved, and no table is in both schemas (Apart). `BootTypes` adds that the lock
  is held exactly by the process inside Up.
- `RetryQueueInvariant`, `RetryQueueProofs`. `TypesHold`, `WritesAreKept`, `WritesApplyOnce`,
  `QueueIsBounded`, `SentIsNotDead`, `AttemptsOnlyGrow`: a producer that has
  counted holds a place (Room); a flusher about to delete a row has its dead letter,
  or the write was executed (Settled); of a write that was never shared one flusher
  has a copy, and a true one (OneCopy, TrueCopy); a dead letter is nowhere else but
  between INSERT and DELETE (Moved). A write that was executed has a key that
  keeps it from running again, or nobody is left to send it (OncePerKey): the ack
  has deleted its row, since every copy has the id of its row (Sent, TrueCopy).
- `ServeProofs`. `StatementsHaveOwnSettings`, `IdleConnectionsRevert`,
  `StopsAreOrderly`, for any pool and any configuration: a request owns its
  connection from BeginTx to the end of its transaction (Held), and a session
  has only base values or what a client committed itself (Sessions).
  `ServeTypes` adds the configuration: it needs EnvAssumption, that a text which
  parses is a value of its type.
- `RateLimitProofs`. `LimiterTypes`, `RatesHold` and the action property
  `RejectionsAreEarned`: each bucket keeps a ledger of the ticks at which it gave
  a token. From any token on it gave no more than the burst and what flowed in,
  less what is left (Spent), and it lacks no more than was taken since some tick
  at which it was full (Missing). Refill and Allow keep both, whoever holds the
  bucket and whether it is still cached, so a window of a key is the sum over its
  buckets (RatesHold), and an empty bucket has a window that explains it. A
  rejection may find the key with several buckets; the window is that of the one
  it holds.
- `McpCallsProofs`, with the validator. `KeyedRetriesRunOnce`: of the attempts of a
  keyed job at most one is between its grant and Complete, none while the key is
  free, and until that one has run nothing has committed (KeysOk). `SuccessesAreTrue`,
  `AuditRowsTrue`: what an attempt was told, holds or has audited is backed by a
  commit of its job (CallsOk), and on the embedded back end, which has no keys,
  each by one of its own (OksOk). `OnlyValidStatementsRun`, `BuildersFitValidator`:
  the placeholders 3i+1..3i+3 of the rows of an upsert are exactly 1..3n, and the
  largest placeholder is at most the number of parameters. `CallTypes` also counts:
  a commit belongs to an attempt that has run. RequestAssumption says what a
  decoded request is: counts are natural numbers, a statement has finitely many
  placeholders.

The sums and maxima of the last two are about finite sets of any size. The proofs
use the cardinality theorems of the library, and for the existence of a largest
placeholder that strict inclusion of finite sets is well-founded: a smallest
nonempty set without a maximum loses one element and then has one, and the
larger of the two is a maximum of the whole set.

Only model-checked: the temporal properties under fairness (EveryRequestSettles,
NoKeyStaysPending, QueueDrains, ServerGetsReady, EveryCallEnds, StopEnds,
EveryCallAnswered), as liveness and ENABLED are outside the provers at hand, and
the two runs that end in a violation, which are about one counterexample.

## 4. Not modelled

- What Postgres, pgxpool, golang-migrate, pg_query, argon2id, JSON Schema, the
  MCP library and net/http do inside: external, modelled from how the code uses
  them. Grants, row level security and the columns of tables in the migration
  files, and the rename of legacy roles (0008).
- A power loss: `PRAGMA synchronous = NORMAL` (`queue.py:90`) may take back the last
  SQLite statements, an accepted write or an ack among them. `NoWriteLost` is
  about processes that stop.
- `-list-keys`, which only reads. In `Serve` the statements of the idempotency layer
  take no connection; like the key lookup they hold one for a moment only.
- `internal/vector` and the SQL texts built by the Python client: pure
  formatting of numbers. A `k` of vector_search too large for an integer
  conversion is left out with them.
- Metrics, logs, version, request ids, real IP, panic recovery: nothing a
  decision reads. `last_used_at` is written by a goroutine and never read.
- The Python command line but for `queue flush` and `clear-dead`; deployment
  files and scripts: input and output.
- Clock skew between gateway and database (`idempotency.go:129`), several gateway
  processes in KeyAuth, rounding in the token buckets.
- A retry of rotate_key after a lost response (`client.py:169`) mints twice; it
  is one more Rotate of KeyAuth, whose properties do not depend on who asked.
- directDoer does not pass on an idempotency key (`direct_doer.go:40`), so
  KeyedRetryOnce is about the standalone back end only.

## 5. Seen while modelling

Behaviours without a run of their own, for the reader of the code:

- A replayed RPC failure has status 500 whatever the first answer was
  (`dispatcher.go:121`, `docs/api.md:114`). A duplicate in flight gets 500, not 409
  (`api.go:156`, `idempotency.go:148`). Replays are not audited
  (`docs/security.md:108`).
- A write in backoff is overtaken (`queue.py:14`); repeated 5xx or 429 in one send
  move a write to the dead letters (`queue.py:178`).
- A server without MigrateOnStart is ready whatever the version (`main.go:331`).
- The recovery of RunMigrations can leave a database that no restart repairs. A
  death in the first migration makes it force version 0, which has no file. And
  the version it saw dirty may be applied, with all after it, by another process
  before `m.Force` runs (`migrate.go:97`): when that was 0002 or 0003 the version
  falls below 0003 with the tables moved, and then 0002 fails, or 0003 creates
  `rpc_registry` anew in `public` and 0007 fails. An operator's `migrate force` to
  a version below 0003 does the same.
- A write whose response was lost and whose next flush comes after 24 h is executed
  again, against `docs/faq.md:47-48` (the sentence that idem_duplicate quotes); so
  is one whose commit was stored as an error and whose key has lapsed. A write in
  the dead letters may have been executed.
- Rows that JSON does not have (NaN): the embedded tools answer an error after the
  commit and a 200 in the audit log (`tools.go:63`), the SQL route a 200 with an
  empty body (`api.go:192`).
- A key accepted from the cache after its revocation can still rotate, and the new
  key is not revoked (`store.go:210`).
- A SET that a client's own statement commits stays on the pooled session, which
  is not the baseline `tenant.go:11-13` speaks of; Setup overrides it for the
  next request (OwnSettings, IdleReverts).
- A statement timeout of 0 means none on the RPC route and 5 s on the SQL route; below
  a millisecond it is none on both; a negative one is refused in Setup on the RPC
  route only. Without a timeout a hanging statement keeps pool.Close, and so the
  stop, waiting: EveryCallEnds and StopEnds assume one.
- Comments at `validator.go:48-50` and `58-59` are narrower than the code: VALUES
  and a WITH whose parts write count as a SELECT, and placeholders are counted by
  the largest number. EXPLAIN and SHOW return no rows. A `k` between 0 and 1
  becomes LIMIT 0.
- Two overlapping `-mint-key` for a new name make two workspaces; later mints
  take either.
