-------------------------------- MODULE Boot --------------------------------
(***************************************************************************)
(* Starting the gateway: cmd/server run(), cmd/migrate and the migrations  *)
(* of internal/db/migrate.go, by several processes against one database.   *)
(* A process can die at any step; a migration it was running stays marked  *)
(* dirty, and the next RunMigrations forces the version back and retries.  *)
(*                                                                         *)
(* golang-migrate is external: Up holds a Postgres advisory lock from the  *)
(* read of schema_migrations to its end, marks a version dirty before it   *)
(* runs the file and clean after; the lock goes with the session.  The     *)
(* up.sql files are not: each is one transaction, and what matters when it *)
(* runs a second time is where it finds the control-plane tables.  0001,   *)
(* 0002 and 0003 create theirs in public, IF NOT EXISTS there; 0007 moves  *)
(* them to agentcoopdb.  A file stands for the tables it creates.  The     *)
(* deployment sets a gateway password and migrates as a superuser.         *)
(***************************************************************************)
EXTENDS Integers

CONSTANTS
    Proc,       \* server replicas and command line calls
    Nobody,     \* nobody holds the lock
    Modes,      \* how processes are started: see Main
    N,          \* the newest migration
    Makers,     \* those that create control-plane tables (0001, 0002, 0003)
    Referring,  \* those whose tables refer to workspaces, of 0001 (0002)
    GatewayAt,  \* the one that makes the roles (0004)
    RoleUsers,  \* those that grant to these roles (0006, 0007, 0009)
    SplitAt,    \* the one that moves the tables (0007)
    ReassignAt, \* the one that gives what is in public to dbadmin (0010)
    MaxFaults   \* bound on deaths

ASSUME BootAssumption ==
    /\ N \in Nat \ {0}
    /\ {GatewayAt, SplitAt} \cup Makers \subseteq 1..N
    /\ \A m \in Makers : m < SplitAt
    /\ 1 \in Makers /\ Referring \subseteq Makers \ {1}
    /\ RoleUsers \cup {ReassignAt} \subseteq GatewayAt + 1..N
    /\ MaxFaults \in Nat
    /\ Modes \subseteq {"server", "nomigrate", "up", "force"}
    /\ Nobody \notin Proc

VARIABLES
    version, dirty,  \* the row of schema_migrations
    done,            \* migrations whose transaction has committed
    public, moved,   \* files whose tables are in public, in agentcoopdb
    forced,          \* what forcing the version has done: see Astray
    ownerRole,       \* the owner role exists
    lock,            \* holder of the advisory lock
    phase, mode,     \* each process: its step and how it is started
    seen,            \* each process: dirtyErr.Version, 0 before the retry
    faults

tables == <<public, moved>>
bootVars == <<version, dirty, done, tables, forced, ownerRole, lock, phase, mode, seen, faults>>

NilVersion == -1   \* schema_migrations is empty

BootInit ==
    /\ version = NilVersion /\ dirty = FALSE
    /\ done = {} /\ public = {} /\ moved = {}
    /\ forced = {}
    /\ ownerRole \in BOOLEAN  \* bundled Postgres has it, an external one has not
    /\ lock = Nobody
    /\ phase = [p \in Proc |-> "down"]
    /\ mode \in [Proc -> Modes]
    /\ seen = [p \in Proc |-> 0]
    /\ faults = 0

Enter(p, l) == phase' = [phase EXCEPT ![p] = l]

\* The process returns an error from run() or main() and exits.
Exit(p) ==
    /\ Enter(p, "down")
    /\ seen' = [seen EXCEPT ![p] = 0]

\* run() with or without MigrateOnStart, "migrate up" and "migrate force".
Main(p) ==
    /\ phase[p] = "down"
    /\ Enter(p, CASE mode[p] = "server"    -> "ensure"
                 [] mode[p] = "nomigrate" -> "open"
                 [] mode[p] = "up"        -> "up"
                 [] mode[p] = "force"     -> "force")
    /\ UNCHANGED <<version, dirty, done, tables, forced, ownerRole, lock, mode, seen, faults>>

EnsureOwnerRole(p) ==
    /\ phase[p] = "ensure"
    /\ ownerRole' = TRUE
    /\ Enter(p, "up")
    /\ UNCHANGED <<version, dirty, done, tables, forced, lock, mode, seen, faults>>

\* RunMigrations has returned nil: a server goes on, the command line ends.
Migrated(p) ==
    /\ Enter(p, IF mode[p] = "server" THEN "open" ELSE "down")
    /\ seen' = [seen EXCEPT ![p] = 0]

\* The first migration is still to come, or the row names one there is.
HasFile == version = NilVersion \/ version \in 1..N

\* Seeded fault: a dirty version is taken for nothing to do.
UpDirtyIsDone(p) ==
    /\ phase[p] = "up" /\ lock = Nobody
    /\ \/ (dirty \/ version = N) /\ Migrated(p) /\ UNCHANGED lock
       \/ ~dirty /\ ~HasFile /\ Exit(p) /\ UNCHANGED lock
       \/ ~dirty /\ HasFile /\ version # N /\ lock' = p /\ Enter(p, "mark") /\ UNCHANGED seen
    /\ UNCHANGED <<version, dirty, done, tables, forced, ownerRole, mode, faults>>
\* Seeded fault: no recovery, a dirty version is an error.
UpNoRecovery(p) ==
    /\ phase[p] = "up" /\ lock = Nobody
    /\ \/ (dirty \/ ~HasFile) /\ Exit(p) /\ UNCHANGED lock
       \/ ~dirty /\ version = N /\ Migrated(p) /\ UNCHANGED lock
       \/ ~dirty /\ HasFile /\ version # N /\ lock' = p /\ Enter(p, "mark") /\ UNCHANGED seen
    /\ UNCHANGED <<version, dirty, done, tables, forced, ownerRole, mode, faults>>
\* Seeded fault: the lock is not given back when there is nothing to do.
UpKeepsLock(p) ==
    /\ phase[p] = "up" /\ lock = Nobody
    /\ lock' = p
    /\ \/ dirty /\ seen[p] = 0 /\ seen' = [seen EXCEPT ![p] = version] /\ Enter(p, "force")
       \/ (IF dirty THEN seen[p] # 0 ELSE ~HasFile) /\ Exit(p)
       \/ ~dirty /\ version = N /\ Migrated(p)
       \/ ~dirty /\ HasFile /\ version # N /\ Enter(p, "mark") /\ UNCHANGED seen
    /\ UNCHANGED <<version, dirty, done, tables, forced, ownerRole, mode, faults>>

\* m.Up up to its first migration, and what RunMigrations does with its
\* error: the first ErrDirty leads to Force, a second one is returned.  A
\* row with a version that has no file is an error; ErrNoChange is none.
Up(p) ==
    /\ phase[p] = "up" /\ lock = Nobody
    /\ \/ /\ dirty /\ seen[p] = 0
          /\ seen' = [seen EXCEPT ![p] = version]
          /\ Enter(p, "force")
          /\ UNCHANGED lock
       \/ dirty /\ seen[p] # 0 /\ Exit(p) /\ UNCHANGED lock
       \/ ~dirty /\ ~HasFile /\ Exit(p) /\ UNCHANGED lock
       \/ ~dirty /\ version = N /\ Migrated(p) /\ UNCHANGED lock
       \/ ~dirty /\ HasFile /\ version # N /\ lock' = p /\ Enter(p, "mark") /\ UNCHANGED seen
    /\ UNCHANGED <<version, dirty, done, tables, forced, ownerRole, mode, faults>>

\* SetVersion(next, dirty) before the file.
MarkDirty(p) ==
    /\ phase[p] = "mark"
    /\ version' = IF version = NilVersion THEN 1 ELSE version + 1
    /\ dirty' = TRUE
    /\ Enter(p, "file")
    /\ UNCHANGED <<done, tables, forced, ownerRole, lock, mode, seen, faults>>

\* CREATE TABLE IF NOT EXISTS, unqualified: the owner's search_path has only
\* public, so a table that 0007 moved away is created again.
CreateTables(v) == public' = public \cup {v} /\ UNCHANGED moved

\* Seeded fault: the tables are copied, not moved.
SplitCopies == moved' = moved \cup public /\ UNCHANGED public

\* ALTER TABLE IF EXISTS public.t SET SCHEMA agentcoopdb, for each of them.
SplitControlPlane == moved' = moved \cup public /\ public' = {}

\* The file raises an error: 0002 has to create its table and finds no
\* workspaces in public to refer to; 0007 has no owner role to create the
\* schema for, or a table is in both schemas; the roles it names are missing.
Fails(v) ==
    \/ v \in Referring /\ public \cap {1, v} = {}
    \/ v = SplitAt /\ (~ownerRole \/ public \cap moved # {})
    \/ v \in RoleUsers /\ GatewayAt \notin done
    \/ v = ReassignAt /\ public # {} /\ GatewayAt \notin done

\* The file commits.
Commits(v) ==
    /\ ~Fails(v)
    /\ done' = done \cup {v}
    /\ \/ v \in Makers /\ CreateTables(v)
       \/ v = SplitAt /\ SplitControlPlane
       \/ v \notin Makers \cup {SplitAt} /\ UNCHANGED tables

\* The file, one transaction; a failure leaves the version dirty and ends the
\* process.
RunFile(p) ==
    /\ phase[p] = "file"
    /\ \/ /\ Commits(version)
          /\ Enter(p, "clean")
          /\ UNCHANGED <<lock, seen>>
       \/ /\ Fails(version)
          /\ lock' = Nobody
          /\ Exit(p)
          /\ UNCHANGED <<done, tables>>
    /\ UNCHANGED <<version, dirty, forced, ownerRole, mode, faults>>

\* SetVersion(version, clean) after it; then the next one, or the end.
MarkClean(p) ==
    /\ phase[p] = "clean"
    /\ dirty' = FALSE
    /\ \/ version < N /\ Enter(p, "mark") /\ UNCHANGED <<lock, seen>>
       \/ version = N /\ lock' = Nobody /\ Migrated(p)
    /\ UNCHANGED <<version, done, tables, forced, ownerRole, mode, faults>>

\* History, for the properties: a version forced below one of the files that
\* create tables, after the tables have moved, has that file run again.
Astray(v) == {f \in {"replay"} : moved # {} /\ \E m \in Makers : v < m}

\* An operator may also force past a migration that is not applied.
Past(v) == {f \in {"past"} : ~(1..v \subseteq done)}

\* Seeded fault: forced to the dirty version itself.
ForceDirty(p) ==
    /\ phase[p] = "force" /\ lock = Nobody
    /\ mode[p] # "force"
    /\ version' = seen[p] /\ dirty' = FALSE
    /\ forced' = forced \cup Astray(seen[p])
    /\ Enter(p, "up")
    /\ UNCHANGED <<done, tables, ownerRole, lock, mode, seen, faults>>

\* m.Force under the lock, whatever the row says by now: by RunMigrations to
\* the version before the one it saw dirty, by an operator to any version
\* (N + 1 stands for those that have no file).
ForceVersion(p) ==
    /\ phase[p] = "force" /\ lock = Nobody
    /\ \/ /\ mode[p] # "force"
          /\ version' = seen[p] - 1
          /\ forced' = forced \cup Astray(seen[p] - 1)
          /\ Enter(p, "up")
       \/ \E v \in 0..N + 1 :
          /\ mode[p] = "force"
          /\ version' = v
          /\ forced' = forced \cup Astray(v) \cup Past(v)
          /\ Enter(p, "down")
    /\ dirty' = FALSE
    /\ UNCHANGED <<done, tables, ownerRole, lock, mode, seen, faults>>

\* SetRolePassword, migrationsApplied, OpenPool, the listener: they need the
\* gateway role.
Open(p) ==
    /\ phase[p] = "open"
    /\ \/ GatewayAt \in done /\ Enter(p, "ready") /\ UNCHANGED seen
       \/ GatewayAt \notin done /\ Exit(p)
    /\ UNCHANGED <<version, dirty, done, tables, forced, ownerRole, lock, mode, faults>>

\* A signal, and the shutdown.
Stop(p) ==
    /\ phase[p] = "ready"
    /\ Exit(p)
    /\ UNCHANGED <<version, dirty, done, tables, forced, ownerRole, lock, mode, faults>>

\* The process is killed, a connection breaks, the lock times out, a statement
\* fails: each ends the process and its session.  The file it was running
\* may have committed.
Die(p) ==
    /\ faults < MaxFaults
    /\ faults' = faults + 1
    /\ phase[p] \notin {"down", "ready"}
    /\ Exit(p)
    /\ lock' = IF lock = p THEN Nobody ELSE lock
    /\ \/ phase[p] = "file" /\ Commits(version)
       \/ UNCHANGED <<done, tables>>
    /\ UNCHANGED <<version, dirty, forced, ownerRole, mode>>

Step(p) ==
    \/ EnsureOwnerRole(p) \/ Up(p) \/ MarkDirty(p) \/ RunFile(p) \/ MarkClean(p)
    \/ ForceVersion(p) \/ Open(p)

BootNext ==
    \E p \in Proc :
        Main(p) \/ Step(p) \/ Stop(p) \/ Die(p)

BootSpec == BootInit /\ [][BootNext]_bootVars

\* The container is restarted (restart: unless-stopped), a process goes on,
\* and the advisory lock is granted in the order it was asked for.
BootFairSpec ==
    /\ BootSpec
    /\ \A p \in Proc :
        SF_bootVars(Step(p)) /\ (mode[p] = "server" => WF_bootVars(Main(p)))

---------------------------------------------------------------------------
(* Properties *)

\* Types, and the lock is held exactly by the process inside Up.
BootTypeOK ==
    /\ version \in NilVersion..N + 1 /\ dirty \in BOOLEAN
    /\ done \subseteq 1..N /\ ownerRole \in BOOLEAN
    /\ public \subseteq Makers /\ moved \subseteq Makers /\ forced \subseteq {"replay", "past"}
    /\ \A p \in Proc :
        /\ seen[p] \in 0..N /\ mode[p] \in Modes
        /\ (lock = p) <=> (phase[p] \in {"mark", "file", "clean"})

\* A version on record as clean has every migration up to it applied, whoever
\* died and however stale the version was that a recovery forced, unless an
\* operator forced past a migration: RunMigrations itself never skips one that
\* was only marked.
CleanIsApplied ==
    "past" \notin forced => \A v \in 1..version : ~dirty \/ v < version => v \in done

\* GET /readyz of a server that migrates on start says ready only when every
\* migration of this release has been applied and every control-plane table is
\* out of the schema that the API keys own, whoever ran and re-ran what, unless
\* an operator forced past a migration.
ReadyMeansMigrated ==
    "past" \notin forced =>
        \A p \in Proc :
            mode[p] = "server" /\ phase[p] = "ready" => 1..N \subseteq done /\ moved = Makers

\* "The migration files are idempotent for this case" (RunMigrations): a file
\* that a recovery runs again, committed before or not, does not fail, for the
\* tables are where it expects them, unless the version was forced below 0003
\* after the move or past a migration.  0007 does need the owner role.
FilesRunAgain ==
    forced = {} /\ ownerRole => \A p \in Proc : phase[p] = "file" => ~Fails(version)

\* A server that was started gets ready, after restarts if need be, by the
\* recovery of RunMigrations and next to any calls of the command line.  Three
\* things prevent it for good: the first migration was left dirty, so that the
\* recovery forces version 0; the version was forced below 0003 once 0007 had
\* moved the tables, by an operator or by a recovery that saw a version dirty
\* which another process has since applied; an operator forced past a migration.
ServerGetsReady ==
    \A p \in Proc : (phase[p] = "ensure") ~> (phase[p] = "ready" \/ version = 0 \/ forced # {})

============================================================================
