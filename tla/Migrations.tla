----------------------------- MODULE Migrations -----------------------------
(***************************************************************************)
(* The migration command (migrations/runner.go, cmd/migrate): Up and Down  *)
(* of several deployers, each with the migrations of its own build, in one *)
(* transaction that starts by taking an advisory lock.  PostgreSQL rolls   *)
(* its DDL back with the transaction.                                      *)
(***************************************************************************)
EXTENDS Integers, FiniteSets

CONSTANTS Deployers, NoOne,
          Versions,      \* versions of all builds
          Builds         \* migrations of each build: a checksum for each of its versions

MigrationsAssumption ==
  /\ NoOne \notin Deployers
  /\ Versions \subseteq Nat \ {0} /\ IsFiniteSet(Versions)
  /\ Builds # {} /\ \A b \in Builds : DOMAIN b \subseteq Versions

VARIABLES schema,        \* the DDL in effect: the migrations whose tables exist
          applied,       \* schema_migrations
          lock,          \* who holds the advisory lock
          run            \* each run of the command and what its transaction has changed

vars == <<schema, applied, lock, run>>

----------------------------------------------------------------------------
(* State *)

\* A migration is a version and the checksum of its two files.
Migration == [version : Versions, checksum : UNION {{b[v] : v \in DOMAIN b} : b \in Builds}]
Of(b) == {[version |-> v, checksum |-> b[v]] : v \in DOMAIN b}

\* ddl and rows are what the transaction has done on top of the committed state; loaded is what
\* loadAppliedMigrations returned.
Idle == [pc |-> "idle", action |-> "none", build |-> {}, steps |-> 0, loaded |-> {},
         up |-> {}, down |-> {}]

TypeOK ==
  /\ schema \subseteq Migration /\ applied \subseteq Migration
  /\ lock \in Deployers \cup {NoOne}
  /\ run \in [Deployers ->
       [pc : {"idle", "lock", "load", "validate", "work", "commit"}, action : {"none", "up", "down"},
        build : {{}} \cup {Of(b) : b \in Builds}, steps : 0 .. Cardinality(Versions),
        loaded : SUBSET Migration, up : SUBSET Migration, down : SUBSET Migration]]

Init ==
  /\ schema = {} /\ applied = {}
  /\ lock = NoOne
  /\ run = [d \in Deployers |-> Idle]

----------------------------------------------------------------------------
(* Steps of a run *)

At(d, pc) == run[d].pc = pc

\* The command, with the migrations embedded in its binary (Load).
Begin(d) ==
  /\ At(d, "idle")
  /\ \E b \in Builds, action \in {"up", "down"}, steps \in 0 .. Cardinality(Versions) :
       /\ (action = "up") = (steps = 0)
       /\ run' = [run EXCEPT ![d] = [Idle EXCEPT !.pc = "lock", !.action = action,
                                                 !.build = Of(b), !.steps = steps]]
  /\ UNCHANGED <<schema, applied, lock>>

\* A plausible bug, never used here: the lock is taken and given up at once.
LockFreeAlways == TRUE

LockFree == lock = NoOne

\* pg_advisory_xact_lock, then the table is created unless it exists.
AcquireLock(d) ==
  /\ At(d, "lock") /\ LockFree
  /\ lock' = d
  /\ run' = [run EXCEPT ![d].pc = "load"]
  /\ UNCHANGED <<schema, applied>>

LoadApplied(d) ==
  /\ At(d, "load")
  /\ run' = [run EXCEPT ![d].loaded = applied, ![d].pc = "validate"]
  /\ UNCHANGED <<schema, applied, lock>>

\* ROLLBACK, or the end of the connection: the lock goes with the transaction.
Fail(d) ==
  /\ run' = [run EXCEPT ![d] = Idle]
  /\ lock' = IF lock = d THEN NoOne ELSE lock
  /\ UNCHANGED <<schema, applied>>

\* validateApplied: every migration of the database is in the build, unchanged.
Known(d) == run[d].loaded \subseteq run[d].build

ValidateApplied(d) ==
  /\ At(d, "validate")
  /\ IF Known(d)
     THEN run' = [run EXCEPT ![d].pc = "work"] /\ UNCHANGED <<schema, applied, lock>>
     ELSE Fail(d)

Least(S) == CHOOSE m \in S : \A n \in S : m.version <= n.version
Greatest(S) == CHOOSE m \in S : \A n \in S : n.version <= m.version

\* The migrations an Up has still to apply, or the records a Down may still undo.
Versioned(S) == {m.version : m \in S}
Missing(d) ==
  {m \in run[d].build : m.version \notin Versioned(run[d].loaded) \cup Versioned(run[d].up)}
Undoable(d) == {m \in run[d].loaded : m.version \notin Versioned(run[d].down)}

\* UpSQL and the row of the next migration.
ApplyUp(d) ==
  /\ At(d, "work") /\ run[d].action = "up" /\ Missing(d) # {}
  /\ run' = [run EXCEPT ![d].up = @ \cup {Least(Missing(d))}]
  /\ UNCHANGED <<schema, applied, lock>>

\* The DownSQL of the build for the last recorded version, and the row.
ApplyDown(d) ==
  /\ At(d, "work") /\ run[d].action = "down"
  /\ Undoable(d) # {} /\ Cardinality(run[d].down) < run[d].steps
  /\ \E m \in run[d].build :
       /\ m.version = Greatest(Undoable(d)).version
       /\ run' = [run EXCEPT ![d].down = @ \cup {m}]
  /\ UNCHANGED <<schema, applied, lock>>

Worked(d) ==
  /\ At(d, "work")
  /\ IF run[d].action = "up" THEN Missing(d) = {}
     ELSE Undoable(d) = {} \/ Cardinality(run[d].down) = run[d].steps
  /\ run' = [run EXCEPT ![d].pc = "commit"]
  /\ UNCHANGED <<schema, applied, lock>>

\* COMMIT, or its answer is lost and the command fails although the work is done.  The version is
\* the primary key of schema_migrations.
Commit(d) ==
  /\ At(d, "commit")
  /\ \A m \in run[d].up : m.version \notin Versioned(applied)
  /\ schema' = (schema \cup run[d].up) \ run[d].down
  /\ applied' = {m \in applied : m.version \notin Versioned(run[d].down)} \cup run[d].up
  /\ run' = [run EXCEPT ![d] = Idle]
  /\ lock' = IF lock = d THEN NoOne ELSE lock

\* A statement fails, or the process ends.
Abort(d) == ~ At(d, "idle") /\ Fail(d)

Next ==
  \E d \in Deployers :
    \/ Begin(d) \/ AcquireLock(d) \/ LoadApplied(d) \/ ValidateApplied(d)
    \/ ApplyUp(d) \/ ApplyDown(d) \/ Worked(d) \/ Commit(d) \/ Abort(d)

Spec == Init /\ [][Next]_vars

----------------------------------------------------------------------------
(* Properties *)

\* The database is always at a version of one build: its tables are those of the records, and these
\* a prefix of the build's migrations, none left out and none of another build, whatever deployers
\* race, roll back, fail half way or run another build.
AtSomeVersionOfABuild ==
  /\ schema = applied
  /\ \E b \in Builds :
       /\ applied \subseteq Of(b)
       /\ \A v, w \in DOMAIN b : w < v /\ v \in Versioned(applied) => w \in Versioned(applied)
=============================================================================
