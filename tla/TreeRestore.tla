---------------------------- MODULE TreeRestore ----------------------------
(***************************************************************************)
(* The offline restore of a tree from a ZIP backup                         *)
(* (internal/features/exports/restore/postgres.go, cmd/restore-backup).    *)
(* A run inserts the tree in a transaction, puts the objects one by one,   *)
(* inserts the records and commits; when a step fails it rolls back and    *)
(* deletes the objects it put.  Several runs restore the same backup.      *)
(***************************************************************************)
EXTENDS Naturals, FiniteSets

CONSTANTS Runs,          \* runs of the command, at once or one after another
          Nobody,
          Assets,        \* the media of the backup: numbers, in the order of the manifest
          MaxFaults      \* bound: calls that fail and processes that end

ASSUME RestoreAssumption ==
  Nobody \notin Runs /\ Assets # {} /\ Assets \subseteq Nat /\ IsFiniteSet(Assets) /\ MaxFaults \in Nat

VARIABLES backup,        \* status of each asset in the manifest
          media,         \* media_assets: status and job of each asset, once committed
          objects,       \* which run put the object of an asset
          tx,            \* the transaction that has inserted the tree, as the server sees it
          run,           \* each run of the command
          faults,
          doubted        \* history variable: a COMMIT was not answered

vars == <<backup, media, objects, tx, run, faults, doubted>>

----------------------------------------------------------------------------
(* State *)

Statuses == {"pending", "uploaded", "processing", "ready", "rejected", "deleted"}
NoMedia == [status |-> "none", job |-> FALSE]

\* The assets whose file the archive must hold, and the run uploads (expectedManifestFiles).
Files == {a \in Assets : backup[a] \in {"uploaded", "processing", "ready"}}

\* A transaction is "open" while its run has it, "ending" when its run has lost it: the server
\* rolls back sooner or later, or completes a COMMIT it was sent.
NoTx == [by |-> Nobody, state |-> "none"]

Idle == [pc |-> "insert", uploaded |-> {}]

TypeOK ==
  /\ backup \in [Assets -> Statuses]
  /\ media \in [Assets -> [status : Statuses \cup {"none"}, job : BOOLEAN]]
  /\ objects \in [Assets -> Runs \cup {Nobody}]
  /\ tx \in [by : Runs \cup {Nobody}, state : {"none", "open", "rollingBack", "committing"}]
  /\ run \in [Runs -> [pc : {"insert", "upload", "records", "commit", "check", "rollback",
                             "cleanup", "done", "failed"},
                       uploaded : SUBSET Assets]]
  /\ faults \in 0 .. MaxFaults
  /\ doubted \in BOOLEAN

Init ==
  /\ backup \in [Assets -> Statuses]
  /\ media = [a \in Assets |-> NoMedia]
  /\ objects = [a \in Assets |-> Nobody]
  /\ tx = NoTx
  /\ run = [r \in Runs |-> Idle]
  /\ faults = 0
  /\ doubted = FALSE

----------------------------------------------------------------------------
(* Steps of a run *)

At(r, pc) == run[r].pc = pc
Goto(r, pc) == run' = [run EXCEPT ![r].pc = pc]
Fault == faults < MaxFaults /\ faults' = faults + 1

Committed == \E a \in Assets : media[a] # NoMedia

\* insertTree: the unique index on the identifier makes a second run wait for the first, and fail
\* when that one has committed.
InsertTree(r) ==
  /\ At(r, "insert") /\ tx = NoTx
  /\ IF Committed
     THEN Goto(r, "failed") /\ UNCHANGED tx
     ELSE Goto(r, "upload") /\ tx' = [by |-> r, state |-> "open"]
  /\ UNCHANGED <<backup, media, objects, faults, doubted>>

\* A plausible bug, never used here: the key is remembered before the object is put.
PutRemembered(r) ==
  /\ At(r, "upload")
  /\ \E a \in Files \ run[r].uploaded :
       /\ \A b \in Files \ run[r].uploaded : a <= b
       /\ run' = [run EXCEPT ![r].uploaded = @ \cup {a},
                             ![r].pc = IF objects[a] = Nobody THEN @ ELSE "rollback"]
       /\ objects' = [objects EXCEPT ![a] = IF @ = Nobody THEN r ELSE @]
  /\ UNCHANGED <<backup, media, tx, faults, doubted>>

\* A plausible bug, never used here: an object that is there is overwritten.
PutOverwrites(r) ==
  /\ At(r, "upload")
  /\ \E a \in Files \ run[r].uploaded :
       /\ \A b \in Files \ run[r].uploaded : a <= b
       /\ run' = [run EXCEPT ![r].uploaded = @ \cup {a}]
       /\ objects' = [objects EXCEPT ![a] = r]
  /\ UNCHANGED <<backup, media, tx, faults, doubted>>

\* putNewObject, in the order of the manifest: an object that is there is a conflict.
PutObject(r) ==
  /\ At(r, "upload")
  /\ \E a \in Files \ run[r].uploaded :
       /\ \A b \in Files \ run[r].uploaded : a <= b
       /\ IF objects[a] = Nobody
          THEN /\ objects' = [objects EXCEPT ![a] = r]
               /\ run' = [run EXCEPT ![r].uploaded = @ \cup {a}]
          ELSE Goto(r, "rollback") /\ UNCHANGED objects
  /\ UNCHANGED <<backup, media, tx, faults, doubted>>

\* An error, with or without the object having been put: it is not remembered.
PutFails(r) ==
  /\ At(r, "upload") /\ Fault
  /\ \E a \in Files \ run[r].uploaded :
       /\ \A b \in Files \ run[r].uploaded : a <= b
       /\ objects' \in {objects, [objects EXCEPT ![a] = IF @ = Nobody THEN r ELSE @]}
  /\ Goto(r, "rollback")
  /\ UNCHANGED <<backup, media, tx, doubted>>

AllPut(r) ==
  /\ At(r, "upload") /\ Files \subseteq run[r].uploaded
  /\ Goto(r, "records")
  /\ UNCHANGED <<backup, media, objects, tx, faults, doubted>>

\* restoreRecords
RestoreRecords(r) ==
  /\ At(r, "records")
  /\ \/ Goto(r, "commit") /\ UNCHANGED faults
     \/ Goto(r, "rollback") /\ Fault
  /\ UNCHANGED <<backup, media, objects, tx, doubted>>

\* restoredMediaState
RestoredMediaState(status) ==
  CASE status = "pending" -> [status |-> "rejected", job |-> FALSE]
    [] status \in {"processing", "uploaded"} -> [status |-> "uploaded", job |-> TRUE]
    [] OTHER -> [status |-> status, job |-> FALSE]

Restored == [a \in Assets |-> RestoredMediaState(backup[a])]

Commit(r) ==
  /\ At(r, "commit")
  /\ media' = Restored
  /\ tx' = NoTx
  /\ Goto(r, "done")
  /\ UNCHANGED <<backup, objects, faults, doubted>>

\* COMMIT returns an error: the server may have the statement or not.
CommitFails(r) ==
  /\ At(r, "commit") /\ Fault
  /\ \E state \in {"committing", "rollingBack"} : tx' = [by |-> r, state |-> state]
  /\ doubted' = TRUE
  /\ Goto(r, "check")
  /\ UNCHANGED <<backup, media, objects>>

\* The server ends a transaction whose run has lost it.
ServerEnds ==
  /\ tx.state \in {"committing", "rollingBack"}
  /\ media' = IF tx.state = "committing" THEN Restored ELSE media
  /\ tx' = NoTx
  /\ UNCHANGED <<backup, objects, run, faults, doubted>>

\* A plausible bug, never used here: an unanswered COMMIT is taken for a success.
RestoreCommittedNot(r) ==
  /\ At(r, "check")
  /\ Goto(r, "done")
  /\ UNCHANGED <<backup, media, objects, tx, faults, doubted>>

\* restoreCommitted: looks for the audit record of this backup.
RestoreCommitted(r) ==
  /\ At(r, "check")
  /\ Goto(r, IF Committed THEN "done" ELSE "cleanup")
  /\ UNCHANGED <<backup, media, objects, tx, faults, doubted>>

\* The look itself fails.
CheckFails(r) ==
  /\ At(r, "check") /\ Fault
  /\ Goto(r, "cleanup")
  /\ UNCHANGED <<backup, media, objects, tx, doubted>>

\* ROLLBACK; when it is lost, the server finds out later.
Rollback(r) ==
  /\ At(r, "rollback")
  /\ \/ tx' = NoTx /\ UNCHANGED faults
     \/ tx' = [by |-> r, state |-> "rollingBack"] /\ Fault
  /\ Goto(r, "cleanup")
  /\ UNCHANGED <<backup, media, objects, doubted>>

\* cleanupObjects deletes in the reverse order.
NextToDelete(r, a) == a \in run[r].uploaded /\ \A b \in run[r].uploaded : b <= a

\* An object is deleted by its key.  One that cannot be deleted is passed over.
DeleteObject(r, a) ==
  /\ At(r, "cleanup") /\ NextToDelete(r, a)
  /\ run' = [run EXCEPT ![r].uploaded = @ \ {a}]
  /\ \/ objects' = [objects EXCEPT ![a] = Nobody] /\ UNCHANGED faults
     \/ objects' \in {objects, [objects EXCEPT ![a] = Nobody]} /\ Fault
  /\ UNCHANGED <<backup, media, tx, doubted>>

CleanedUp(r) ==
  /\ At(r, "cleanup") /\ run[r].uploaded = {}
  /\ Goto(r, "failed")
  /\ UNCHANGED <<backup, media, objects, tx, faults, doubted>>

\* The process ends; the server rolls its transaction back.
Crash(r) ==
  /\ ~ At(r, "done") /\ ~ At(r, "failed") /\ Fault
  /\ run' = [run EXCEPT ![r] = [pc |-> "failed", uploaded |-> {}]]
  /\ tx' = IF tx = [by |-> r, state |-> "open"] THEN [tx EXCEPT !.state = "rollingBack"] ELSE tx
  /\ UNCHANGED <<backup, media, objects, doubted>>

Step(r) ==
  \/ InsertTree(r) \/ PutObject(r) \/ PutFails(r) \/ AllPut(r) \/ RestoreRecords(r)
  \/ Commit(r) \/ CommitFails(r) \/ RestoreCommitted(r) \/ CheckFails(r)
  \/ Rollback(r) \/ (\E a \in Assets : DeleteObject(r, a)) \/ CleanedUp(r) \/ Crash(r)

Next == ServerEnds \/ \E r \in Runs : Step(r)

Spec == Init /\ [][Next]_vars

----------------------------------------------------------------------------
(* Properties *)

\* A tree that is restored has all of its files, whichever runs failed beside the one that
\* restored it ("confirms success through backup.restored").
CommittedTreeIsComplete == Committed => \A a \in Files : objects[a] # Nobody

\* The same as far as the code keeps it: when no COMMIT went unanswered.
CompleteUnlessDoubted == ~ doubted => CommittedTreeIsComplete

\* The compensation of a failed run never deletes an object that another run put, although keys
\* do not tell the runs apart and the rollback lets the next run start during the compensation.
DeletesOwnObject ==
  \A r \in Runs, a \in Assets : DeleteObject(r, a) /\ objects' # objects => objects[a] = r

CompensatesOwnObjects == [][DeletesOwnObject]_vars

\* Whoever reports success has restored the tree, with the objects it put itself, also when it
\* found out through the audit log, which names the backup and not the run.
SuccessIsOwn ==
  \A r \in Runs : At(r, "done") => Committed /\ \A a \in Files : objects[a] = r
=============================================================================
