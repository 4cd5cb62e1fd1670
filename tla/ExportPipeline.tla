--------------------------- MODULE ExportPipeline ---------------------------
(***************************************************************************)
(* One export: its export_jobs row, the objects under its key prefix, the  *)
(* executions of its export.generate job, the cleaners that remove its     *)
(* result, and a client that downloads it                                  *)
(* (internal/features/exports).                                            *)
(*                                                                         *)
(* The job queue is seen through what JobQueue implements: task is one job *)
(* of TaskLedger, every attempt is executed at most once, and only the     *)
(* current attempt settles the job.  An attempt that lost its lease keeps  *)
(* running beside its successor.                                           *)
(*                                                                         *)
(* An object key holds the checksum of the result, so an object is named   *)
(* by the tree content it was generated from.                              *)
(***************************************************************************)
EXTENDS Integers, FiniteSets

CONSTANTS
  Contents,         \* versions of the tree's data
  TooLarge,         \* those whose result exceeds a configured limit
  None,             \* the empty result_object_key
  Cleaners,         \* concurrent export.cleanup and export.delete executions
  MaxAttempts,      \* of export.generate
  MaxFaults         \* bound: failed calls and crashes in a behaviour

ASSUME ExportAssumption ==
  /\ MaxAttempts \in Nat \ {0} /\ MaxFaults \in Nat
  /\ None \notin Contents /\ TooLarge \subseteq Contents
  /\ IsFiniteSet(Contents)

VARIABLES
  tree,             \* the tree's data, and whether it is deleted
  export,           \* the export_jobs row
  objects,          \* objects in the bucket
  task,             \* the export.generate job
  run,              \* run[n]: the execution of attempt n
  deletion,         \* the export.delete job: "none", "pending" or "done"
  cleaner,          \* the cleaners
  reader,           \* the key a download has presigned, or None
  faults

vars == <<tree, export, objects, task, run, deletion, cleaner, reader, faults>>

Attempts == 1 .. MaxAttempts

Ledger == INSTANCE TaskLedger
  WITH Jobs <- {"generate"}, task <- [j \in {"generate"} |-> task]

\* pc of a run: the next call of Generator.Handle; "reject" and "giveUp" are the
\* two uses of MarkFailed; "ok" and "err" a handler that returned; "done" one that
\* was reported, "gone" one that crashed or whose report was lost.
Active == {"acquire", "load", "put", "complete", "undo", "reject", "giveUp"}
RunPC == Active \cup {"none", "ok", "err", "done", "gone"}

Key == Contents \cup {None}
Statuses == {"absent", "queued", "running", "completed", "failed", "expired"}

Export == [status : Statuses, key : Key, overdue : BOOLEAN]
Task == [phase : Ledger!Phase, tries : 0 .. MaxAttempts]
Run == [pc : RunPC, content : Key]
Cleaner == [pc : {"idle", "delete", "clear"}, key : Key, job : {"cleanup", "delete"}]

\* A cleaner between two executions.
Rested == [pc |-> "idle", key |-> None, job |-> "cleanup"]

Init ==
  /\ tree \in [content : Contents, deleted : {FALSE}]
  /\ export = [status |-> "absent", key |-> None, overdue |-> FALSE]
  /\ objects = {}
  /\ task = [phase |-> "unknown", tries |-> 0]
  /\ run = [n \in Attempts |-> [pc |-> "none", content |-> None]]
  /\ deletion = "none"
  /\ cleaner = [c \in Cleaners |-> Rested]
  /\ reader = None
  /\ faults = 0

Fault == faults < MaxFaults /\ faults' = faults + 1

-----------------------------------------------------------------------------
(* The API. *)

CreateExport ==
  /\ ~tree.deleted /\ export.status = "absent"
  /\ export' = [export EXCEPT !.status = "queued"]
  /\ task' = [phase |-> "waiting", tries |-> 0]
  /\ UNCHANGED <<tree, objects, run, deletion, cleaner, reader, faults>>

\* ExpireAccessible: from any status, with export.delete in the same transaction;
\* the job is deduplicated by the export, so a second DELETE adds none.
DeleteExport ==
  /\ ~tree.deleted /\ export.status # "absent"
  /\ export' = [export EXCEPT !.status = "expired"]
  /\ deletion' = IF deletion = "none" THEN "pending" ELSE deletion
  /\ UNCHANGED <<tree, objects, task, run, cleaner, reader, faults>>

\* Mutant of Downloadable: the second check looks only at the clock.
DownloadableByClock == ~tree.deleted /\ ~export.overdue

\* Download reads the row and presigns its key; RecordDownload checks again.
PresignDownload ==
  /\ reader = None
  /\ ~tree.deleted /\ export.status = "completed" /\ ~export.overdue
  /\ reader' = export.key
  /\ UNCHANGED <<tree, export, objects, task, run, deletion, cleaner, faults>>

Downloadable == ~tree.deleted /\ export.status = "completed" /\ ~export.overdue

RecordDownload ==
  /\ reader # None /\ Downloadable
  /\ reader' = None
  /\ UNCHANGED <<tree, export, objects, task, run, deletion, cleaner, faults>>

RefuseDownload ==
  /\ reader # None /\ ~Downloadable
  /\ reader' = None
  /\ UNCHANGED <<tree, export, objects, task, run, deletion, cleaner, faults>>

ResultExpires ==
  /\ export.status = "completed" /\ ~export.overdue
  /\ export' = [export EXCEPT !.overdue = TRUE]
  /\ UNCHANGED <<tree, objects, task, run, deletion, cleaner, reader, faults>>

EditTree ==
  /\ \/ ~tree.deleted /\ \E c \in Contents : tree' = [tree EXCEPT !.content = c]
     \/ tree' = [tree EXCEPT !.deleted = ~@]
  /\ UNCHANGED <<export, objects, task, run, deletion, cleaner, reader, faults>>

-----------------------------------------------------------------------------
(* Generator.Handle, one attempt. *)

Goto(n, pc) == run' = [run EXCEPT ![n].pc = pc]

\* retryOrFail
Retry(n) == IF n < MaxAttempts THEN "err" ELSE "giveUp"

\* A call that returns an error may have had its effect all the same.
Fails(n, pc) == Fault /\ Goto(n, pc)

\* The queue hands attempt tries + 1 to a worker: the job waits, or its lease ran
\* out while the previous attempt was stalled or gone.
BeginAttempt ==
  /\ \E u \in [phase : {"owned"}, tries : Attempts] :
       Ledger!Begin(task, u) /\ task' = u
  /\ Goto(task.tries + 1, "acquire")
  /\ UNCHANGED <<tree, export, objects, deletion, cleaner, reader, faults>>

Started(s) == IF s = "queued" THEN "running" ELSE s

\* Mutant of Acquire: an export that is already running is taken for settled.
AcquireOnce(n) ==
  /\ run[n].pc = "acquire"
  /\ export' = [export EXCEPT !.status = Started(@)]
  /\ Goto(n, IF export.status = "queued" THEN "load" ELSE "ok")
  /\ UNCHANGED <<tree, objects, task, deletion, cleaner, reader, faults>>

Acquire(n) ==
  /\ run[n].pc = "acquire"
  /\ \/ /\ export' = [export EXCEPT !.status = Started(@)]
        /\ Goto(n, IF export.status \in {"queued", "running"} THEN "load" ELSE "ok")
        /\ UNCHANGED faults
     \/ /\ export' \in {export, [export EXCEPT !.status = Started(@)]}
        /\ Fails(n, "err")
  /\ UNCHANGED <<tree, objects, task, deletion, cleaner, reader>>

\* LoadManifest and the rendering of its snapshot.
Load(n) ==
  /\ run[n].pc = "load"
  /\ \/ /\ IF tree.deleted \/ tree.content \in TooLarge
             THEN Goto(n, "reject")
             ELSE run' = [run EXCEPT ![n] = [pc |-> "put", content |-> tree.content]]
        /\ UNCHANGED faults
     \/ Fails(n, Retry(n))
  /\ UNCHANGED <<tree, export, objects, task, deletion, cleaner, reader>>

Put(n) ==
  /\ run[n].pc = "put"
  /\ \/ /\ objects' = objects \cup {run[n].content}
        /\ Goto(n, "complete") /\ UNCHANGED faults
     \/ /\ objects' \in {objects, objects \cup {run[n].content}}
        /\ Fails(n, Retry(n))
  /\ UNCHANGED <<tree, export, task, deletion, cleaner, reader>>

Completed(n) ==
  IF export.status = "running"
    THEN [status |-> "completed", key |-> run[n].content, overdue |-> FALSE]
    ELSE export

\* Mutant of Complete: a repetition of a completion counts as a conflict.
CompleteOnce(n) ==
  /\ run[n].pc = "complete"
  /\ export' = Completed(n)
  /\ Goto(n, IF export.status = "running" THEN "ok" ELSE "undo")
  /\ UNCHANGED <<tree, objects, task, deletion, cleaner, reader, faults>>

\* MarkCompleted: an export that is already completed with this very object is
\* fine; any other state is a conflict, and the object goes.
Complete(n) ==
  /\ run[n].pc = "complete"
  /\ \/ /\ export' = Completed(n)
        /\ Goto(n, IF export'.status = "completed" /\ export'.key = run[n].content
                     THEN "ok" ELSE "undo")
        /\ UNCHANGED faults
     \/ /\ export' \in {export, Completed(n)}
        /\ Fails(n, Retry(n))
  /\ UNCHANGED <<tree, objects, task, deletion, cleaner, reader>>

\* Mutant of Undo: the upload nobody wants stays.
UndoNothing(n) ==
  /\ run[n].pc = "undo"
  /\ Goto(n, "ok")
  /\ UNCHANGED <<tree, export, objects, task, deletion, cleaner, reader, faults>>

Undo(n) ==
  /\ run[n].pc = "undo"
  /\ \/ /\ objects' = objects \ {run[n].content}
        /\ Goto(n, "ok") /\ UNCHANGED faults
     \/ /\ objects' \in {objects, objects \ {run[n].content}}
        /\ Fails(n, "err")
  /\ UNCHANGED <<tree, export, task, deletion, cleaner, reader>>

\* Mutant of Refused: MarkFailed whatever the status is.
RefusedAlways == [export EXCEPT !.status = "failed"]

\* MarkFailed
Refused == IF export.status \in {"queued", "running"}
             THEN [export EXCEPT !.status = "failed"] ELSE export

\* The verdict is final: no retry unless MarkFailed itself fails.
Reject(n) ==
  /\ run[n].pc = "reject"
  /\ \/ /\ export' = Refused
        /\ Goto(n, IF export'.status \in {"failed", "expired"} THEN "ok" ELSE "err")
        /\ UNCHANGED faults
     \/ export' \in {export, Refused} /\ Fails(n, "err")
  /\ UNCHANGED <<tree, objects, task, deletion, cleaner, reader>>

\* The last attempt failed: the error is returned whatever MarkFailed answers.
GiveUp(n) ==
  /\ run[n].pc = "giveUp"
  /\ \/ export' = Refused /\ Goto(n, "err") /\ UNCHANGED faults
     \/ export' = export /\ Fails(n, "err")
  /\ UNCHANGED <<tree, objects, task, deletion, cleaner, reader>>

\* Succeed or Fail; refused when a later attempt has taken over.
Report(n) ==
  /\ run[n].pc \in {"ok", "err"}
  /\ IF task.phase = "owned" /\ task.tries = n
       THEN /\ task' \in [phase : {"succeeded", "waiting", "dead"}, tries : {n}]
            /\ IF run[n].pc = "ok" THEN Ledger!Complete(task, task')
                                   ELSE Ledger!GiveUp(task, task')
       ELSE task' = task
  /\ Goto(n, "done")
  /\ UNCHANGED <<tree, export, objects, deletion, cleaner, reader, faults>>

Crash(n) ==
  /\ run[n].pc \in Active \cup {"ok", "err"}
  /\ Fails(n, "gone")
  /\ UNCHANGED <<tree, export, objects, task, deletion, cleaner, reader>>

\* Claim buries a job whose last attempt let its lease run out.
Bury ==
  /\ task.phase = "owned" /\ task.tries = MaxAttempts
  /\ task' = [task EXCEPT !.phase = "dead"]
  /\ UNCHANGED <<tree, export, objects, run, deletion, cleaner, reader, faults>>

-----------------------------------------------------------------------------
(* Cleanup.Handle and Deleter.Handle. *)

CleanerAt(c, pc) == cleaner' = [cleaner EXCEPT ![c].pc = pc]

CleanerTakes(c, job) ==
  cleaner' = [cleaner EXCEPT ![c] =
    [pc |-> IF export.key = None THEN "clear" ELSE "delete", key |-> export.key, job |-> job]]

\* Mutant of Reserve: an export that was reserved once is not reserved again.
ReserveOnce(c) ==
  /\ cleaner[c].pc = "idle"
  /\ export.status = "completed" /\ export.overdue
  /\ export' = [export EXCEPT !.status = "expired"]
  /\ CleanerTakes(c, "cleanup")
  /\ UNCHANGED <<tree, objects, task, run, deletion, reader, faults>>

\* ReserveCleanupCandidates
Reserve(c) ==
  /\ cleaner[c].pc = "idle"
  /\ \/ export.status = "completed" /\ export.overdue
     \/ export.status = "expired" /\ export.key # None
  /\ export' = [export EXCEPT !.status = "expired"]
  /\ CleanerTakes(c, "cleanup")
  /\ UNCHANGED <<tree, objects, task, run, deletion, reader, faults>>

\* GetDeletionCandidate; deleteCandidate skips an empty key.
FetchDeletion(c) ==
  /\ cleaner[c].pc = "idle"
  /\ deletion = "pending" /\ export.status = "expired"
  /\ CleanerTakes(c, "delete")
  /\ UNCHANGED <<tree, export, objects, task, run, deletion, reader, faults>>

DeleteObject(c) ==
  /\ cleaner[c].pc = "delete"
  /\ objects' = objects \ {cleaner[c].key}
  /\ CleanerAt(c, "clear")
  /\ UNCHANGED <<tree, export, task, run, deletion, reader, faults>>

ClearExpiredResult(c) ==
  /\ cleaner[c].pc = "clear"
  /\ export' = IF export.status = "expired" THEN [export EXCEPT !.key = None] ELSE export
  /\ deletion' = IF cleaner[c].job = "delete" THEN "done" ELSE deletion
  /\ cleaner' = [cleaner EXCEPT ![c] = Rested]
  /\ UNCHANGED <<tree, objects, task, run, reader, faults>>

\* A call fails or the worker crashes: the next execution starts over.
CleanerFails(c) ==
  /\ cleaner[c].pc # "idle"
  /\ Fault
  /\ cleaner' = [cleaner EXCEPT ![c] = Rested]
  /\ UNCHANGED <<tree, export, objects, task, run, deletion, reader>>

-----------------------------------------------------------------------------
RunStep(n) ==
  \/ Acquire(n) \/ Load(n) \/ Put(n) \/ Complete(n) \/ Undo(n) \/ Reject(n) \/ GiveUp(n)
  \/ Report(n)

CleanerStep(c) ==
  \/ Reserve(c) \/ FetchDeletion(c) \/ DeleteObject(c) \/ ClearExpiredResult(c)

Next ==
  \/ CreateExport \/ DeleteExport \/ PresignDownload \/ RecordDownload \/ RefuseDownload
  \/ ResultExpires \/ EditTree \/ BeginAttempt \/ Bury
  \/ \E n \in Attempts : RunStep(n) \/ Crash(n)
  \/ \E c \in Cleaners : CleanerStep(c) \/ CleanerFails(c)

Spec == Init /\ [][Next]_vars

\* A handler that is not stalled for ever goes on; the scheduler enqueues a cleanup
\* at every interval; and the TTL of a result runs out.
FairSpec ==
  /\ Spec
  /\ WF_vars(ResultExpires)
  /\ \A c \in Cleaners : WF_vars(CleanerStep(c))

-----------------------------------------------------------------------------
(* Properties. *)

\* Type correctness of the export, its objects, its job, the runs and the cleaners.
TypeOK ==
  /\ tree \in [content : Contents, deleted : BOOLEAN]
  /\ export \in Export
  /\ objects \subseteq Contents
  /\ task \in Task
  /\ run \in [Attempts -> Run]
  /\ deletion \in {"none", "pending", "done"}
  /\ cleaner \in [Cleaners -> Cleaner]
  /\ reader \in Key
  /\ faults \in 0 .. MaxFaults

\* A completed export has its object: no stalled attempt that undoes its own upload
\* and no cleaner that started early takes the published result away.
LiveResult == export.status = "completed" => export.key \in objects

\* A download link that the API hands out (it was recorded) points to the object
\* that exists at that moment, though the key was read before the audit was written.
DownloadServesLiveResult ==
  [][RecordDownload => reader \in objects /\ reader = export.key]_vars

Unsettled == {"queued", "running"}

Quiet ==
  /\ \A n \in Attempts : run[n].pc \notin Active \cup {"ok", "err"}
  /\ \A c \in Cleaners : cleaner[c].pc = "idle"

\* A job confirmed as succeeded has given its export a final status: Handle never
\* returns nil while the export is still to be generated.
SucceededJobSettlesExport ==
  task.phase = "succeeded" => export.status \notin Unsettled

\* When nothing runs, every object that the row does not name is the work of one
\* failed call or crash: stalls and takeovers alone leak nothing.
LeaksNeedFaults == Quiet => Cardinality(objects \ {export.key}) <= faults

\* The result of an export that is deleted or out of date is removed in the end:
\* its key is cleared, in spite of failed deletions and crashed cleaners.
ResultIsRemoved == export.status = "completed" ~> (export.status = "expired" /\ export.key = None)

\* docs/WORKER.md:65: "once the retries are exhausted the export becomes failed".
ExhaustedJobSettlesExport ==
  Quiet /\ task.phase = "dead" => export.status \notin Unsettled
=============================================================================
