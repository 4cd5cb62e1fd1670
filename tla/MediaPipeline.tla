---------------------------- MODULE MediaPipeline ----------------------------
(***************************************************************************)
(* One uploaded file: its media_assets row, its objects, the client that   *)
(* uploads it, the executions of its media.process job, and the cleaners   *)
(* that remove stale uploads and deleted or rejected files                 *)
(* (internal/features/media).                                              *)
(*                                                                         *)
(* As in ExportPipeline the job queue is a task of TaskLedger: an attempt  *)
(* that lost its lease keeps running beside its successor.                 *)
(*                                                                         *)
(* "deleted" stands for status deleted, which every statement sets         *)
(* together with deleted_at.  The version column, captions, attachments    *)
(* and primary media are left out.                                         *)
(***************************************************************************)
EXTENDS Integers

CONSTANTS
  Variants,         \* kinds of derived images
  Cleaners,         \* concurrent media.cleanup executions
  MaxAttempts,      \* of media.process
  MaxFaults,        \* bound: failed calls and crashes in a behaviour
  Patient           \* TRUE: the retention outlasts every upload link and every attempt

ASSUME MediaAssumption ==
  /\ MaxAttempts \in Nat \ {0} /\ MaxFaults \in Nat
  /\ "original" \notin Variants
  /\ Patient \in BOOLEAN

VARIABLES
  body,             \* the file the client declares: an image, a document, or neither
  upload,           \* which bytes the original holds
  media,            \* the media_assets row
  objects,          \* its objects in the bucket
  client,           \* the client: holds an upload link, completes the upload
  task,             \* the media.process job
  run,              \* run[n]: the execution of attempt n
  cleaner,          \* the cleaners
  faults

vars == <<body, upload, media, objects, client, task, run, cleaner, faults>>

Attempts == 1 .. MaxAttempts

Ledger == INSTANCE TaskLedger
  WITH Jobs <- {"process"}, task <- [j \in {"process"} |-> task]

Keys == {"original"} \cup Variants

Body == {"image", "document", "broken"}

\* The bytes stored as the original: none, those of the declared checksum, or other ones.
\* The history of the others is kept, although the program does not know it: "replaced"
\* were put when an attempt had already found the file good.
Content == {"none", "declared", "other", "replaced"}

\* The images derived from an uploaded file: inspect makes them of images only.
Derived == IF body = "image" THEN Variants ELSE {}

Status == {"absent", "pending", "uploaded", "processing", "ready", "rejected", "deleted", "gone"}

\* stale: the TTL of a pending row, or the retention of a deleted or rejected one,
\* has passed.
Media == [status : Status, stale : BOOLEAN]

Client == [link : BOOLEAN, completing : BOOLEAN]

Task == [phase : Ledger!Phase, tries : 0 .. MaxAttempts]

\* pc of a run: the next call of Processor.Handle; "reject" and "giveUp" are the two
\* uses of RejectProcessing; "ok" and "err" a handler that returned; "done" one that
\* was reported, "gone" one that crashed.  todo: the images still to be uploaded.
Active == {"acquire", "download", "put", "ready", "reject", "giveUp"}
Run == [pc : Active \cup {"none", "ok", "err", "done", "gone"}, todo : SUBSET Variants]

\* seen: the status the cleaner listed the file with; todo: keys still to be deleted.
Cleaner == [pc : {"idle", "listed", "deleting"},
            seen : {"none", "pending", "rejected", "deleted"}, todo : SUBSET Keys]

Rested == [pc |-> "idle", seen |-> "none", todo |-> {}]

Init ==
  /\ body \in Body
  /\ upload = "none"
  /\ media = [status |-> "absent", stale |-> FALSE]
  /\ objects = {}
  /\ client = [link |-> FALSE, completing |-> FALSE]
  /\ task = [phase |-> "unknown", tries |-> 0]
  /\ run = [n \in Attempts |-> [pc |-> "none", todo |-> {}]]
  /\ cleaner = [c \in Cleaners |-> Rested]
  /\ faults = 0

Fault == faults < MaxFaults /\ faults' = faults + 1

\* The row with a new status, whose timestamp is new too.
Becomes(status) == [status |-> status, stale |-> FALSE]

-----------------------------------------------------------------------------
(* The API and its client. *)

\* CreateUploadIntent: the first request inserts the row, a repetition finds it; the
\* answer holds an upload link while the row is pending.
CreateUploadIntent ==
  /\ media.status \in {"absent", "pending"}
  /\ media' = IF media.status = "absent" THEN Becomes("pending") ELSE media
  /\ client' = [client EXCEPT !.link = TRUE]
  /\ UNCHANGED <<body, upload, objects, task, run, cleaner, faults>>

\* An attempt has found the file good.
Inspected == media.status = "ready" \/ \E n \in Attempts : run[n].pc \in {"put", "ready"}

\* The link binds the size and the type.  The checksum it binds is the client's word for
\* it: other bytes may be put, and put again while the link is valid.
Upload ==
  /\ client.link
  /\ objects' = objects \cup {"original"}
  /\ upload' \in {"declared", IF Inspected THEN "replaced" ELSE "other"}
  /\ UNCHANGED <<body, media, client, task, run, cleaner, faults>>

LinkExpires ==
  /\ client.link
  /\ client' = [client EXCEPT !.link = FALSE]
  /\ UNCHANGED <<body, upload, media, objects, task, run, cleaner, faults>>

\* CompleteUpload reads the row and looks at the object ...
HeadUpload ==
  /\ ~client.completing
  /\ media.status = "pending" /\ "original" \in objects
  /\ client' = [client EXCEPT !.completing = TRUE]
  /\ UNCHANGED <<body, upload, media, objects, task, run, cleaner, faults>>

\* ... and CompleteUploadEditable writes, if the row is still pending, with the job.
CompleteUpload ==
  /\ client.completing
  /\ client' = [client EXCEPT !.completing = FALSE]
  /\ IF media.status = "pending"
       THEN media' = Becomes("uploaded") /\ task' = [phase |-> "waiting", tries |-> 0]
       ELSE UNCHANGED <<media, task>>
  /\ UNCHANGED <<body, upload, objects, run, cleaner, faults>>

\* SoftDeleteEditable
DeleteMedia ==
  /\ media.status \notin {"absent", "deleted", "gone"}
  /\ media' = Becomes("deleted")
  /\ UNCHANGED <<body, upload, objects, client, task, run, cleaner, faults>>

Idle == \A n \in Attempts : run[n].pc \notin Active

\* The TTL or the retention of the row passes.
Age ==
  /\ media.status \in {"pending", "rejected", "deleted"} /\ ~media.stale
  /\ Patient /\ media.status # "pending" => Idle /\ ~client.link
  /\ media' = [media EXCEPT !.stale = TRUE]
  /\ UNCHANGED <<body, upload, objects, client, task, run, cleaner, faults>>

-----------------------------------------------------------------------------
(* Processor.Handle, one attempt. *)

Goto(n, pc) == run' = [run EXCEPT ![n].pc = pc]

\* retryOrReject
Retry(n) == IF n < MaxAttempts THEN "err" ELSE "giveUp"

\* A call that returns an error may have had its effect all the same.
Fails(n, pc) == Fault /\ Goto(n, pc)

BeginAttempt ==
  /\ \E u \in [phase : {"owned"}, tries : Attempts] :
       Ledger!Begin(task, u) /\ task' = u
  /\ Goto(task.tries + 1, "acquire")
  /\ UNCHANGED <<body, upload, media, objects, client, cleaner, faults>>

\* Mutant of Acquired: a successor takes the file for one that is being processed.
AcquiredOnce == IF media.status = "uploaded" THEN "download" ELSE "ok"

\* Where Handle goes after AcquireForProcessing.
Acquired == IF media.status \in {"uploaded", "processing"} THEN "download" ELSE "ok"

Started == IF media.status = "uploaded" THEN Becomes("processing") ELSE media

Acquire(n) ==
  /\ run[n].pc = "acquire"
  /\ \/ media' = Started /\ Goto(n, Acquired) /\ UNCHANGED faults
     \/ media' \in {media, Started} /\ Fails(n, "err")
  /\ UNCHANGED <<body, upload, objects, client, task, cleaner>>

\* Mutant of Sound: inspect does not compute the checksum of what it read.
SoundUnchecked == upload # "none" /\ body # "broken"

\* What the download and inspect ask of the stored bytes: that they exist, the declared
\* checksum, and a format inspect can decode.
Sound == upload = "declared" /\ body # "broken"

\* DownloadObject and inspect.
Download(n) ==
  /\ run[n].pc = "download"
  /\ \/ /\ IF ~Sound
             THEN Goto(n, "reject")
             ELSE run' = [run EXCEPT ![n] =
                    [pc |-> IF Derived = {} THEN "ready" ELSE "put", todo |-> Derived]]
        /\ UNCHANGED faults
     \/ Fails(n, Retry(n))
  /\ UNCHANGED <<body, upload, media, objects, client, task, cleaner>>

Uploaded(n, v) ==
  run' = [run EXCEPT ![n].todo = @ \ {v}, ![n].pc = IF run[n].todo = {v} THEN "ready" ELSE "put"]

PutVariant(n, v) ==
  /\ run[n].pc = "put" /\ v \in run[n].todo
  /\ \/ objects' = objects \cup {v} /\ Uploaded(n, v) /\ UNCHANGED faults
     \/ /\ objects' \in {objects, objects \cup {v}}
        /\ Fault /\ run' = [run EXCEPT ![n] = [pc |-> Retry(n), todo |-> {}]]
  /\ UNCHANGED <<body, upload, media, client, task, cleaner>>

Finished == IF media.status = "processing" THEN Becomes("ready") ELSE media

\* MarkProcessingReady: a file that is ready already is fine, anything else is a
\* conflict that counts as a failed attempt.
MarkReady(n) ==
  /\ run[n].pc = "ready"
  /\ \/ /\ media' = Finished
        /\ Goto(n, IF media'.status = "ready" THEN "ok" ELSE Retry(n))
        /\ UNCHANGED faults
     \/ media' \in {media, Finished} /\ Fails(n, Retry(n))
  /\ UNCHANGED <<body, upload, objects, client, task, cleaner>>

\* Mutant of Refused: a file that another attempt made ready is rejected.
RefusedLive == IF media.status \in {"processing", "ready"} THEN Becomes("rejected") ELSE media

\* RejectProcessing
Refused == IF media.status = "processing" THEN Becomes("rejected") ELSE media

Reject(n) ==
  /\ run[n].pc = "reject"
  /\ \/ /\ media' = Refused
        /\ Goto(n, IF media'.status \in {"rejected", "deleted"} THEN "ok" ELSE "err")
        /\ UNCHANGED faults
     \/ media' \in {media, Refused} /\ Fails(n, "err")
  /\ UNCHANGED <<body, upload, objects, client, task, cleaner>>

\* The last attempt failed: the error is returned whatever RejectProcessing answers.
GiveUp(n) ==
  /\ run[n].pc = "giveUp"
  /\ \/ media' = Refused /\ Goto(n, "err") /\ UNCHANGED faults
     \/ media' = media /\ Fails(n, "err")
  /\ UNCHANGED <<body, upload, objects, client, task, cleaner>>

\* Succeed or Fail; refused when a later attempt has taken over.
Report(n) ==
  /\ run[n].pc \in {"ok", "err"}
  /\ IF task.phase = "owned" /\ task.tries = n
       THEN /\ task' \in [phase : {"succeeded", "waiting", "dead"}, tries : {n}]
            /\ IF run[n].pc = "ok" THEN Ledger!Complete(task, task')
                                   ELSE Ledger!GiveUp(task, task')
       ELSE task' = task
  /\ run' = [run EXCEPT ![n] = [pc |-> "done", todo |-> {}]]
  /\ UNCHANGED <<body, upload, media, objects, client, cleaner, faults>>

Crash(n) ==
  /\ run[n].pc \in Active \cup {"ok", "err"}
  /\ Fault /\ run' = [run EXCEPT ![n] = [pc |-> "gone", todo |-> {}]]
  /\ UNCHANGED <<body, upload, media, objects, client, task, cleaner>>

\* Claim buries a job whose last attempt let its lease run out.
Bury ==
  /\ task.phase = "owned" /\ task.tries = MaxAttempts
  /\ task' = [task EXCEPT !.phase = "dead"]
  /\ UNCHANGED <<body, upload, media, objects, client, run, cleaner, faults>>

-----------------------------------------------------------------------------
(* Cleanup.Handle. *)

Clean(c, pc, seen, todo) ==
  cleaner' = [cleaner EXCEPT ![c] = [pc |-> pc, seen |-> seen, todo |-> todo]]

\* Mutant of ListCleanupCandidates: rejected files are not looked for.
ListUnwanted(c) ==
  /\ cleaner[c].pc = "idle"
  /\ media.status \in {"pending", "deleted"} /\ media.stale
  /\ Clean(c, "listed", media.status, {})
  /\ UNCHANGED <<body, upload, media, objects, client, task, run, faults>>

ListCleanupCandidates(c) ==
  /\ cleaner[c].pc = "idle"
  /\ media.status \in {"pending", "rejected", "deleted"} /\ media.stale
  /\ Clean(c, "listed", media.status, {})
  /\ UNCHANGED <<body, upload, media, objects, client, task, run, faults>>

\* Mutant of Reserve: an expired upload is cleaned up without a look at its row.
ReserveUnchecked(c) ==
  /\ cleaner[c].pc = "listed"
  /\ Clean(c, "deleting", cleaner[c].seen, Keys)
  /\ UNCHANGED <<body, upload, media, objects, client, task, run, faults>>

\* ReserveCleanupCandidate: a pending row becomes deleted, unless its upload has been
\* completed since; a row that is deleted or rejected stays so and needs no write.
Reserve(c) ==
  /\ cleaner[c].pc = "listed"
  /\ IF cleaner[c].seen = "pending"
       THEN IF media.status = "pending"
              THEN media' = Becomes("deleted") /\ Clean(c, "deleting", "pending", Keys)
              ELSE media' = media /\ cleaner' = [cleaner EXCEPT ![c] = Rested]
       ELSE media' = media /\ Clean(c, "deleting", cleaner[c].seen, Keys)
  /\ UNCHANGED <<body, upload, objects, client, task, run, faults>>

DeleteObject(c, k) ==
  /\ cleaner[c].pc = "deleting" /\ k \in cleaner[c].todo
  /\ objects' = objects \ {k}
  /\ upload' = IF k = "original" THEN "none" ELSE upload
  /\ cleaner' = [cleaner EXCEPT ![c].todo = @ \ {k}]
  /\ UNCHANGED <<body, media, client, task, run, faults>>

\* Mutant of DeleteCandidate: the row goes before its objects.
DeleteCandidateFirst(c) ==
  /\ cleaner[c].pc = "deleting"
  /\ media' = IF media.status = cleaner[c].seen THEN Becomes("gone") ELSE media
  /\ cleaner' = [cleaner EXCEPT ![c] = Rested]
  /\ UNCHANGED <<body, upload, objects, client, task, run, faults>>

\* DeleteCleanupCandidate: the row is removed when it is what the cleaner listed, and
\* as stale; the row of an expired upload is left to a later cleanup.
DeleteCandidate(c) ==
  /\ cleaner[c].pc = "deleting" /\ cleaner[c].todo = {}
  /\ media' = IF cleaner[c].seen # "pending" /\ media.status = cleaner[c].seen
                THEN Becomes("gone") ELSE media
  /\ cleaner' = [cleaner EXCEPT ![c] = Rested]
  /\ UNCHANGED <<body, upload, objects, client, task, run, faults>>

\* A call fails, after its effect or before, or the worker crashes: the next execution
\* lists again.
CleanerFails(c) ==
  /\ cleaner[c].pc # "idle"
  /\ Fault
  /\ cleaner' = [cleaner EXCEPT ![c] = Rested]
  /\ UNCHANGED <<body, upload, media, objects, client, task, run>>

-----------------------------------------------------------------------------
RunStep(n) ==
  \/ Acquire(n) \/ Download(n) \/ MarkReady(n) \/ Reject(n) \/ GiveUp(n) \/ Report(n)
  \/ \E v \in Variants : PutVariant(n, v)

CleanerStep(c) ==
  \/ ListCleanupCandidates(c) \/ Reserve(c) \/ DeleteCandidate(c)
  \/ \E k \in Keys : DeleteObject(c, k)

Next ==
  \/ CreateUploadIntent \/ Upload \/ LinkExpires \/ HeadUpload \/ CompleteUpload
  \/ DeleteMedia \/ Age \/ BeginAttempt \/ Bury
  \/ \E n \in Attempts : RunStep(n) \/ Crash(n)
  \/ \E c \in Cleaners : CleanerStep(c) \/ CleanerFails(c)

Spec == Init /\ [][Next]_vars

\* A handler returns, links and retentions run out, and the scheduler enqueues a
\* cleanup at every interval.
FairSpec ==
  /\ Spec
  /\ WF_vars(LinkExpires) /\ WF_vars(Age)
  /\ \A n \in Attempts : WF_vars(RunStep(n))
  /\ \A c \in Cleaners : WF_vars(CleanerStep(c))

-----------------------------------------------------------------------------
(* Properties. *)

\* Type correctness of the row, its objects, its job, the runs and the cleaners.
TypeOK ==
  /\ body \in Body /\ upload \in Content
  /\ media \in Media
  /\ objects \subseteq Keys
  /\ client \in Client
  /\ task \in Task
  /\ run \in [Attempts -> Run]
  /\ cleaner \in [Cleaners -> Cleaner]
  /\ faults \in 0 .. MaxFaults

Accepted == {"uploaded", "processing", "ready"}

\* A file the API shows has its objects: the original from the completion of its
\* upload on, the derived images once it is ready, although completion, cleanup of
\* expired uploads and attempts that overlap never lock one another out.  The stored
\* original is the declared one, unless the client replaced it through a link that was
\* still valid after the file had been inspected.
LiveMediaIsStored ==
  /\ media.status \in Accepted => "original" \in objects
  /\ media.status = "ready" => /\ body # "broken" /\ upload \in {"declared", "replaced"}
                               /\ Derived \subseteq objects

\* docs/WORKER.md:47: a row is removed only after its objects; with a retention that
\* outlasts links and attempts nothing is uploaded behind the cleaner's back.
RemovedMediaLeavesNothing == media.status = "gone" => objects = {}

\* A job confirmed as succeeded has settled its file: Handle never returns nil while
\* the file is still to be judged.
SucceededJobSettlesMedia ==
  task.phase = "succeeded" => media.status \notin {"pending", "uploaded", "processing"}

\* A deleted or rejected file is removed in the end, and an upload that nobody
\* completes does not stay pending, in spite of failed deletions and crashed cleaners.
StaleMediaIsRemoved ==
  /\ media.status \in {"rejected", "deleted"} ~> media.status = "gone"
  /\ media.status = "pending" ~> media.status # "pending"
=============================================================================
