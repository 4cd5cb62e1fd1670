# Family tree backend: verification

TLA+ models of the backend of the family tree application (Go, PostgreSQL, an S3 object store), model-checked with
TLC on small instances and, for the results listed under [Proofs](#proofs), proved with TLAPS for every value of the
constants. Paths are relative to the root of the repository (`src/` in `PROJECT.json`); line numbers are those of
the commit the models were written from. `PROJECT.json` maps every definition to the lines it stands for.

- [The system](#the-system)
- [Components, their state and what makes them correct](#components)
- [Where it is hard](#hazards)
- [Modules](#modules)
- [Runs](#runs)
- [Proofs](#proofs)
- [Where code and documents disagree](#disagreements)
- [What is not modelled](#not-modelled)
- [Plan](#plan)

<a name="the-system"></a>
## The system

Two programs share one PostgreSQL database and one bucket.

- **cmd/family_tree_app** serves HTTP. A request is authenticated locally (signed token), then handled by one of the features:
  trees and memberships, persons, relationships (parent-child), unions, media, exports. Each feature is a
  service over a repository; a repository operation is one SQL statement or one transaction at READ COMMITTED.
  Work that takes long is put on the job queue in the same transaction as the change that asks for it.
- **cmd/worker** (any number of processes) drains the queue: `media.process`, `media.cleanup`, `export.generate`,
  `export.cleanup`, `export.delete`. Each process also enqueues the periodic cleanup jobs, deduplicated by the
  interval they belong to.
- **cmd/migrate** brings the schema up or down under an advisory lock. **cmd/restore-backup** reads a ZIP backup
  made by an export and writes it into an empty database and bucket.

```
  client --HTTP--> api ----tx----> PostgreSQL: trees, persons, relations, unions, media, export_jobs
                    | \                         background_jobs (the queue)
            presign |  `--tx: change + enqueue-----^      | claim / heartbeat / succeed / fail
                    v                                     v
                 S3 bucket <--- put / delete ---------- worker processes (handlers, schedulers)
```

All coordination goes through rows. Nothing in the worker fences the object store: a handler that has lost its
lease may still put or delete an object. That is where the feature code, and not the queue, has to be right.

<a name="components"></a>
## Components, their state and what makes them correct

| component | state | operations | correct when | modelled in |
|---|---|---|---|---|
| job queue `internal/core/jobs/postgres` | `background_jobs`: status, attempts, max_attempts, available_at, locked_by, lease_expires_at | EnqueueWith, Claim (with burial), Heartbeat, Succeed, Fail | an execution costs an attempt, no job is stranded or resurrected, the current attempt is the locker's | `JobQueue` |
| worker loop `internal/core/jobs/worker` | the process: job in hand, heartbeat goroutine, cancellation, backoff | Run, process, startHeartbeat, acknowledge, retryDelay | a handler that has not been told to stop owns its job; an answer settles the attempt it is about; every job settles | `JobQueue`, `RetryBackoff` |
| exports `internal/features/exports` | `export_jobs`: status, result_object_key, expires_at; objects in the bucket | create, delete, download; Generator.Handle; Cleanup.Handle, Deleter.Handle | a published result exists until it is withdrawn, nothing is published twice, nothing leaks | `ExportPipeline` |
| export rendering `internal/features/exports/{gedcom,visual,processing}` | none | manifest to JSON, ZIP, GEDCOM, GEDZIP, PDF, PNG, SVG | the drawing and the families of the file say what the tree is | `VisualLayout`, `GedcomFamilies`; the formatting is not modelled |
| relations `internal/features/relationships` | `parent_child_relations`, version | create (acyclic, under the tree's advisory lock), update, soft delete, the graph around a person | no cycle among live persons, no duplicates, no lost update; an answer is the tree at one moment | `FamilyGraph`, `VersionedRows`, `GraphView` |
| persons `internal/features/persons` | `persons`: deleted_at, version | create, update, soft delete, restore, list | no lost update; relations stay meaningful; paging neither skips nor repeats | `VersionedRows`, `FamilyGraph`, `PrimaryMedia`, `PersonList` |
| backup restore `internal/features/exports/restore` | a transaction, objects uploaded | archive check, restore, compensation | accepts exactly the sound backups; leaves nothing behind on failure | `BackupCheck` (the cycle check), `TreeRestore` |
| media `internal/features/media` | `media_assets`, `media_variants`, `person_media`; objects | intent, completion, update, delete, attach, detach, set primary; process; cleanup | what may be shown is stored, judged once, and removed without a trace in the end; primary media is attached and live | `MediaPipeline`; `PrimaryMedia` for attachments and the primary file; `VersionedRows` for captions |
| unions `internal/features/unions` | `family_unions`, `union_members`, version | create, get, update, delete, add/remove member | the limits on members hold under concurrency; nobody changes what they have not seen | `FamilyUnion` |
| trees and memberships `internal/features/trees` | `family_trees`, `tree_memberships`, version | create, get, update, delete, restore | no lost update; the audit log tells what requests delete | `VersionedRows`; `ExportPipeline` has edits and deletion as environment |
| auth `internal/features/auth`, `internal/core/auth` | none (gRPC to the identity service, local token check) | register, login, refresh, ... | - | not modelled: stateless |
| rate limiter `internal/features/auth/ratelimit` | fixed windows per key | Allow (memory, Redis) | limit per window, bounded table | `RateLimit` |
| migrations `migrations`, `cmd/migrate` | `schema_migrations`, advisory lock | Up, Down | the schema is at a version of one build | `Migrations` |
| periodic scheduling `cmd/worker` | a ticker per kind | enqueue per interval bucket | a cleanup for every interval | `Scheduling`; the pipelines have it as fairness |
| HTTP, health, adapters, observability | none | - | - | not modelled: I/O |

<a name="hazards"></a>
## Where it is hard

`PROJECT.json` lists each hazard at its line with the properties that would catch it. In short:

1. **Leases are time.** A worker's belief that it owns a job and the row's are synchronised only by clocks and
   timers: a heartbeat may time out at the client and reach the database later, the answer of `Succeed` may be lost
   after its effect, a process may stall past its lease and go on (`LiveHandlerOwnsJob`, `AcksSettleOwnAttempt`,
   `AttemptsDistinct`, `CurrentAttemptIsLockers`).
2. **The WHERE clauses compare `locked_by` and the lease, not the attempt**, so a late statement of a worker can
   match a row that the same worker has claimed again.
3. **The last attempt.** It can fail, be abandoned, or be buried; in the last case nobody tells the feature
   (`NoLimbo`, `EveryJobSettles`, `SucceededJobSettlesExport`, and the disagreement `ExhaustedJobSettlesExport`).
4. **Row and object store are two systems.** Upload, completion, undo, reservation, deletion and clearing interleave
   between attempts, cleaners, deletions and downloads (`LiveResult`, `DownloadServesLiveResult`, `LeaksNeedFaults`,
   `ResultIsRemoved`).
5. **The same for media**, where the client uploads by itself with a presigned link, completion and the cleanup of expired
   uploads race for one row, attempts that overlap may reach different verdicts, and what is inspected may be replaced before or after (`LiveMediaIsStored`,
   `RemovedMediaLeavesNothing`, `SucceededJobSettlesMedia`, `ImplementsMediaContract`, `StaleMediaIsRemoved`).
6. **Attachments and the primary file** span three tables. A transaction checks rows FOR SHARE and writes others, and two of them
   can wait for each other (`PrimaryIsAttachedAndReady`, `ImplementsPersonMedia`, `DeadlocksNeedUpgrade`).
7. **Graph checks read, then write**, in several READ COMMITTED statements, beside operations that do not take
   the lock (`CyclesPassThroughRestored`).
8. **Two checks of one rule**: creation and restore both look for cycles, in different graphs (`AcyclicBackupAccepted`,
   `RejectsExactlyCycles`).
9. **Optimistic versions without a transaction.** A service reads the row, compares the version, and writes later; unions also
   change without a version, under a row lock, and are read in two statements (`NoLostUpdate`, `AuditTellsDeletions`,
   `LateEditsBounded`, `SizeWithinLimits`, `NoBlindChange`, `AnswersMatchHistory`).
10. **Restore spans a transaction and the bucket**: its compensation, runs that crash, objects they leave at the same keys, a
   COMMIT without an answer (`CompleteUnlessDoubted`, `CompensatesOwnObjects`, `SuccessIsOwn`, and the disagreement
   `CommittedTreeIsComplete`).
11. **Reads of several statements or requests** beside writes: the graph around a person, the pages of a list
   (`AnswerIsOneMoment`, `UntouchedShownOnce`).
12. **Several processes at one task**: deployers with different builds, schedulers with tickers of their own
   (`AtSomeVersionOfABuild`, `CleanupEveryInterval`).
13. **Bounds and orders of loops and tables**: the retry delay, the counters of the rate limit, maps iterated in any order
   (`DelayIsCappedDoubling`, `BurstBelowTwice`, `FlattestDrawing`, `ExportsActiveTree`).

<a name="modules"></a>
## Modules

| module | what it is |
|---|---|
| `TaskLedger` | abstract: what the queue promises a caller, with no workers, leases or clock |
| `JobQueue` | the queue table and the worker processes |
| `JobQueueRefinement` | the mapping from `JobQueue` to `TaskLedger`; `ImplementsLedger` |
| `JobQueueProofs` | theorems about `JobQueue` |
| `ExportContract` | abstract: what an export is to the client who asked for it |
| `ExportPipeline` | one export, its objects, its job (as a `TaskLedger` task), cleaners, a download |
| `ExportRefinement` | the mapping from `ExportPipeline` to `ExportContract`; `ImplementsContract` |
| `ExportProofs` | theorems about `ExportPipeline` |
| `MediaContract` | abstract: what an uploaded file is to its owner |
| `MediaPipeline` | one file: its row, its objects, the uploading client, its job (a `TaskLedger` task), cleaners |
| `MediaRefinement` | the mapping from `MediaPipeline` to `MediaContract`; `ImplementsMediaContract` |
| `MediaProofs` | theorems about `MediaPipeline` |
| `PersonMedia` | abstract: attachments and primary files with indivisible operations |
| `PrimaryMedia` | the transactions behind them, with their statements and row locks; `ImplementsPersonMedia` |
| `PrimaryMediaProofs` | theorems about `PrimaryMedia`, and that `PersonLinks` is no more than its two parts |
| `RelationGraph` | edges, paths (as reachability), acyclicity |
| `FamilyGraph` | persons and relations of one tree, concurrent creation requests |
| `FamilyGraphProofs` | theorems about `FamilyGraph`, as `PersonLinks` instantiates it |
| `BackupCheck` | the cycle check of a backup (indegrees and a stack), against `Acyclic` |
| `RetryBackoff` | `retryDelay` in two's complement arithmetic |
| `FamilyUnion` | one union, the requests that read and change it statement by statement, persons beside it |
| `VersionedRows` | a tree and a row kept in it: reads, versions, conditional writes, audit records |
| `TreeRestore` | runs of the restore command: transaction, uploads, commit, compensation |
| `GraphView` | the request for the graph around a person, against a definition of the answer |
| `PersonList` | paging through the persons by name |
| `RateLimit` | attempts counted for addresses and accounts, in memory or in Redis |
| `Migrations` | deployers with different builds under the advisory lock |
| `Scheduling` | the tickers of the worker processes and the jobs they enqueue |
| `VisualLayout` | the generations of a drawing, against the flattest one there is |
| `GedcomFamilies` | the FAM records of a GEDCOM file, against the tree |
| `PersonLinks` | composes `PrimaryMedia` and `FamilyGraph` side by side |
| `Records` | composes `FamilyUnion` and `VersionedRows` side by side |
| `RecordProofs` | theorems about the two |
| `Commands` | composes `TreeRestore`, `BackupCheck`, `RetryBackoff`, `GraphView`, `PersonList`, `RateLimit`, `Migrations`, `Scheduling`, `VisualLayout` and `GedcomFamilies` side by side |
| `CommandProofs` | theorems about `TreeRestore`, `RetryBackoff`, `Migrations`, `Scheduling` and `GedcomFamilies` |
| `ViewProofs` | theorems about `BackupCheck`, `GraphView`, `RateLimit`, `PersonList` and `VisualLayout` |
| `MC*` | values for TLC: model values, small sets, symmetry, a state constraint |

The layers compose through their abstract specifications: `JobQueue` is shown to implement `TaskLedger`, and
`ExportPipeline` and `MediaPipeline` use the steps of `TaskLedger` as their view of the queue, so what they show holds over
every behaviour the queue can give it, stalled attempts that run beside their successors included.

`PersonLinks`, `Records` and `Commands` put several modules that share no state side by side: a behaviour chooses one of them in its initial
state and never leaves it, so their state spaces are added and not multiplied. `LinksAreInstances`, `RecordsAreInstances` and `PartsAreInstances` are the
proof that nothing else happens: every behaviour of the composition is, for each part, a behaviour of that part by itself, so
that the theorems about the parts are about what the runs check.

Operators whose comment says *Mutant of X* or *A plausible bug, never used here* are deliberately wrong variants of X, the definition
that follows. They are used nowhere in the specifications; put in the place of X they make the property that `PROJECT.json` names with
them fail, which shows that the property depends on the code it is about.

### JobQueue

One `row` per job, one record per worker process, the statements that their senders gave up on (`late`), and a
count of injected faults.

- *Time.* `Tick` is a unit of time. A timestamp column is kept as what is left of it (`lease_expires_at - now`), and
  ages with `Tick`; a statement carries the clock reading of its sender as an `age`. `lease > -age` is the
  `lease_expires_at > $now` of the SQL, evaluated with the reading the worker took before it sent the statement.
  Clocks of processes are taken to agree (the code compares timestamps of several machines and has no other
  defence). Columns are clipped at `-Latency`, below which no comparison can tell them apart.
- *Statements.* `Claim` (repository.go:101-166) is one statement that buries every exhausted job and claims one
  candidate. `FOR UPDATE SKIP LOCKED` lets concurrent claims pass over each other's rows, so any candidate may be the one
  that is claimed, whatever `ORDER BY` says. `Held` is the common WHERE clause of Heartbeat, Succeed and Fail.
- *The worker.* `Poll`, `ClaimLands`, `ClaimErrors` are one turn of `Run`; `SendHeartbeat`, `HeartbeatLands`,
  `HeartbeatErrors`, `HeartbeatStops` the heartbeat goroutine; `HandlerReturns` and `Finish` are `process` around
  `callHandler`; `AckLands`, `AckErrors` the acknowledgement. A call errs because of a fault (bounded by
  `MaxFaults`) or because its own timeout passed. When it errs its statement is either lost or joins `late` and
  may still reach the database (`LateLands`).
- *Processes.* `Shutdown` cancels the context, `Crash` drops everything but the statement on the wire, `Restart`
  brings back a process with the same `WORKER_ID` (`ReuseIDs`). With `ReuseIDs` FALSE an ID dies with its process, as
  with the default of `config.go`, the host name and a fresh UUID.
- *Timely.* TRUE: `Tick` waits for timers that are due, that is, a process runs when its timer fires. FALSE: a
  process may stall for any time at any point.

`LiveHandlerOwnsJob` and `AcksSettleOwnAttempt` need the conditions `Prompt` of `JobQueueProofs`, and are proved from them:
timers on time, IDs that do not come back, and `2 * Latency + HeartbeatInterval < LeaseDuration`. `worker.New` requires only
`2 * HeartbeatInterval < LeaseDuration` and a positive `AckTimeout`; the default lease and heartbeat (30 s, 10 s) satisfy the
stronger inequality as long as no statement reaches the database more than 10 s after its sender read the clock, whereas with
`LeaseDuration = 3` and intervals of 1 the configuration is accepted and TLC finds two live handlers on one job. The network
counts twice: the grant of the lease may have been that late, and so may the answer that a worker gave up on. With
`LeaseDuration = 5`, `Latency = 2` and intervals of 1, where the inequality fails by one tick, the lease runs out before such
an answer arrives: the worker claims the job again and its own old `Succeed` settles the new attempt under its live handler. With
stalls, or with a `WORKER_ID` that comes back (docs/WORKER.md asks for unique ones), the same can happen whatever the lease, since
nothing in the row tells the attempts of one worker apart.

### TaskLedger and JobQueueRefinement

A task is tried at most `MaxAttempts` times, each try is counted before it starts, a task is buried only after its
last try, a settled one never changes. The mapping forgets lockers, leases and clocks: `running` is `owned`,
`queued` and `failed` are `waiting`. One claim may bury several jobs and begin another, so a step of the ledger
is a step or a stutter of each task.

### ExportPipeline

- *Objects.* The key of a result contains the checksum of its bytes, so an object is named by the tree content it was
  made from, and two attempts that see the same content write the same key. That two attempts can share a key is what
  makes the undo of a late upload dangerous.
- *The generator.* One record per attempt; `pc` is the next call of `Generator.Handle`. Every call may fail before or
  after its effect (both disjuncts of each action). `Retry` is `retryOrFail`. `Complete` includes the
  second look that `MarkCompleted` takes when its UPDATE matched no row: a completion with the same object is
  a success, everything else is a conflict that leads to `Undo`. `MarkCompleted` and `MarkFailed` are an UPDATE that
  may match nothing and then a SELECT; they are one action here, because an UPDATE that changes nothing commutes with
  every other step and the SELECT decides.
- *The queue.* `BeginAttempt`, `Report` and `Bury` are `Begin`, `Complete`/`GiveUp` of `TaskLedger` and the burial of
  `Claim`. An attempt that was superseded goes on running, and its report changes nothing.
- *The cleaners.* `Reserve` (ReserveCleanupCandidates), `FetchDeletion` (GetDeletionCandidate), `DeleteObject`,
  `ClearExpiredResult`; each of the `Cleaners` may execute either job, so that two overlap. A cleaner that fails starts over.
- *The client.* A download is two steps: `PresignDownload` reads the row and signs the key, `RecordDownload` checks
  again; the property relates the second to the key of the first.
- *Environment.* `EditTree` changes, deletes or restores the tree; `ResultExpires` is the passing of `expires_at`.

### ExportContract and ExportRefinement

An export is requested, published once from one version of the tree, or failed, and withdrawn. `available` is
`completed` with its object existing; `withdrawn` is `expired`. That `completed` never turns into `failed`, that a second attempt never replaces a
published key, and that a withdrawn export is never published again is the content of `ImplementsContract`.

### MediaPipeline

- *The row.* `media.status` is the column, with `absent` before the insert and `gone` after the DELETE; `deleted` stands for
  status and `deleted_at`, which every statement sets together. `stale` says that the time stamp of the status
  (`created_at` of a pending row, `deleted_at`, `processed_at` of a rejected one) has passed the limit the cleanup payload
  compares it with; a new status has a new stamp (`Becomes`), which is what protects a row that changed after it was listed.
- *The client.* `CreateUploadIntent` hands out a link while the row is pending; `Upload` puts the original any number of times until
  `LinkExpires`, also after completion or deletion. `HeadUpload` and `CompleteUpload` are the two halves of
  `Service.CompleteUpload` around the object store. The client has declared bytes (`body`) that are an image, a document without
  derived images, or something `inspect` refuses. The link binds their size and their type, the checksum only as what the client says
  it is (adapter.go:107-140), so `Upload` may put other bytes (`upload`), again and again. `inspect` computes the checksum of what it
  reads (`Sound`). Bytes that arrive after an attempt has found the file good are `replaced`: nothing inspects them again, and the
  program does not know. `LiveMediaIsStored` says that the original of a ready file is the declared one unless it was replaced in this
  way. So what the API serves of a ready file is what was inspected only if the client left it alone until the link expired.
- *The processor.* One record per attempt, `pc` the next call of `Processor.Handle`. `Acquired` lets every attempt
  work on a file that is `processing`, so that a successor can take over and two can overlap. `MarkReady` is content with a
  file that is ready; `Reject` with one that is rejected or deleted; every other answer is an error. `GiveUp` is
  `RejectProcessing` of `retryOrReject`, which returns the error anyway.
- *The cleaners.* `ListCleanupCandidates`, `Reserve`, `DeleteObject` for each key, `DeleteCandidate`. A pending row is reserved by an UPDATE
  that only a pending row matches, and left to a later cleanup; the others need no reservation. A failed call or a crash
  ends the execution, and the next one lists anew.
- *Patient.* `RemovedMediaLeavesNothing` is about deployments whose retention (30 days by default) outlasts the links and the
  attempts: `Age` then waits until no link is valid and no attempt is in a call. The time between the check of the row and the
  signing of a link is counted to the link. With `Patient` FALSE an attempt that stalls for longer than the
  retention uploads a derived image behind the back of the cleaner. The other properties do not depend on it.

`MediaContract`: a file is awaited, accepted, shown or refused, deleted, removed. `shown` means `ready` with all its objects
existing, so that the refinement also says that no cleaner takes them away. That the verdict of one attempt is never replaced by that of
another, and that an accepted file is never taken for an expired upload, is the content of `ImplementsMediaContract`.

### PrimaryMedia

One `tx` record per connection: the operation, the statement it is at, the rows that statement has found and not yet locked, and
the locks held. `Script` lists the statements of each operation in the order of the code; `Matches` is their WHERE clauses.

- *A statement* (`Find`, then `Lock` for each row) finds its rows in what is committed when it starts, waits for each and
  looks at it again when it has the lock, as PostgreSQL does at READ COMMITTED. A statement that matches nothing ends the
  transaction, except the two that clear primary files and the cascade (`Optional`).
- *Locks* (`Blocks`). FOR SHARE excludes writers, a write excludes both. The UPDATEs here take FOR NO KEY UPDATE, which lets the FOR KEY SHARE
  of foreign key checks pass; these are left out, since each transaction that makes one already holds FOR SHARE on the row
  (the cleanup's own check reads persons, whose keys nobody writes). An INSERT into `person_media` waits only for somebody who
  is writing the same key.
- *Writes* are made at the commit: no statement reads what its own transaction has written, and nobody else sees it earlier.
- *Who takes part.* `CanAttach` admits only files that are ready, so files start there, and `RejectProcessing` (of a file in
  processing) never meets an attachment. `DeletePerson` stands for every single-row write of a person, an update included, as far as
  locks go. A stale version, a refused access, a cancelled request and the deadlock detector all end in `Abort`, which is always possible.
- *Order inside a statement.* A statement with several rows may wait at any of them, so `WaitsFor` has every edge that some scan order
  could produce.

`DeadlocksNeedUpgrade` is the strongest statement of its kind: with `SetPrimary` or `Detach` there are circles. Two set-primary requests for one
person both hold the person FOR SHARE and both want to write it; set-primary locks attachment before person and detach
person before attachment. PostgreSQL fails one of them.

### FamilyGraph

`CreateAcyclicEditable` is modelled statement by statement under the tree's advisory lock: lock, both persons are
active, duplicate and cycle queries, insert. Each statement sees what was committed before it. Person creation, deletion and
restoration take no lock and may fall between any two of them. The recursive query descends only through relations whose child
is live *now* (`Visible`). Updates and soft deletions are one statement under the lock. `restored` is a history variable: the
persons that were ever deleted and brought back.

`CyclesPassThroughRestored` is the strongest acyclicity that this code has: the relations among live persons that were
never restored have no cycle. Without the words "never restored" it is false, which is the disagreement `ActiveGraphAcyclic` below.

### BackupCheck, RetryBackoff

`BackupCheck` is the loop of `validateManifestRelations` step by step, from every graph of the bound, with the roots in every order (a Go
map is iterated in no particular one) and parallel relations of several types. `RetryBackoff` is the loop of `retryDelay` with a `Wrap`
that is two's complement at the chosen width.

### FamilyUnion

- *Requests.* Adding and removing a member lock the row (`LockUnion` is `loadUnionForUpdate`), check the person, count, insert or delete, and
  bump the version. Update and delete read the union and its members in two statements without a transaction (`ReadUnion`,
  `ReadMembers`), compare the version the client named, and write WHERE the version is still that one. An answer may be lost, a
  request may be aborted anywhere.
- *What a client knows* (`known`) is the last aggregate it was given; it names that version in later requests. `NoBlindChange` relates it to
  the row at the moment of the write. It holds although a plain read can pair an old version with newer members, because such an answer
  names a version that is no longer current.
- *History.* `history` keeps the members that each version had, for `AnswersMatchHistory`.

### VersionedRows

One module for the four features that share the scheme: `kind` chooses whether the row is a person, a relation or a file, and the
guards differ as the code does (relations and files are not restored, a relation's update also fails when a person is deleted, a tree
is not checked for being editable). The content of a field is the version at which it was last written, so that a lost update shows
as an old number.

`Beside` is what happens to the row outside of the requests of its own feature. `SetPrimaryMedia` and `ClearPrimaryMedia` write a person's primary
file: it is cleared in the rows of deleted persons too, whose versions grow with it. `ProcessMedia` moves a file on, from its
upload to its verdict. `ReserveCleanupCandidate` deletes a file whose upload was never completed, and `DeleteCleanupCandidate` removes the row of one
that is deleted or rejected, both without an audit record; `swept` remembers which. The requests behind `SetPrimaryMedia` and the completion of an
upload compare a version as well; here they do not, so that the model allows more than the code. `PrimaryMedia` follows the first statement by statement,
`MediaPipeline` the second.

`NoLostUpdate` is about the whole row: whoever changes it knew all of its content. It needs every one of those writers to stamp a new version.
`AuditTellsDeletions` says in both directions what the audit log is worth: a row it says is deleted is deleted, and a deleted row is told by it or is a file
of the cleanup. `LateEditsBounded` says how much the unlocked check of the tree costs: each request in progress when the tree is deleted may still
change one row, and nobody later.

### TreeRestore

A run is `insertTree` (the unique index serialises the runs), `putNewObject` for each file in the order of the manifest, the records, COMMIT;
then the check of an ambiguous commit, ROLLBACK and `cleanupObjects`. `objects` says which run put each object, which the keys do not
tell. A transaction whose run has lost it is `rollingBack` or `committing` until `ServerEnds` it. Calls fail with and without their effect and
a run may crash; a failed deletion took effect at once or not at all.

A failed put may have created an object that nobody remembers, and a crashed run leaves all of its own. The next run meets them as
conflicts (`PutObject`) and must not delete them, which is `CompensatesOwnObjects`; that no later run of this backup can succeed until they are
removed by hand follows, and is documented nowhere.

### GraphView, PersonList

`GraphView` has the statements of `LoadGraphAccessible` one by one: the paths of the recursive query, the anchored unions, the node limit. `Whole`
defines the answer from one state of the tree with a breadth-first ball instead of paths. `moments` collects the states the
tree was in during the request. `PersonList` has the page and its cursor (`NextCursor`) with one row of lookahead, between pages that are separate
requests, and renames, creations, deletions and restorations in between.

### RateLimit

`allowAuthAttempt` counts an attempt for its address and then for its account. `Kept` is the search for room in the table of the process, and what
Redis expires by itself; a call to Redis that fails may have counted. `allowed` is the history of one key, any of them, over the
last window. A fixed window lets through at most twice the limit less one in any stretch as long as a window
(`AllowedWithin` adds the ticks up).

### Migrations, Scheduling

A deployer carries its own build, a checksum for each version. `ddl` and records are changed by a transaction that may fail at any
statement; `AcquireLock` is `pg_advisory_xact_lock`. `Scheduling` has one ticker per process with the channel of length one
that drops ticks, insertions that fail, and processes that stop and start; the job is the start of the interval of its tick. A process reads the clock
(`Start`), inserts its first job (`EnqueueFirst`) and starts the ticker (`StartTicker`) at three moments: between the second and the third
is the first job of the other cleanup. An interval that begins in this gap may have no job although its process runs and loses no tick: the
process's first tick may come only after it. So `Covers` makes a process stand for the interval of its first job and for those that begin after its ticker was
started, and that is what `CleanupEveryInterval` is about.

### VisualLayout, GedcomFamilies

`VisualLayout` is `generationRanks` (a queue over indegrees) and `alignUnionRanks` (passes over two Go maps, in any order). It is compared with
`Drawings`, all assignments that put children below parents and partners side by side: the loop's bound never refuses a tree that
has one, and what it finds is the least, which no order of the maps can change. `GedcomFamilies` writes the records of unions first and then puts each
child's parents, two at a time and by type of relation, into the first record with exactly these partners that does not have the child yet
(`MatchingFamily`). `Read` is what a reader of the file learns from it.

<a name="runs"></a>
## Runs

| run | bounds | what it shows |
|---|---|---|
| `JobQueueTimed` | 2 workers, 2 jobs, 2 attempts, lease 4, heartbeat 1, timeout 1, latency 1, 1 fault, timely, IDs not reused | `NoLimbo`, `LiveHandlerOwnsJob`, `AcksSettleOwnAttempt`, `ImplementsLedger` |
| `JobQueueLive` | 2 workers, 1 job, 2 attempts, lease 4, 2 faults, timely, IDs reused, fair | `AttemptsDistinct`, `CurrentAttemptIsLockers`, `EveryJobSettles` |
| `Exports` | 3 contents (one too large), 2 cleaners, 2 attempts, 2 faults | `LiveResult`, `SucceededJobSettlesExport`, `LeaksNeedFaults`, `DownloadServesLiveResult`, `ImplementsContract` |
| `ExportsRemoved` | 2 contents (one too large), 2 cleaners, 2 attempts, 2 faults, fair | `ResultIsRemoved` |
| `ExportExhausted` | the same with 1 cleaner, violation | a buried job leaves its export queued or running |
| `FamilyGraphRestored` | 3 persons, 1 editor, violation | a restored person closes a cycle |
| `FamilyGraphBackup` | 3 persons, 1 editor, violation | an acyclic tree has a backup that restore refuses |
| `MediaLife` | 2 derived images, 2 cleaners, 2 attempts, 1 fault, patient, fair | `LiveMediaIsStored`, `RemovedMediaLeavesNothing`, `SucceededJobSettlesMedia`, `ImplementsMediaContract`, `StaleMediaIsRemoved` |
| `PersonLinks` | files: 1 person, 2 files, 3 connections; relations: 3 persons, 2 types, 2 editors, at most 3 relations | `PrimaryIsAttachedAndReady`, `DeadlocksNeedUpgrade`, `ImplementsPersonMedia`; `CyclesPassThroughRestored` |
| `Records` | union: 3 persons, 2 clients, 1 to 2 members, 3 versions, 1 deleted person; rows: 2 clients, 1 field, 4 versions | `SizeWithinLimits`, `AnswersMatchHistory`, `NoBlindChange`; `AuditTellsDeletions`, `LateEditsBounded`, `NoLostUpdate` |
| `Commands` | ten parts, see below | `CompleteUnlessDoubted`, `SuccessIsOwn`, `CompensatesOwnObjects`, `RejectsExactlyCycles`, `DelayIsCappedDoubling`, `AnswerIsOneMoment`, `UntouchedShownOnce`, `BurstBelowTwice`, `AtSomeVersionOfABuild`, `CleanupEveryInterval`, `FlattestDrawing`, `ExportsActiveTree` |
| `RestoreAmbiguous` | 2 runs, 2 files, 3 faults, violation | a COMMIT that takes effect after the check leaves a tree without files |

No run checks a type invariant that a theorem proves for every instance.

### Why the bounds are enough

- *Queue.* Two workers are what a race takes, and two attempts are what it takes for one to supersede another
  and for the last to differ from the rest. A lease of 4 with interval and latency of 1 is the smallest that satisfies
  the inequality above. Two jobs
  let one claim bury a job and take another; the row of one job never reads another's, so more add nothing. The two-job
  run has a single fault (crash, shutdown, failed call), the one-job run two. What holds with stalls too (`Timely` FALSE) is proved,
  see below.
- *Exports.* Two attempts overlap, two contents that fit give them different keys or the same one, a third is too large, two cleaners and one
  deletion job overlap. Two attempts with different keys and two faults can leak two objects, so `LeaksNeedFaults` compares numbers up to
  two. The removal of a result is about one key, so the fair run has one content that fits. A fault is one failed call or one crash, with or without its effect. Exhaustion of
  `export.delete` itself (its own five attempts) does not occur, because `MaxFaults` is below that number.
- *Media.* Two attempts overlap and the second is the last, two derived images let one be uploaded and the other not, two cleaners
  overlap with each other and with one completion. One fault is a failed call with or without its effect, or a crash.
- *Primary media.* A circle of waiting transactions has two or three members here: there are three kinds of rows. Two files let a person change
  from one to the other while either is deleted. A second person would only add to the rows of one statement of the deletion; the
  theorems hold for any number.
- *Family.* A cycle of three is the shortest that needs a person in the middle who can be deleted and restored, and two types
  allow parallel relations. `FewRelations` stops the exploration beyond three relations: a state with four is still
  checked but not continued. In `PersonLinks` a model value is a relative in one part and a connection in the other, which share no state: that
  keeps the permutations of its symmetry few.
- *Records.* Two clients are what a race takes. One member more or less reaches both limits, two to ten in the code, and three persons
  let a member be exchanged. Three versions of a union, and of a
  row, let one client change it, another change it again and the first use what it knew; the fourth of a row lets another feature or the cleanup write in between.
- *Restore.* Three runs and two files: one run has crashed or failed to compensate, one compensates, and one starts meanwhile; three faults allow
  each of them one. Every combination of states that the files may have in the manifest is an initial state.
- *Backup.* Three persons with up to five relations of two types contain every shape a stack can get wrong here: several roots, a
  diamond, parallel edges, a cycle beside a tree.
- *Graph view.* Three persons, two relations, a union, depths 0 and 2, limits 2 and 3, from every such tree, with one change between any two
  statements: one change is what it takes to tell two snapshots apart.
- *Paging.* Four persons with two names, so that names repeat, pages of one and two, two changes.
- *Rate limit.* A window of two units and a clock of three reach the end of one window and the next; two keys fill a table that three
  want, with a limit of two and one of one.
- *Migrations.* Two deployers and three builds: a release, the next one, and one in which later migrations were edited.
- *Scheduling.* Two processes and three intervals of three units each, so that tickers differ by less than half and by more than half an interval, and
  so that a whole interval fits between the first job of a process and the start of its ticker.
- *Drawing and GEDCOM.* Four persons and three relations, two unions in the drawing and one in the file, one person that may be deleted: a child with three
  parents of one type, the same parents under two types, a union that is also a pair of parents, siblings, and generations that pull each other
  down. The drawing needs two iterations with one union and more with two.
- *Backoff.* Width 6 is the smallest at which base, cap and overflow are all apart; `DelayInRangeHolds` proves the range for
  every width.

Symmetry is used over workers, jobs, persons, editors, clients and types in runs without liveness; the actions treat them alike.

### Fairness

- `JobQueue!FairSpec`: `Run`'s loop, `process` and the heartbeat goroutine take their next step whenever they can
  (weak fairness), a handler returns, a statement in flight is answered. `Finish` has strong fairness: it waits for
  the heartbeat goroutine to be between two beats, and Go's `select` picks among ready cases at random, so the stop is
  taken in the end although the ticker keeps firing. `Restart` is weakly fair because the deployment restarts the process
  (`restart: unless-stopped`, deploy/staging/compose.yaml:59). No fault is fair.
- `ExportPipeline!FairSpec`: the scheduler enqueues a cleanup at every interval, so a cleaner that can step does, and
  the TTL of a result runs out. The client, the tree, the attempts and the faults need no fairness for `ResultIsRemoved`.

- `MediaPipeline!FairSpec`: a handler returns (`RunStep`), the scheduler enqueues a cleanup at every interval (`CleanerStep`), links expire and
  retentions pass (`LinkExpires`, `Age`; with `Patient` the latter waits for the former). The client, the queue and the faults
  need no fairness: a file that nobody completes, deletes or judges may stay as it is.

Deadlock is checked everywhere but in `Commands` and `RestoreAmbiguous`, whose parts are algorithms and commands that end, and in `MediaLife`, where the
row may be gone with every attempt over.

<a name="proofs"></a>
## Proofs

TLAPS checks the following for every value of the constants that satisfies the assumptions named in the modules
(`ConfigAssumption`: what `worker.New` validates; `BackoffAssumption`, `RateLimitAssumption`, `SchedulingAssumption`: what the configuration
allows; the others: finiteness and distinctness of model values, that there is a build to deploy and a client to ask). In
particular they hold for any number of workers, jobs, attempts, cleaners, persons, clients, deployers and runs of the restore, any depths, limits,
windows and intervals, and any number of faults.

| theorem | module | along which argument |
|---|---|---|
| `TypeCorrect`, `NoLimboHolds`, `AttemptsDistinctHolds`, `CurrentAttemptIsLockersHolds` | `JobQueueProofs` | one inductive invariant: the four with `AnswersMeant`, which says that a process or a statement in flight names a job and an attempt that was really claimed. Without it an acknowledgement could move a row that was never claimed, and `NoLimbo` would not be inductive |
| `ImplementsLedgerHolds` | `JobQueueProofs` | every statement maps to a ledger step of each job or leaves it alone; a claim needs that an exhausted row has exactly `MaxAttempts` attempts (`TypeOK`, `NoLimbo`) |
| `LiveHandlerOwnsJobHolds`, `AcksSettleOwnAttemptHolds` | `JobQueueProofs` | under `Prompt`, a second invariant `TimedInv` relates what is left of the lease to the age of whatever relies on it: the ticker or the unanswered heartbeat of a handler (`BeatsInTime`), an answer on its way (`AnswersInTime`, `LateAnswersInTime`), a claim that may still land (`OwnAttempt`, `LateOwnAttempt`); `OneAnswer` lets no two answers be about one job of one worker. A row whose lease has time left cannot be claimed (`ClaimNeedsExpiry`), and every step spares the rows of all workers but the one whose statement it is (`Spares`) |
| `ExportTypeCorrect`, `LiveResultHolds`, `SucceededJobSettlesExportHolds` | `ExportProofs` | inductive invariant of these with `RunsMeant` (an attempt at `complete` or `undo`, and what it may conclude from the row), `CleanersMeant` (a cleaner that holds a key holds it for an expired export, and `expired` is for ever), `TaskMeant` and `ReaderMeant`. The core is that whoever deletes an object has seen the export in a status from which it cannot become completed with that key |
| `DownloadServesLiveResultHolds` | `ExportProofs` | the key of a completed export does not change, so the reader's key is the row's when the second check passes, and `LiveResult` has its object |
| `ImplementsContractHolds` | `ExportProofs` | step simulation under the invariant |
| `MediaTypeCorrect`, `LiveMediaIsStoredHolds`, `SucceededJobSettlesMediaHolds` | `MediaProofs` | inductive invariant of these with `NothingUnseen` (once an attempt has found the file good, other bytes can only be `replaced` ones), `OriginalMeant` (`upload` tells whether an original is stored), `RunsMeant` (how far an attempt has come, and which objects exist then while the file is in processing), `CleanersMeant` (whoever deletes objects does so of a file that cannot become live again), `ClientMeant` and `TaskMeant`; every step is first reduced to how it moves the row (`Moves`) and which objects it may take away (`Removes`) |
| `ImplementsMediaContractHolds` | `MediaProofs` | step simulation from `Moves` under the invariant |
| `RemovedMediaLeavesNothingHolds` | `MediaProofs` | for `Patient`, a second invariant `Swept`: when a row has outlived its retention nobody is left to upload, and a cleaner that is going to remove the row has seen it stale and keeps deleted what it deleted |
| `LeaksNeedFaultsHolds` | `ExportProofs` | a second invariant, `LeakInv`, accounts for every object: it is the row's, or a run or a cleaner that is still at work has it in hand, and the others are at most as many as the faults. A step that lets go of an object without a fault hands it on |
| `PrimaryMediaTypeCorrect`, `PrimaryIsAttachedAndReadyHolds` | `PrimaryMediaProofs` | inductive invariant with `Exclusive` (a write lock excludes all others), `SharedStays` (a row locked FOR SHARE is still as it was found), `Placed` and `Holds` (what each operation holds at each statement of its script, and what is so of the rows it owns). A commit changes only rows it owns and refers only to files it shares (`Confined`), so the others notice nothing |
| `ImplementsPersonMediaHolds` | `PrimaryMediaProofs` | at the end of its script a transaction has `Secured` the guard of the indivisible operation, and its commit is that operation; all other steps stutter |
| `DeadlocksNeedUpgradeHolds` | `PrimaryMediaProofs` | `LockInv` says what each transaction that is no upgrade may wait for, and what it cannot hold yet (`Wants`). So nobody in a circle waits for an attachment; who waits for a person waits, in the circle, for a deletion that clears primary files, and these chase each other in no circle (`Orderly`, an induction over sets of transactions built into the invariant); who waits for a file waits for nobody who waits |
| `FamilyGraphTypeCorrect`, `CyclesPassThroughRestoredHolds` | `FamilyGraphProofs` | invariant with `LockExclusive` (one holder of the advisory lock) and `CheckStands` (what the cycle query found still holds at the insert, for persons that were never restored, although persons come and go in between), over the lemma `EdgeKeepsAcyclic`: adding an edge whose ends are not already joined backwards keeps a graph acyclic |
| `UnionTypeCorrect`, `SizeWithinLimitsHolds`, `AnswersMatchHistoryHolds`, `NoBlindChangeHolds` | `RecordProofs` | inductive invariant of the first two with `Recorded` (the current version is in the history), `LockMeant` (who is between lock and commit holds the lock), `OneCreation`, and `Sound`: what a request has counted still holds, and what a client was told, or has read, belongs to its version (`Informed`, which implies the other two theorems). Each step is quiet (`QuietStep`: the union stays) or a commit (`CommitStep`: the version grows by one) |
| `RestoreTypeCorrect`, `SuccessIsOwnHolds`, `CompleteUnlessDoubtedHolds`, `CompensatesOwnObjectsHolds` | `CommandProofs` | inductive invariant with `Owned` (what a run remembers to have uploaded is in the bucket and its own), `OneTree` (while a transaction is open no tree is committed), `Undoubted` (without a doubted commit a committed tree has a run that is done, and so has its files by `Owned` and `Placed`) and `Placed` (what a run has uploaded, and whether it has the transaction, at each step) |
| `RowsTypeCorrect`, `NoLostUpdateHolds`, `AuditTellsDeletionsHolds`, `LateEditsBoundedHolds` | `RecordProofs` | inductive invariant `RowsInv`: who knows the present version knows all of its content (`RowInformed`); the audit records are the deletions and restorations in the order of their versions (`Audited`), and only the cleanup deletes without one (`DeletionTold`, `SweptMeant`); what happens beside the requests gives the row a new version or leaves its content (`BesideStep`); the edits after the deletion of the tree and the requests that may still make one are together fewer than the clients (`Counted`, `Ready`) |
| `DelayInRangeHolds`, `DelayIsCappedDoublingHolds` | `CommandProofs` | the test against half of the cap comes before the product, so the product fits; the loop's delay is the base doubled once per round while that is below the cap |
| `AtSomeVersionOfABuildHolds` | `CommandProofs` | `MigrationsInv`: a deployer that has the lock knows exactly what is applied, and goes on only if that is part of its build; what it applies is the next of its build, and what it has undone are the last ones (`UndoesLast`) |
| `CleanupEveryIntervalHolds` | `CommandProofs` | `SchedulingInv`: the first job of a process is in the table before its ticker is started (`Staged`), the ticks of a process have come up to one interval before its next one (`Ticking`), and each interval that begins between the start of its ticker and its last tick has a job, or its tick was lost or still waits (`Provided`) |
| `RejectsExactlyCyclesHolds` | `ViewProofs` | `CheckInv`: the indegree of a person counts the relations from persons who were not visited. Nobody visited has a relation from somebody who was not, so no visited person is on a cycle; and who is never visited has a parent who is never visited, whereas in a graph without cycles every group has somebody without a parent in it (`GroupHasRoot`) |
| `AnswerIsOneMomentHolds` | `ViewProofs` | `GraphInv`: what the statements so far have collected is what one state of the tree holds. The recursive query walks over paths, the reference over a ball: `TraversedIsBall` shows by induction over the depth that they reach the same persons |
| `BurstBelowTwiceHolds` | `ViewProofs` | `RateInv`: since the present window began no more than its count was allowed, and in the part of the history before it at least one less than the limit, because the attempt that opened the window before is out of sight when the present one begins (`WindowSpent`, `Between`) |
| `UntouchedShownOnceHolds` | `ViewProofs` | `ListInv`: of the persons nobody has written, those at or before the cursor have been shown once, if active, and the others not yet. The rows of a page are the matching persons in order (`FollowingMeant`: a finite set can be listed in any total order), and the cursor is the last one shown (`PageMeant`) |
| `FlattestDrawingHolds` | `ViewProofs` | for the relations that `Init` admits (it uses nothing but that they join different persons of the tree): ranks never pass those of any drawing; where there is a drawing there is a flattest one (`LeastExists`), and it has no empty row, so it fits the bound (`LeastIsFlat`). As long as somebody is not in its place in the flattest drawing, somebody beside or directly below a person who is finds theirs in the same iteration (`SomebodyIsNext`, `Progress`): an iteration that changes anything settles one more person, and the loop's bound is never too small |
| `ExportsActiveTreeHolds` | `CommandProofs` | `GedcomInv` has two parts. `Consistent`: the records so far are `Truthful` (a partner and a child of a record are always a relation of the tree) and `Mutual` with the pointers of the persons, and no two have a name in common. `Remaining`: a relation that no record says yet is said by a chunk still to be placed, the unions and chunks that are left have no records yet, and a union that is not left has all of its partners. New records keep the file consistent because nobody pointed at them (`Adding`), a child because it is put below exactly the parents of its chunk in a record that does not have it (`Placing`). At the start every active relation is in just one chunk (`ChunkSetMeant`, `ParentChunksMeant`), and the order in which chunks are placed leaves none out (`ChunksListed`, over `OrderExists`) |
| `PartsAreInstances`, `RecordsAreInstances`, `LinksAreInstances` | `CommandProofs`, `RecordProofs`, `PrimaryMediaProofs` | a step of one part leaves the variables of the others alone |

The installed provers cannot instantiate the induction theorems of the library, which take an operator, but the least member of a set of
numbers is a first-order fact (`LeastNatural`, from the library's theorem on well-founded relations), and with it come induction over a set of numbers (`AllNaturals`),
the existence of a function that is given step by step (`IterationExists`), prefix sums (`Sums`) and the listing of a finite set
in an order (`OrderExists`). That is what the theorems on algorithms above rest on.

So every safety invariant and action property of a passing run has its theorem. Only model-checked are the three liveness properties (`EveryJobSettles`,
`ResultIsRemoved`, `StaleMediaIsRemoved`: fairness is out of the prover's reach), and that the properties fail where the code
and a document disagree.

<a name="disagreements"></a>
## Where code and documents disagree

- **`ExhaustedJobSettlesExport`.** docs/WORKER.md:65 says that the export becomes `failed` once the retries are exhausted.
  `retryOrFail` does that when the last attempt *returns* an error. When the last attempt crashes or loses its lease,
  `Claim` buries the job (repository.go:114) and the export stays `running`, or `queued` if no attempt came to acquire it; no other job is enqueued for it.
- **`ActiveGraphAcyclic`.** docs/PROJECT_CONCEPT.md:83 says that parent relations make no cycle. With A over B and B over C, delete B,
  put C over A (the query does not descend through the deleted B), restore B: the live persons A, B, C form a cycle. TLC finds a
  shorter history of two persons, one of whom is deleted and restored while the relation back is being created.
- **`AcyclicBackupAccepted`.** docs/BACKUP_RESTORE.md:53 lists the absence of cycles in the *active* graph as what restore validates.
  The check follows relations through deleted persons too (archive.go:234), so in the history above, before B is restored,
  the active graph has no cycle and the backup is refused.

- **`CommittedTreeIsComplete`.** docs/BACKUP_RESTORE.md:65 says that an ambiguous answer to COMMIT is resolved through the audit
  record `backup.restored`. `restoreCommitted` looks for the record once (postgres.go:77): a COMMIT that the server completes after the look is
  taken for a failure, `cleanupObjects` deletes the files, and the tree is there without them. `CompleteUnlessDoubted` is what remains true.

Seen while reading and noted with its hazard, not checked by a run: an object whose deletion in `Undo` failed stays in the
bucket when the retry finds the export expired and returns without error (generator.go:73). `LeaksNeedFaults` bounds such leaks by the faults.
And a `media.process` job that is buried leaves its file in `processing`, as `ExhaustedJobSettlesExport` shows for exports,
where docs/WORKER.md:36 says that the file becomes `rejected`. docs/UNIONS_HTTP_API.md:7 asks for two to ten *active* persons in a union: they
are active when they join, and stay members when they are deleted.

<a name="not-modelled"></a>
## What is not modelled

Of the rendering of exports, the formatting: coordinates, text, images, ZIP entries (pure functions of a snapshot). Authentication (stateless; the
identity service is another repository), HTTP transport and error mapping, generated code (`gen/`), the thin adapters
of PostgreSQL and S3 (each statement, put and delete is an atomic step that may fail after its effect), logging and metrics: none of these keeps
state between two calls, so there is nothing an order of steps could break.

Within modelled components: authorisation by role (a refused request changes nothing), `ErrDeduplicationConflict`
of `EnqueueWith` (it changes nothing), a cleanup batch that a single failing deletion stops before
its end, the reads of media (the list reads files and derived images in two statements), dates, notes, roles and confidence (data), and the checks of a
backup archive that compare entries one by one.

Taken for granted: a failed S3 delete took effect at once or not at all; Redis drops a key at the moment it expires; the table of the rate limit is
one process's, and a restart, which empties it, is not modelled; PostgreSQL rolls DDL back with its transaction; clocks of processes agree.

<a name="plan"></a>
## Plan

Order of construction, most important behaviour first:

1. `JobQueue`, `TaskLedger` and the refinement (done, proved except liveness).
2. `ExportPipeline` over `TaskLedger`, `ExportContract` (done, proved except liveness).
3. `FamilyGraph`, `BackupCheck`, `RetryBackoff` (done, proved).
4. `MediaPipeline`, `MediaContract` over `TaskLedger` (done, proved except liveness).
5. `PrimaryMedia`, `PersonMedia` (done, proved).
6. `FamilyUnion`, `TreeRestore`, `VersionedRows` (done, proved).
7. `GraphView`, `PersonList`, `RateLimit`, `Migrations`, `Scheduling`, `VisualLayout`, `GedcomFamilies` (done, proved).

What is left is beyond the provers (liveness) or outside of the models (see [above](#not-modelled)).
