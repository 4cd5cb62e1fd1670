---------------------------- MODULE ExportProofs ----------------------------
(***************************************************************************)
(* What holds of an export for any number of attempts and cleaners, any    *)
(* set of contents, and any number of failed calls, crashes and stalls.    *)
(***************************************************************************)
EXTENDS ExportRefinement, FiniteSetTheorems, TLAPS

\* What the place a run has reached says of the export e and the objects o.
Meant(r, e, o) ==
  /\ r.pc \in {"put", "complete", "undo"} => r.content \in Contents
  /\ r.pc # "none" => e.status # "absent"
  /\ r.pc \in Active \ {"acquire"} => e.status # "queued"
  /\ r.pc = "complete" /\ e.status = "running" => r.content \in o
  /\ r.pc = "undo" => /\ e.status \notin Unsettled
                      /\ e.status = "completed" => e.key # r.content
  /\ r.pc = "ok" => e.status \notin Unsettled

RunsMeant == \A n \in Attempts : Meant(run[n], export, objects)

CleanersMeant == \A c \in Cleaners : cleaner[c].pc # "idle" => export.status = "expired"

TaskMeant == task.phase # "unknown" => export.status # "absent"

ReaderMeant ==
  reader # None => /\ export.status \in {"completed", "expired"}
                   /\ export.status = "completed" => reader = export.key

Inv ==
  /\ TypeOK /\ LiveResult /\ SucceededJobSettlesExport
  /\ RunsMeant /\ CleanersMeant /\ TaskMeant /\ ReaderMeant

\* How a step may move the export, and which objects it may take away.
Moves ==
  \/ /\ export'.status = export.status
     /\ export.status # "expired" => export'.key = export.key
  \/ export.status = "absent" /\ export'.status = "queued"
  \/ export.status = "queued" /\ export'.status = "running"
  \/ /\ export.status = "running" /\ export'.status = "completed"
     /\ \E n \in Attempts : run[n].pc = "complete" /\ export'.key = run[n].content
  \/ export.status \in Unsettled /\ export'.status = "failed"
  \/ export.status # "absent" /\ export'.status = "expired"

Removes ==
  \/ objects \subseteq objects'
  \/ \E n \in Attempts : run[n].pc = "undo" /\ objects' = objects \ {run[n].content}
  \/ \E c \in Cleaners : cleaner[c].pc = "delete" /\ objects' = objects \ {cleaner[c].key}

-----------------------------------------------------------------------------
(* Pieces of the actions. *)

LEMMA RunGoes ==
  ASSUME run \in [Attempts -> Run], NEW n \in Attempts, NEW pc \in RunPC, Goto(n, pc)
  PROVE  /\ run' \in [Attempts -> Run]
         /\ run'[n].pc = pc /\ run'[n].content = run[n].content
         /\ \A m \in Attempts \ {n} : run'[m] = run[m]
BY DEF Goto, Run

LEMMA RowChanges ==
  ASSUME export \in Export
  PROVE  /\ \A s \in Statuses : /\ [export EXCEPT !.status = s] \in Export
                                /\ [export EXCEPT !.status = s].status = s
                                /\ [export EXCEPT !.status = s].key = export.key
         /\ [export EXCEPT !.key = None] \in Export
         /\ [export EXCEPT !.key = None].status = export.status
         /\ [export EXCEPT !.overdue = TRUE] \in Export
         /\ [export EXCEPT !.overdue = TRUE].status = export.status
         /\ [export EXCEPT !.overdue = TRUE].key = export.key
BY DEF Export, Key

LEMMA RowStarts ==
  ASSUME export \in Export
  PROVE  /\ [export EXCEPT !.status = Started(@)] \in Export
         /\ [export EXCEPT !.status = Started(@)].status = Started(export.status)
         /\ [export EXCEPT !.status = Started(@)].key = export.key
         /\ Started(export.status) # "queued"
         /\ Started(export.status) # export.status => /\ export.status = "queued"
                                                     /\ Started(export.status) = "running"
BY DEF Export, Started, Statuses

LEMMA RowRefused ==
  ASSUME export \in Export
  PROVE  /\ Refused \in Export /\ Refused.key = export.key
         /\ Refused.status = IF export.status \in Unsettled THEN "failed" ELSE export.status
BY DEF Export, Refused, Statuses, Unsettled

LEMMA RowCompletes ==
  ASSUME export \in Export, run \in [Attempts -> Run], NEW n \in Attempts
  PROVE  /\ Completed(n) \in Export
         /\ IF export.status = "running"
              THEN Completed(n).status = "completed" /\ Completed(n).key = run[n].content
              ELSE Completed(n) = export
BY DEF Export, Completed, Statuses, Run

LEMMA FaultCounts ==
  ASSUME faults \in 0 .. MaxFaults, Fault
  PROVE  faults' \in 0 .. MaxFaults
BY ExportAssumption DEF Fault

-----------------------------------------------------------------------------
(* Type correctness. *)

LEMMA RunPCs ==
  /\ Active \cup {"none", "ok", "err", "done", "gone"} \subseteq RunPC
  /\ \A n \in Attempts : Retry(n) \in {"err", "giveUp"}
BY DEF RunPC, Retry

LEMMA InitType == Init => TypeOK
<1> SUFFICES ASSUME Init  PROVE TypeOK
  OBVIOUS
<1>1. tree \in [content : Contents, deleted : BOOLEAN]
  BY DEF Init
<1>2. export \in Export
  BY DEF Init, Export, Statuses, Key
<1>3. task \in Task
  BY ExportAssumption DEF Init, Task, Ledger!Phase
<1>4. run \in [Attempts -> Run]
  <2>1. [pc |-> "none", content |-> None] \in Run
    BY DEF Run, RunPC, Key
  <2> QED  BY <2>1 DEF Init
<1>5. cleaner \in [Cleaners -> Cleaner]
  <2>1. Rested \in Cleaner
    BY DEF Rested, Cleaner, Key
  <2> QED  BY <2>1 DEF Init
<1>6. faults \in 0 .. MaxFaults /\ objects \subseteq Contents /\ reader \in Key
      /\ deletion \in {"none", "pending", "done"}
  BY ExportAssumption DEF Init, Key
<1> QED  BY <1>1, <1>2, <1>3, <1>4, <1>5, <1>6 DEF TypeOK

LEMMA ApiType ==
  ASSUME TypeOK,
         \/ CreateExport \/ DeleteExport \/ PresignDownload \/ RecordDownload
         \/ RefuseDownload \/ ResultExpires \/ EditTree
  PROVE  TypeOK'
<1>1. CASE CreateExport
  <2>1. export' \in Export
    BY <1>1, RowChanges DEF CreateExport, TypeOK, Statuses
  <2>2. task' \in Task
    BY <1>1, ExportAssumption DEF CreateExport, Task, Ledger!Phase
  <2> QED  BY <1>1, <2>1, <2>2 DEF CreateExport, TypeOK
<1>2. CASE DeleteExport
  <2>1. export' \in Export
    BY <1>2, RowChanges DEF DeleteExport, TypeOK, Statuses
  <2> QED  BY <1>2, <2>1 DEF DeleteExport, TypeOK
<1>3. CASE PresignDownload
  BY <1>3 DEF PresignDownload, TypeOK, Export
<1>4. CASE RecordDownload \/ RefuseDownload
  BY <1>4 DEF RecordDownload, RefuseDownload, TypeOK, Key
<1>5. CASE ResultExpires
  <2>1. export' \in Export
    BY <1>5, RowChanges DEF ResultExpires, TypeOK
  <2> QED  BY <1>5, <2>1 DEF ResultExpires, TypeOK
<1>6. CASE EditTree
  <2>1. tree' \in [content : Contents, deleted : BOOLEAN]
    BY <1>6 DEF EditTree, TypeOK
  <2> QED  BY <1>6, <2>1 DEF EditTree, TypeOK
<1> QED  BY <1>1, <1>2, <1>3, <1>4, <1>5, <1>6

LEMMA RunType ==
  ASSUME TypeOK, RunsMeant, NEW n \in Attempts, RunStep(n) \/ Crash(n)
  PROVE  TypeOK'
<1> USE RunPCs, RunGoes, FaultCounts
<1>1. CASE Acquire(n)
  <2>1. export' \in Export
    BY <1>1, RowStarts DEF Acquire, TypeOK
  <2>2. run' \in [Attempts -> Run] /\ faults' \in 0 .. MaxFaults
    BY <1>1 DEF Acquire, Fails, TypeOK, Active
  <2> QED  BY <1>1, <2>1, <2>2 DEF Acquire, TypeOK
<1>2. CASE Load(n)
  <2>1. CASE run' = [run EXCEPT ![n] = [pc |-> "put", content |-> tree.content]] /\ UNCHANGED faults
    <3>1. [pc |-> "put", content |-> tree.content] \in Run
      BY DEF Run, Key, TypeOK, Active
    <3>2. run' \in [Attempts -> Run]
      BY <2>1, <3>1 DEF TypeOK
    <3> QED  BY <1>2, <2>1, <3>2 DEF Load, TypeOK
  <2>2. CASE Goto(n, "reject") /\ UNCHANGED faults
    <3>1. run' \in [Attempts -> Run]
      BY <2>2 DEF TypeOK, Active
    <3> QED  BY <1>2, <2>2, <3>1 DEF Load, TypeOK
  <2>3. CASE Fails(n, Retry(n))
    <3>1. run' \in [Attempts -> Run] /\ faults' \in 0 .. MaxFaults
      BY <2>3 DEF Fails, TypeOK, Active
    <3> QED  BY <1>2, <3>1 DEF Load, TypeOK
  <2> QED  BY <1>2, <2>1, <2>2, <2>3 DEF Load
<1>3. CASE Put(n)
  <2>1. run' \in [Attempts -> Run] /\ faults' \in 0 .. MaxFaults
    BY <1>3 DEF Put, Fails, TypeOK, Active
  <2>2. run[n].content \in Contents
    BY <1>3 DEF Put, RunsMeant, Meant
  <2>3. objects' \subseteq Contents
    BY <1>3, <2>2 DEF Put, TypeOK
  <2> QED  BY <1>3, <2>1, <2>3 DEF Put, TypeOK
<1>4. CASE Complete(n)
  <2>1. export' \in Export
    BY <1>4, RowCompletes DEF Complete, TypeOK
  <2>2. run' \in [Attempts -> Run] /\ faults' \in 0 .. MaxFaults
    BY <1>4 DEF Complete, Fails, TypeOK, Active
  <2> QED  BY <1>4, <2>1, <2>2 DEF Complete, TypeOK
<1>5. CASE Undo(n)
  <2>1. run' \in [Attempts -> Run] /\ faults' \in 0 .. MaxFaults
    BY <1>5 DEF Undo, Fails, TypeOK, Active
  <2>2. objects' \subseteq Contents
    BY <1>5 DEF Undo, TypeOK
  <2> QED  BY <1>5, <2>1, <2>2 DEF Undo, TypeOK
<1>6. CASE Reject(n) \/ GiveUp(n)
  <2>1. export' \in Export
    BY <1>6, RowRefused DEF Reject, GiveUp, TypeOK
  <2>2. run' \in [Attempts -> Run] /\ faults' \in 0 .. MaxFaults
    BY <1>6 DEF Reject, GiveUp, Fails, TypeOK, Active
  <2> QED  BY <1>6, <2>1, <2>2 DEF Reject, GiveUp, TypeOK
<1>7. CASE Report(n)
  <2>1. run' \in [Attempts -> Run]
    BY <1>7 DEF Report, TypeOK, Active
  <2>2. task' \in Task
    BY <1>7 DEF Report, TypeOK, Task, Ledger!Phase, Attempts
  <2> QED  BY <1>7, <2>1, <2>2 DEF Report, TypeOK
<1>8. CASE Crash(n)
  <2>1. run' \in [Attempts -> Run] /\ faults' \in 0 .. MaxFaults
    BY <1>8 DEF Crash, Fails, TypeOK, Active
  <2> QED  BY <1>8, <2>1 DEF Crash, TypeOK
<1> QED  BY <1>1, <1>2, <1>3, <1>4, <1>5, <1>6, <1>7, <1>8 DEF RunStep

LEMMA QueueType ==
  ASSUME TypeOK, BeginAttempt \/ Bury
  PROVE  TypeOK'
<1>1. CASE BeginAttempt
  <2>1. task.tries + 1 \in Attempts /\ task' = [phase |-> "owned", tries |-> task.tries + 1]
    BY <1>1, ExportAssumption DEF BeginAttempt, Ledger!Begin, TypeOK, Task, Attempts
  <2>2. task' \in Task
    BY <2>1 DEF Task, Ledger!Phase, Attempts
  <2>3. run' \in [Attempts -> Run]
    BY <1>1, <2>1, RunGoes, RunPCs DEF BeginAttempt, TypeOK, Active
  <2> QED  BY <1>1, <2>2, <2>3 DEF BeginAttempt, TypeOK
<1>2. CASE Bury
  <2>1. task' \in Task
    BY <1>2 DEF Bury, TypeOK, Task, Ledger!Phase
  <2> QED  BY <1>2, <2>1 DEF Bury, TypeOK
<1> QED  BY <1>1, <1>2

LEMMA CleanerGoes ==
  ASSUME cleaner \in [Cleaners -> Cleaner], export \in Export, NEW c \in Cleaners
  PROVE  /\ Rested \in Cleaner /\ Rested.pc = "idle"
         /\ \A pc \in {"delete", "clear"} : CleanerAt(c, pc) =>
              /\ cleaner' \in [Cleaners -> Cleaner]
              /\ \A d \in Cleaners \ {c} : cleaner'[d] = cleaner[d]
         /\ \A job \in {"cleanup", "delete"} : CleanerTakes(c, job) =>
              /\ cleaner' \in [Cleaners -> Cleaner]
              /\ \A d \in Cleaners \ {c} : cleaner'[d] = cleaner[d]
<1>1. Rested \in Cleaner /\ Rested.pc = "idle"
  BY DEF Rested, Cleaner, Key
<1>2. ASSUME NEW pc \in {"delete", "clear"}, CleanerAt(c, pc)
      PROVE  /\ cleaner' \in [Cleaners -> Cleaner]
             /\ \A d \in Cleaners \ {c} : cleaner'[d] = cleaner[d]
  BY <1>2 DEF CleanerAt, Cleaner
<1>3. ASSUME NEW job \in {"cleanup", "delete"}, CleanerTakes(c, job)
      PROVE  /\ cleaner' \in [Cleaners -> Cleaner]
             /\ \A d \in Cleaners \ {c} : cleaner'[d] = cleaner[d]
  <2>1. [pc |-> IF export.key = None THEN "clear" ELSE "delete", key |-> export.key, job |-> job]
          \in Cleaner
    BY DEF Cleaner, Export
  <2> QED  BY <1>3, <2>1 DEF CleanerTakes
<1> QED  BY <1>1, <1>2, <1>3

LEMMA CleanerType ==
  ASSUME TypeOK, NEW c \in Cleaners, CleanerStep(c) \/ CleanerFails(c)
  PROVE  TypeOK'
<1>1. CASE Reserve(c)
  <2>1. export' \in Export /\ cleaner' \in [Cleaners -> Cleaner]
    BY <1>1, RowChanges, CleanerGoes DEF Reserve, TypeOK, Statuses
  <2> QED  BY <1>1, <2>1 DEF Reserve, TypeOK
<1>2. CASE FetchDeletion(c)
  <2>1. cleaner' \in [Cleaners -> Cleaner]
    BY <1>2, CleanerGoes DEF FetchDeletion, TypeOK
  <2> QED  BY <1>2, <2>1 DEF FetchDeletion, TypeOK
<1>3. CASE DeleteObject(c)
  <2>1. cleaner' \in [Cleaners -> Cleaner]
    BY <1>3, CleanerGoes DEF DeleteObject, TypeOK
  <2>2. objects' \subseteq Contents
    BY <1>3 DEF DeleteObject, TypeOK
  <2> QED  BY <1>3, <2>1, <2>2 DEF DeleteObject, TypeOK
<1>4. CASE ClearExpiredResult(c)
  <2>1. export' \in Export
    BY <1>4, RowChanges DEF ClearExpiredResult, TypeOK
  <2>2. cleaner' \in [Cleaners -> Cleaner]
    BY <1>4, CleanerGoes DEF ClearExpiredResult, TypeOK
  <2>3. deletion' \in {"none", "pending", "done"}
    BY <1>4 DEF ClearExpiredResult, TypeOK
  <2> QED  BY <1>4, <2>1, <2>2, <2>3 DEF ClearExpiredResult, TypeOK
<1>5. CASE CleanerFails(c)
  <2>1. cleaner' \in [Cleaners -> Cleaner]
    BY <1>5, CleanerGoes DEF CleanerFails, TypeOK
  <2> QED  BY <1>5, <2>1, FaultCounts DEF CleanerFails, TypeOK
<1> QED  BY <1>1, <1>2, <1>3, <1>4, <1>5 DEF CleanerStep

LEMMA TypeStep ==
  ASSUME TypeOK, RunsMeant, [Next]_vars
  PROVE  TypeOK'
<1>1. CASE UNCHANGED vars
  BY <1>1 DEF vars, TypeOK
<1>2. CASE Next
  BY <1>2, ApiType, RunType, QueueType, CleanerType DEF Next
<1> QED  BY <1>1, <1>2

-----------------------------------------------------------------------------
(* How the export and its objects move. *)

LEMMA StepMoves ==
  ASSUME TypeOK, RunsMeant, TaskMeant, CleanersMeant, [Next]_vars
  PROVE  Moves
<1>1. CASE UNCHANGED export
  BY <1>1 DEF Moves
<1>2. CASE CreateExport \/ DeleteExport \/ ResultExpires
  BY <1>2, RowChanges DEF CreateExport, DeleteExport, ResultExpires, Moves, TypeOK, Statuses
<1>3. ASSUME NEW n \in Attempts, Acquire(n)
      PROVE  Moves
  BY <1>3, RowStarts DEF Acquire, Moves, TypeOK
<1>4. ASSUME NEW n \in Attempts, Complete(n)
      PROVE  Moves
  BY <1>4, RowCompletes DEF Complete, Moves, TypeOK
<1>5. ASSUME NEW n \in Attempts, Reject(n) \/ GiveUp(n)
      PROVE  Moves
  BY <1>5, RowRefused DEF Reject, GiveUp, Moves, TypeOK
<1>6. ASSUME NEW c \in Cleaners, Reserve(c)
      PROVE  Moves
  BY <1>6, RowChanges DEF Reserve, Moves, TypeOK, Statuses
<1>7. ASSUME NEW c \in Cleaners, ClearExpiredResult(c)
      PROVE  Moves
  BY <1>7, RowChanges DEF ClearExpiredResult, Moves, TypeOK, CleanersMeant
<1>8. ASSUME Next
      PROVE  Moves
  <2>1. CASE \/ PresignDownload \/ RecordDownload \/ RefuseDownload \/ EditTree
            \/ BeginAttempt \/ Bury
    BY <1>1, <2>1
       DEF PresignDownload, RecordDownload, RefuseDownload, EditTree, BeginAttempt, Bury
  <2>2. ASSUME NEW n \in Attempts, Load(n) \/ Put(n) \/ Undo(n) \/ Report(n) \/ Crash(n)
        PROVE  Moves
    BY <1>1, <2>2 DEF Load, Put, Undo, Report, Crash
  <2>3. ASSUME NEW c \in Cleaners, FetchDeletion(c) \/ DeleteObject(c) \/ CleanerFails(c)
        PROVE  Moves
    BY <1>1, <2>3 DEF FetchDeletion, DeleteObject, CleanerFails
  <2> QED  BY <1>2, <1>3, <1>4, <1>5, <1>6, <1>7, <1>8, <2>1, <2>2, <2>3
           DEF Next, RunStep, CleanerStep
<1> QED  BY <1>1, <1>8 DEF vars

LEMMA StepRemoves ==
  ASSUME [Next]_vars
  PROVE  Removes
<1>1. CASE UNCHANGED objects
  BY <1>1 DEF Removes
<1>2. ASSUME NEW n \in Attempts, RunStep(n) \/ Crash(n)
      PROVE  Removes
  <2>1. CASE Put(n)
    BY <2>1 DEF Put, Removes
  <2>2. CASE Undo(n)
    BY <2>2 DEF Undo, Removes
  <2> QED  BY <1>1, <1>2, <2>1, <2>2
           DEF RunStep, Acquire, Load, Complete, Reject, GiveUp, Report, Crash
<1>3. ASSUME NEW c \in Cleaners, CleanerStep(c) \/ CleanerFails(c)
      PROVE  Removes
  <2>1. CASE DeleteObject(c)
    BY <2>1 DEF DeleteObject, Removes
  <2> QED  BY <1>1, <1>3, <2>1
           DEF CleanerStep, Reserve, FetchDeletion, ClearExpiredResult, CleanerFails
<1>4. CASE \/ CreateExport \/ DeleteExport \/ PresignDownload \/ RecordDownload
          \/ RefuseDownload \/ ResultExpires \/ EditTree \/ BeginAttempt \/ Bury
  BY <1>1, <1>4
     DEF CreateExport, DeleteExport, PresignDownload, RecordDownload, RefuseDownload,
         ResultExpires, EditTree, BeginAttempt, Bury
<1> QED  BY <1>1, <1>2, <1>3, <1>4 DEF Next, vars

\* A step takes no object away from an export that is running, and not the published
\* object from one that is completed.
LEMMA ObjectsStay ==
  ASSUME RunsMeant, CleanersMeant, Removes
  PROVE  /\ export.status = "running" => objects \subseteq objects'
         /\ export.status = "completed" /\ export.key \in objects => export.key \in objects'
BY DEF RunsMeant, Meant, CleanersMeant, Removes, Unsettled

LEMMA LiveResultStep ==
  ASSUME TypeOK, LiveResult, RunsMeant, CleanersMeant, Moves, Removes
  PROVE  LiveResult'
<1>1. CASE export.status = "completed" /\ export'.status = "completed"
  BY <1>1, ObjectsStay DEF LiveResult, Moves
<1>2. CASE export.status # "completed" /\ export'.status = "completed"
  BY <1>2, ObjectsStay DEF LiveResult, Moves, RunsMeant, Meant, Unsettled
<1> QED  BY <1>1, <1>2 DEF LiveResult

-----------------------------------------------------------------------------
(* The runs. *)

\* What a run means is not disturbed by the others.
LEMMA OthersKeepMeaning ==
  ASSUME RunsMeant, CleanersMeant, Moves, Removes, NEW n \in Attempts
  PROVE  Meant(run[n], export', objects')
<1> DEFINE r == run[n]
<1>1. Meant(r, export, objects)
  BY DEF RunsMeant
<1>2. r.pc # "none" => export'.status # "absent"
  BY <1>1 DEF Meant, Moves, Unsettled
<1>3. r.pc \in Active \ {"acquire"} => export'.status # "queued"
  BY <1>1 DEF Meant, Moves, Unsettled, Active
<1>4. r.pc = "complete" /\ export'.status = "running" => r.content \in objects'
  BY <1>1, ObjectsStay DEF Meant, Moves, Unsettled, Active
<1>5. r.pc = "undo" => /\ export'.status \notin Unsettled
                       /\ export'.status = "completed" => export'.key # r.content
  BY <1>1 DEF Meant, Moves, Unsettled, Active
<1>6. r.pc = "ok" => export'.status \notin Unsettled
  BY <1>1 DEF Meant, Moves, Unsettled
<1> QED  BY <1>1, <1>2, <1>3, <1>4, <1>5, <1>6 DEF Meant

LEMMA RunKeepsMeaning ==
  ASSUME TypeOK, RunsMeant, Moves, Removes, CleanersMeant,
         NEW n \in Attempts, RunStep(n) \/ Crash(n)
  PROVE  Meant(run'[n], export', objects')
<1> USE RunPCs, RunGoes
<1>1. Meant(run[n], export, objects) /\ Meant(run[n], export', objects')
  BY OthersKeepMeaning DEF RunsMeant
<1>2. run \in [Attempts -> Run] /\ export \in Export
  BY DEF TypeOK
<1>3. ASSUME NEW pc \in {"err", "done", "gone", "giveUp", "reject"}, Goto(n, pc),
             run[n].pc # "none",
             pc \in {"giveUp", "reject"} => run[n].pc \in Active \ {"acquire"}
      PROVE  Meant(run'[n], export', objects')
  <2>1. run'[n].pc = pc /\ run'[n].content = run[n].content
    BY <1>2, <1>3 DEF Active
  <2> QED  BY <1>1, <1>3, <2>1 DEF Meant, Active
<1>4. CASE Acquire(n)
  <2>1. run[n].pc = "acquire" /\ export.status # "absent"
    BY <1>1, <1>4 DEF Acquire, Meant
  <2>2. CASE /\ export' = [export EXCEPT !.status = Started(@)]
             /\ Goto(n, IF export.status \in {"queued", "running"} THEN "load" ELSE "ok")
    <3>1. run'[n].pc = IF export.status \in {"queued", "running"} THEN "load" ELSE "ok"
      BY <1>2, <2>2 DEF Active
    <3>2. export'.status = Started(export.status) /\ export'.status # "queued"
      BY <1>2, <2>2, RowStarts
    <3> QED  BY <2>1, <3>1, <3>2 DEF Meant, Active, Started, Unsettled
  <2>3. CASE Goto(n, "err")
    BY <1>3, <2>1, <2>3
  <2> QED  BY <1>4, <2>2, <2>3 DEF Acquire, Fails
<1>5. CASE Load(n)
  <2>1. run[n].pc = "load" /\ export' = export /\ objects' = objects
    BY <1>5 DEF Load
  <2>2. CASE run' = [run EXCEPT ![n] = [pc |-> "put", content |-> tree.content]]
    <3>1. run'[n].pc = "put" /\ run'[n].content \in Contents
      BY <1>2, <2>2 DEF TypeOK
    <3> QED  BY <1>1, <2>1, <3>1 DEF Meant, Active
  <2>3. CASE Goto(n, "reject") \/ Goto(n, Retry(n))
    BY <1>3, <2>1, <2>3 DEF Active
  <2> QED  BY <1>5, <2>2, <2>3 DEF Load, Fails
<1>6. CASE Put(n)
  <2>1. run[n].pc = "put" /\ export' = export
    BY <1>6 DEF Put
  <2>2. CASE objects' = objects \cup {run[n].content} /\ Goto(n, "complete")
    <3>1. run'[n].pc = "complete" /\ run'[n].content = run[n].content
      BY <1>2, <2>2 DEF Active
    <3> QED  BY <1>1, <2>1, <2>2, <3>1 DEF Meant, Active
  <2>3. CASE Goto(n, Retry(n))
    BY <1>3, <2>1, <2>3 DEF Active
  <2> QED  BY <1>6, <2>2, <2>3 DEF Put, Fails
<1>7. CASE Complete(n)
  <2>1. run[n].pc = "complete" /\ objects' = objects
    BY <1>7 DEF Complete
  <2>2. CASE /\ export' = Completed(n)
             /\ Goto(n, IF export'.status = "completed" /\ export'.key = run[n].content
                          THEN "ok" ELSE "undo")
    <3>1. /\ run'[n].pc = IF export'.status = "completed" /\ export'.key = run[n].content
                            THEN "ok" ELSE "undo"
          /\ run'[n].content = run[n].content
      BY <1>2, <2>2 DEF Active
    <3>2. export'.status \notin Unsettled
      BY <1>1, <1>2, <2>1, <2>2, RowCompletes DEF Meant, Active, Unsettled
    <3> QED  BY <1>1, <2>1, <3>1, <3>2 DEF Meant, Active, Unsettled
  <2>3. CASE Goto(n, Retry(n))
    BY <1>3, <2>1, <2>3 DEF Active
  <2> QED  BY <1>7, <2>2, <2>3 DEF Complete, Fails
<1>8. CASE Undo(n)
  <2>1. run[n].pc = "undo" /\ export' = export
    BY <1>8 DEF Undo
  <2>2. CASE Goto(n, "ok")
    <3>1. run'[n].pc = "ok" /\ run'[n].content = run[n].content
      BY <1>2, <2>2
    <3> QED  BY <1>1, <2>1, <3>1 DEF Meant, Active
  <2>3. CASE Goto(n, "err")
    BY <1>3, <2>1, <2>3
  <2> QED  BY <1>8, <2>2, <2>3 DEF Undo, Fails
<1>9. CASE Reject(n) \/ GiveUp(n)
  <2>1. run[n].pc \in {"reject", "giveUp"}
    BY <1>9 DEF Reject, GiveUp
  <2>2. CASE Goto(n, "ok") /\ export'.status \in {"failed", "expired"}
    <3>1. run'[n].pc = "ok" /\ run'[n].content = run[n].content
      BY <1>2, <2>2
    <3> QED  BY <2>2, <3>1 DEF Meant, Active, Unsettled
  <2>3. CASE Goto(n, "err")
    BY <1>3, <2>1, <2>3
  <2> QED  BY <1>9, <2>2, <2>3 DEF Reject, GiveUp, Fails
<1>10. CASE Report(n)
  BY <1>3, <1>10 DEF Report
<1>11. CASE Crash(n)
  BY <1>3, <1>11 DEF Crash, Fails, Active
<1> QED  BY <1>4, <1>5, <1>6, <1>7, <1>8, <1>9, <1>10, <1>11 DEF RunStep

LEMMA RunsMeantStep ==
  ASSUME TypeOK, RunsMeant, TaskMeant, CleanersMeant, Moves, Removes, [Next]_vars
  PROVE  RunsMeant'
<1> SUFFICES ASSUME NEW m \in Attempts
             PROVE  Meant(run'[m], export', objects')
  BY DEF RunsMeant
<1>1. Meant(run[m], export', objects')
  BY OthersKeepMeaning
<1>2. CASE run' = run
  BY <1>1, <1>2
<1>3. CASE BeginAttempt
  <2>1. /\ task.tries + 1 \in Attempts /\ export.status # "absent" /\ export' = export
    BY <1>3, ExportAssumption
       DEF BeginAttempt, Ledger!Begin, TypeOK, Task, Attempts, TaskMeant
  <2>2. CASE m = task.tries + 1
    <3>1. run'[m].pc = "acquire"
      BY <1>3, <2>2, RunGoes, RunPCs DEF BeginAttempt, TypeOK, Active
    <3> QED  BY <2>1, <3>1 DEF Meant, Active
  <2>3. CASE m # task.tries + 1
    BY <1>1, <1>3, <2>1, <2>3, RunGoes, RunPCs DEF BeginAttempt, TypeOK, Active
  <2> QED  BY <2>2, <2>3
<1>4. ASSUME NEW n \in Attempts, RunStep(n) \/ Crash(n)
      PROVE  Meant(run'[m], export', objects')
  <2>1. CASE m = n
    BY <1>4, <2>1, RunKeepsMeaning
  <2>2. CASE m # n
    <3>1. run'[m] = run[m]
      BY <1>4, <2>2
         DEF RunStep, Acquire, Load, Put, Complete, Undo, Reject, GiveUp, Report, Crash,
             Fails, Goto, TypeOK
    <3> QED  BY <1>1, <3>1
  <2> QED  BY <2>1, <2>2
<1>5. ASSUME NEW c \in Cleaners, CleanerStep(c) \/ CleanerFails(c)
      PROVE  Meant(run'[m], export', objects')
  BY <1>2, <1>5
     DEF CleanerStep, Reserve, FetchDeletion, DeleteObject, ClearExpiredResult, CleanerFails
<1>6. CASE \/ CreateExport \/ DeleteExport \/ PresignDownload \/ RecordDownload
          \/ RefuseDownload \/ ResultExpires \/ EditTree \/ Bury \/ UNCHANGED vars
  BY <1>2, <1>6
     DEF CreateExport, DeleteExport, PresignDownload, RecordDownload, RefuseDownload,
         ResultExpires, EditTree, Bury, vars
<1> QED  BY <1>3, <1>4, <1>5, <1>6 DEF Next

-----------------------------------------------------------------------------
(* The cleaners, the job and the download. *)

LEMMA CleanersMeantStep ==
  ASSUME TypeOK, CleanersMeant, Moves, [Next]_vars
  PROVE  CleanersMeant'
<1>1. export.status = "expired" => export'.status = "expired"
  BY DEF Moves, Unsettled
<1>2. CASE UNCHANGED cleaner
  BY <1>1, <1>2 DEF CleanersMeant
<1>3. ASSUME NEW c \in Cleaners, CleanerStep(c) \/ CleanerFails(c)
      PROVE  CleanersMeant'
  <2>1. CASE Reserve(c) \/ FetchDeletion(c)
    <3>1. export'.status = "expired"
      BY <2>1, RowChanges DEF Reserve, FetchDeletion, TypeOK, Statuses
    <3> QED  BY <3>1 DEF CleanersMeant
  <2>2. CASE DeleteObject(c)
    <3>1. export.status = "expired"
      BY <2>2 DEF DeleteObject, CleanersMeant
    <3> QED  BY <1>1, <3>1 DEF CleanersMeant
  <2>3. CASE ClearExpiredResult(c) \/ CleanerFails(c)
    <3>1. export.status = "expired"
      BY <2>3 DEF ClearExpiredResult, CleanerFails, CleanersMeant
    <3> QED  BY <1>1, <3>1 DEF CleanersMeant
  <2> QED  BY <1>3, <2>1, <2>2, <2>3 DEF CleanerStep
<1>4. ASSUME NEW n \in Attempts, RunStep(n) \/ Crash(n)
      PROVE  UNCHANGED cleaner
  BY <1>4
     DEF RunStep, Acquire, Load, Put, Complete, Undo, Reject, GiveUp, Report, Crash
<1>5. CASE \/ CreateExport \/ DeleteExport \/ PresignDownload \/ RecordDownload
          \/ RefuseDownload \/ ResultExpires \/ EditTree \/ BeginAttempt \/ Bury
          \/ UNCHANGED vars
  BY <1>2, <1>5
     DEF CreateExport, DeleteExport, PresignDownload, RecordDownload, RefuseDownload,
         ResultExpires, EditTree, BeginAttempt, Bury, vars
<1> QED  BY <1>2, <1>3, <1>4, <1>5 DEF Next

\* The job is created with the export, and succeeds on the word of a run that ended well.
LEMMA TaskStep ==
  ASSUME TypeOK, RunsMeant, TaskMeant, SucceededJobSettlesExport, Moves, [Next]_vars
  PROVE  TaskMeant' /\ SucceededJobSettlesExport'
<1>1. /\ export.status # "absent" => export'.status # "absent"
      /\ export.status \notin Unsettled \cup {"absent"} => export'.status \notin Unsettled
  BY DEF Moves, Unsettled
<1>2. CASE UNCHANGED task
  BY <1>1, <1>2 DEF TaskMeant, SucceededJobSettlesExport, Unsettled
<1>3. CASE CreateExport
  <2>1. export'.status = "queued" /\ task'.phase = "waiting"
    BY <1>3, RowChanges DEF CreateExport, TypeOK, Statuses
  <2> QED  BY <2>1 DEF TaskMeant, SucceededJobSettlesExport
<1>4. CASE BeginAttempt
  <2>1. task'.phase = "owned" /\ task.phase # "unknown"
    BY <1>4 DEF BeginAttempt, Ledger!Begin
  <2> QED  BY <1>1, <2>1 DEF TaskMeant, SucceededJobSettlesExport
<1>5. CASE Bury
  <2>1. task'.phase = "dead" /\ task.phase # "unknown"
    BY <1>5 DEF Bury, TypeOK, Task
  <2> QED  BY <1>1, <2>1 DEF TaskMeant, SucceededJobSettlesExport
<1>6. ASSUME NEW n \in Attempts, Report(n), task' # task
      PROVE  TaskMeant' /\ SucceededJobSettlesExport'
  <2>1. task.phase = "owned" /\ export' = export
    BY <1>6 DEF Report
  <2>2. CASE run[n].pc = "ok"
    BY <2>1, <2>2 DEF RunsMeant, Meant, TaskMeant, SucceededJobSettlesExport
  <2>3. CASE run[n].pc # "ok"
    <3>1. task'.phase # "succeeded"
      BY <1>6, <2>3 DEF Report, Ledger!GiveUp
    <3> QED  BY <2>1, <3>1 DEF TaskMeant, SucceededJobSettlesExport
  <2> QED  BY <2>2, <2>3
<1>7. ASSUME NEW n \in Attempts, RunStep(n) \/ Crash(n)
      PROVE  TaskMeant' /\ SucceededJobSettlesExport'
  BY <1>2, <1>6, <1>7
     DEF RunStep, Acquire, Load, Put, Complete, Undo, Reject, GiveUp, Crash
<1>8. ASSUME NEW c \in Cleaners, CleanerStep(c) \/ CleanerFails(c)
      PROVE  UNCHANGED task
  BY <1>8
     DEF CleanerStep, Reserve, FetchDeletion, DeleteObject, ClearExpiredResult, CleanerFails
<1>9. CASE \/ DeleteExport \/ PresignDownload \/ RecordDownload \/ RefuseDownload
          \/ ResultExpires \/ EditTree \/ UNCHANGED vars
  BY <1>2, <1>9
     DEF DeleteExport, PresignDownload, RecordDownload, RefuseDownload, ResultExpires,
         EditTree, vars
<1> QED  BY <1>2, <1>3, <1>4, <1>5, <1>7, <1>8, <1>9 DEF Next

LEMMA ReaderStep ==
  ASSUME TypeOK, ReaderMeant, Moves, [Next]_vars
  PROVE  ReaderMeant'
<1>1. CASE UNCHANGED reader
  BY <1>1 DEF ReaderMeant, Moves, Unsettled
<1>2. CASE PresignDownload
  BY <1>2 DEF PresignDownload, ReaderMeant
<1>3. CASE RecordDownload \/ RefuseDownload
  BY <1>3 DEF RecordDownload, RefuseDownload, ReaderMeant
<1>4. ASSUME NEW n \in Attempts, RunStep(n) \/ Crash(n)
      PROVE  UNCHANGED reader
  BY <1>4
     DEF RunStep, Acquire, Load, Put, Complete, Undo, Reject, GiveUp, Report, Crash
<1>5. ASSUME NEW c \in Cleaners, CleanerStep(c) \/ CleanerFails(c)
      PROVE  UNCHANGED reader
  BY <1>5
     DEF CleanerStep, Reserve, FetchDeletion, DeleteObject, ClearExpiredResult, CleanerFails
<1>6. CASE CreateExport \/ DeleteExport \/ ResultExpires \/ EditTree \/ BeginAttempt \/ Bury
          \/ UNCHANGED vars
  BY <1>1, <1>6 DEF CreateExport, DeleteExport, ResultExpires, EditTree, BeginAttempt, Bury, vars
<1> QED  BY <1>1, <1>2, <1>3, <1>4, <1>5, <1>6 DEF Next

-----------------------------------------------------------------------------
(* The theorems. *)

LEMMA InitInv == Init => Inv
<1> SUFFICES ASSUME Init  PROVE Inv
  OBVIOUS
<1>1. export.status = "absent" /\ task.phase = "unknown" /\ reader = None
  BY DEF Init
<1>2. \A n \in Attempts : run[n].pc = "none"
  BY DEF Init
<1>3. \A c \in Cleaners : cleaner[c].pc = "idle"
  BY DEF Init, Rested
<1>4. RunsMeant
  BY <1>1, <1>2 DEF RunsMeant, Meant, Active
<1> QED  BY <1>1, <1>3, <1>4, InitType
         DEF Inv, LiveResult, SucceededJobSettlesExport, CleanersMeant, TaskMeant, ReaderMeant

LEMMA NextInv ==
  ASSUME Inv, [Next]_vars
  PROVE  Inv' /\ Moves
<1>1. TypeOK' /\ Moves /\ Removes
  BY TypeStep, StepMoves, StepRemoves DEF Inv
<1>2. RunsMeant' /\ LiveResult'
  BY <1>1, RunsMeantStep, LiveResultStep DEF Inv
<1>3. CleanersMeant' /\ TaskMeant' /\ SucceededJobSettlesExport' /\ ReaderMeant'
  BY <1>1, CleanersMeantStep, TaskStep, ReaderStep DEF Inv
<1> QED  BY <1>1, <1>2, <1>3 DEF Inv

LEMMA Invariance == Spec => []Inv
BY InitInv, NextInv, PTL DEF Spec

\* Type correctness of the export pipeline.
THEOREM ExportTypeCorrect == Spec => []TypeOK
<1>1. Inv => TypeOK
  BY DEF Inv
<1> QED  BY <1>1, Invariance, PTL

\* A completed export has its object, whatever its stalled attempts and its cleaners do.
THEOREM LiveResultHolds == Spec => []LiveResult
<1>1. Inv => LiveResult
  BY DEF Inv
<1> QED  BY <1>1, Invariance, PTL

\* A job that succeeded has settled its export.
THEOREM SucceededJobSettlesExportHolds == Spec => []SucceededJobSettlesExport
<1>1. Inv => SucceededJobSettlesExport
  BY DEF Inv
<1> QED  BY <1>1, Invariance, PTL

\* A recorded download link points to the object that exists at that moment.
THEOREM DownloadServesLiveResultHolds == Spec => DownloadServesLiveResult
<1>1. Inv /\ RecordDownload => reader \in objects /\ reader = export.key
  BY DEF Inv, RecordDownload, Downloadable, LiveResult, ReaderMeant
<1>2. Inv /\ [Next]_vars => [RecordDownload => reader \in objects /\ reader = export.key]_vars
  BY <1>1
<1> QED  BY <1>2, Invariance, PTL DEF Spec, DownloadServesLiveResult

\* The export implements its contract: published once, unchanged and fetchable until
\* it is withdrawn, and never back from failed or withdrawn.
THEOREM ImplementsContractHolds == Spec => ImplementsContract
<1>1. Init => Contract!Init
  <2>1. ASSUME Init  PROVE export.status = "absent"
    BY <2>1 DEF Init
  <2> QED  BY <2>1 DEF Contract!Init, Stage, Result, Unsettled
<1>2. ASSUME Inv, Inv', Moves
      PROVE  [Contract!Next]_<<Stage, Result>>
  <2>1. export \in Export /\ export' \in Export
    BY <1>2 DEF Inv, TypeOK
  <2>2. objects' \subseteq Contents
    BY <1>2 DEF Inv, TypeOK
  <2>3. LiveResult /\ LiveResult'
    BY <1>2 DEF Inv
  <2>4. CASE export'.status = export.status /\ export.status # "completed"
    BY <2>1, <2>4 DEF Stage, Result, Export, Statuses, Unsettled
  <2>5. CASE export'.status = export.status /\ export.status = "completed"
    <3>1. export'.key = export.key
      BY <1>2, <2>5 DEF Moves, Unsettled
    <3> QED  BY <2>3, <2>5, <3>1 DEF Stage, Result, LiveResult, Unsettled
  <2>6. CASE export.status = "absent" /\ export'.status = "queued"
    BY <2>6 DEF Stage, Result, Unsettled, Contract!Next, Contract!Request
  <2>7. CASE export.status = "queued" /\ export'.status = "running"
    BY <2>7 DEF Stage, Result, Unsettled
  <2>8. CASE export.status = "running" /\ export'.status = "completed"
    <3>1. Stage = "pending" /\ Stage' = "available" /\ Result' = export'.key
      BY <2>3, <2>8 DEF Stage, Result, Unsettled, LiveResult
    <3>2. Result' \in Contents
      BY <2>2, <2>3, <2>8, <3>1 DEF LiveResult
    <3> QED  BY <3>1, <3>2 DEF Contract!Next, Contract!Publish
  <2>9. CASE export.status \in Unsettled /\ export'.status = "failed"
    BY <2>9 DEF Stage, Result, Unsettled, Contract!Next, Contract!Fail
  <2>10. CASE export.status # "absent" /\ export'.status = "expired"
    <3>1. Stage' = "withdrawn" /\ Result' = None
      BY <2>10 DEF Stage, Result, Unsettled
    <3>2. CASE export.status = "expired"
      BY <2>10, <3>1, <3>2 DEF Stage, Result, Unsettled
    <3>3. CASE export.status # "expired"
      <4>1. Stage \in {"pending", "available", "failed"}
        BY <2>1, <2>3, <2>10, <3>3 DEF Stage, Unsettled, LiveResult, Export, Statuses
      <4> QED  BY <3>1, <4>1 DEF Contract!Next, Contract!Withdraw
    <3> QED  BY <3>2, <3>3
  <2> QED  BY <1>2, <2>4, <2>5, <2>6, <2>7, <2>8, <2>9, <2>10 DEF Moves
<1>3. Inv /\ Inv' /\ [Next]_vars => [Contract!Next]_<<Stage, Result>>
  BY <1>2, NextInv
<1> QED  BY <1>1, <1>3, Invariance, PTL DEF Spec, ImplementsContract, Contract!Spec

-----------------------------------------------------------------------------
(* Leaks.  An object is accounted for by the row, by the run that has uploaded it and is not done    *)
(* with it, or by the cleaner that is about to delete it; what is left over is one fault each.       *)

Holding == {"complete", "undo"}

\* The object that the row names was deleted already, and a cleaner is about to clear the row.
Outlived(key) == \E c \in Cleaners : cleaner[c].pc = "clear" /\ cleaner[c].key = key

Leaked ==
  {o \in objects : /\ \A n \in Attempts : run[n].pc \in Holding => run[n].content # o
                   /\ \A c \in Cleaners : cleaner[c].pc = "delete" => cleaner[c].key # o
                   /\ o = export.key => Outlived(export.key)}

\* A result has a key only once it was completed, and a cleaner has the key it started with.
KeyMeant ==
  /\ export.status \in {"absent", "queued", "running", "failed"} => export.key = None
  /\ \A c \in Cleaners : cleaner[c].pc # "idle" => export.key \in {cleaner[c].key, None}

\* The attempts still to come have not run.
FreshMeant == \A n \in Attempts : n > task.tries => run[n].pc = "none"

LeakInv == Inv /\ KeyMeant /\ FreshMeant /\ Cardinality(Leaked) <= faults

\* A step leaks nothing, or one object and has a fault.
LeaksLittle ==
  \/ Leaked' \subseteq Leaked /\ faults' \in {faults, faults + 1}
  \/ (\E x \in Key : Leaked' \subseteq Leaked \cup {x}) /\ faults' = faults + 1

LEMMA ObjectsNamed == TypeOK => /\ None \notin objects /\ IsFiniteSet(objects)
                                /\ IsFiniteSet(Leaked) /\ Cardinality(Leaked) \in Nat
<1> SUFFICES ASSUME TypeOK  PROVE None \notin objects /\ IsFiniteSet(objects)
                                  /\ IsFiniteSet(Leaked) /\ Cardinality(Leaked) \in Nat
  OBVIOUS
<1>1. None \notin objects /\ IsFiniteSet(objects)
  BY ExportAssumption, FS_Subset DEF TypeOK
<1>2. IsFiniteSet(Leaked)
  BY <1>1, FS_Subset DEF Leaked
<1> QED  BY <1>1, <1>2, FS_CardinalityType

\* A run that leaves the row's key alone can only lose its own object.
LEMMA RunLoses ==
  ASSUME NEW n \in Attempts, cleaner' = cleaner, export'.key = export.key,
         \A m \in Attempts \ {n} : run'[m] = run[m],
         objects' \subseteq objects \cup {run[n].content}
  PROVE  /\ Leaked' \subseteq Leaked \cup {run[n].content}
         /\ \/ run'[n].pc \in Holding /\ run'[n].content = run[n].content
            \/ run[n].content \notin objects'
            \/ objects' \subseteq objects /\ run[n].pc \notin Holding
            => Leaked' \subseteq Leaked
<1> SUFFICES ASSUME NEW o \in Leaked', o \notin Leaked
             PROVE  /\ o = run[n].content
                    /\ ~ (run'[n].pc \in Holding /\ run'[n].content = run[n].content)
                    /\ ~ (objects' \subseteq objects /\ run[n].pc \notin Holding)
                    /\ o \in objects'
  OBVIOUS
<1>1. /\ o \in objects'
      /\ \A m \in Attempts : run'[m].pc \in Holding => run'[m].content # o
      /\ \A c \in Cleaners : cleaner[c].pc = "delete" => cleaner[c].key # o
      /\ o = export.key => Outlived(export.key)
  BY DEF Leaked, Outlived
<1>2. \/ o \notin objects
      \/ \E m \in Attempts : run[m].pc \in Holding /\ run[m].content = o
  BY <1>1 DEF Leaked
<1>3. o = run[n].content
  BY <1>1, <1>2
<1>4. o \notin objects \/ run[n].pc \in Holding
  BY <1>1, <1>2
<1> QED  BY <1>1, <1>3, <1>4

LEMMA RunLeaks ==
  ASSUME Inv, KeyMeant, NEW n \in Attempts, RunStep(n) \/ Crash(n)
  PROVE  LeaksLittle
<1> USE RunPCs, RunGoes
<1>1. run \in [Attempts -> Run] /\ export \in Export /\ run[n].content \in Key
      /\ faults \in Nat
  BY DEF Inv, TypeOK, Run
<1>2. Fault => faults' = faults + 1
  BY DEF Fault
<1>3. CASE Acquire(n)
  <2>1. /\ cleaner' = cleaner /\ objects' = objects /\ faults' \in {faults, faults + 1}
        /\ export'.key = export.key /\ run[n].pc \notin Holding
        /\ \A m \in Attempts \ {n} : run'[m] = run[m]
    BY <1>1, <1>2, <1>3, RowStarts DEF Acquire, Goto, Fails, Holding
  <2> QED  BY <2>1, RunLoses DEF LeaksLittle
<1>4. CASE Load(n)
  <2>1. /\ cleaner' = cleaner /\ objects' = objects /\ faults' \in {faults, faults + 1}
        /\ export'.key = export.key /\ run[n].pc \notin Holding
        /\ \A m \in Attempts \ {n} : run'[m] = run[m]
    BY <1>1, <1>2, <1>4 DEF Load, Goto, Fails, Holding
  <2> QED  BY <2>1, RunLoses DEF LeaksLittle
<1>5. CASE Put(n)
  <2>1. /\ cleaner' = cleaner /\ export' = export
        /\ objects' \subseteq objects \cup {run[n].content}
    BY <1>5 DEF Put
  <2>2. /\ run' \in [Attempts -> Run] /\ run'[n].content = run[n].content
        /\ \A m \in Attempts \ {n} : run'[m] = run[m]
    BY <1>1, <1>5 DEF Put, Fails, Goto, Run, RunPC, Active, Retry
  <2>3. \/ run'[n].pc \in Holding /\ faults' = faults
        \/ faults' = faults + 1
    BY <1>1, <1>2, <1>5 DEF Put, Fails, Goto, Holding
  <2> QED  BY <1>1, <2>1, <2>2, <2>3, RunLoses DEF LeaksLittle
<1>6. CASE Complete(n)
  <2>1. /\ cleaner' = cleaner /\ objects' = objects
        /\ export' \in {export, Completed(n)}
    BY <1>6 DEF Complete
  <2>2. /\ run' \in [Attempts -> Run] /\ run'[n].content = run[n].content
        /\ \A m \in Attempts \ {n} : run'[m] = run[m]
    BY <1>1, <1>6 DEF Complete, Fails, Goto, Run, RunPC, Active, Retry
  <2>3. faults' \in {faults, faults + 1}
    BY <1>1, <1>2, <1>6 DEF Complete, Fails
  <2>4. CASE export' # export
    <3>1. /\ export.status = "running" /\ export'.key = run[n].content /\ export.key = None
      BY <1>1, <2>1, <2>4, RowCompletes DEF KeyMeant
    <3>2. \A c \in Cleaners : cleaner[c].pc = "idle"
      BY <3>1 DEF Inv, CleanersMeant
    <3>3. ASSUME NEW o \in Leaked'  PROVE o \in Leaked
      <4>1. /\ o \in objects /\ o # run[n].content /\ o # None
            /\ \A m \in Attempts : run'[m].pc \in Holding => run'[m].content # o
        BY <2>1, <3>1, <3>2, ObjectsNamed DEF Leaked, Outlived, Inv
      <4>2. \A m \in Attempts : run[m].pc \in Holding => run[m].content # o
        BY <2>2, <4>1
      <4> QED  BY <3>1, <3>2, <4>1, <4>2 DEF Leaked
    <3> QED  BY <2>3, <3>3 DEF LeaksLittle
  <2>5. CASE export' = export /\ faults' = faults + 1
    BY <1>1, <2>1, <2>2, <2>5, RunLoses DEF LeaksLittle
  <2>6. CASE export' = export /\ faults' = faults
    <3>1. Goto(n, IF export'.status = "completed" /\ export'.key = run[n].content
                     THEN "ok" ELSE "undo")
      BY <1>1, <1>2, <1>6, <2>6 DEF Complete, Fails
    <3>2. CASE run'[n].pc = "undo"
      BY <2>1, <2>2, <2>6, <3>2, RunLoses DEF LeaksLittle, Holding
    <3>3. CASE run'[n].pc # "undo"
      <4>1. export.status = "completed" /\ export.key = run[n].content
        BY <1>1, <2>6, <3>1, <3>3 DEF Goto
      <4>2. run[n].content \notin Leaked'
        BY <2>1, <2>6, <4>1 DEF Leaked, Outlived, Inv, CleanersMeant
      <4>3. Leaked' \subseteq Leaked \cup {run[n].content}
        BY <2>1, <2>2, <2>6, RunLoses
      <4> QED  BY <2>6, <4>2, <4>3 DEF LeaksLittle
    <3> QED  BY <3>2, <3>3
  <2> QED  BY <2>3, <2>4, <2>5, <2>6
<1>7. CASE Undo(n)
  <2>1. /\ cleaner' = cleaner /\ export' = export /\ objects' \subseteq objects
    BY <1>7 DEF Undo
  <2>2. \A m \in Attempts \ {n} : run'[m] = run[m]
    BY <1>1, <1>7 DEF Undo, Fails, Goto
  <2>3. \/ run[n].content \notin objects' /\ faults' = faults
        \/ faults' = faults + 1
    BY <1>1, <1>2, <1>7 DEF Undo, Fails
  <2> QED  BY <1>1, <2>1, <2>2, <2>3, RunLoses DEF LeaksLittle
<1>8. CASE Reject(n) \/ GiveUp(n)
  <2>1. /\ cleaner' = cleaner /\ objects' = objects /\ faults' \in {faults, faults + 1}
        /\ export'.key = export.key /\ run[n].pc \notin Holding
        /\ \A m \in Attempts \ {n} : run'[m] = run[m]
    BY <1>1, <1>2, <1>8, RowRefused DEF Reject, GiveUp, Goto, Fails, Holding
  <2> QED  BY <2>1, RunLoses DEF LeaksLittle
<1>9. CASE Report(n)
  <2>1. /\ cleaner' = cleaner /\ objects' = objects /\ faults' \in {faults, faults + 1}
        /\ export'.key = export.key /\ run[n].pc \notin Holding
        /\ \A m \in Attempts \ {n} : run'[m] = run[m]
    BY <1>1, <1>9 DEF Report, Goto, Holding
  <2> QED  BY <2>1, RunLoses DEF LeaksLittle
<1>10. CASE Crash(n)
  <2>1. /\ cleaner' = cleaner /\ objects' = objects /\ faults' = faults + 1
        /\ export'.key = export.key
        /\ \A m \in Attempts \ {n} : run'[m] = run[m]
    BY <1>1, <1>2, <1>10 DEF Crash, Goto, Fails
  <2> QED  BY <1>1, <2>1, RunLoses DEF LeaksLittle
<1> QED  BY <1>3, <1>4, <1>5, <1>6, <1>7, <1>8, <1>9, <1>10 DEF RunStep

LEMMA CleanerBegins ==
  ASSUME TypeOK, NEW c \in Cleaners, Reserve(c) \/ FetchDeletion(c)
  PROVE  /\ export'.key = export.key /\ objects' = objects /\ faults' = faults
         /\ cleaner[c].pc = "idle"
         /\ cleaner'[c].pc = (IF export.key = None THEN "clear" ELSE "delete")
         /\ cleaner'[c].key = export.key
<1>1. export \in Export /\ cleaner \in [Cleaners -> Cleaner]
  BY DEF TypeOK
<1>2. ASSUME NEW job, CleanerTakes(c, job)
      PROVE  /\ cleaner'[c].pc = (IF export.key = None THEN "clear" ELSE "delete")
             /\ cleaner'[c].key = export.key
  BY <1>1, <1>2 DEF CleanerTakes
<1>3. CASE Reserve(c)
  BY <1>1, <1>2, <1>3, RowChanges DEF Reserve, Statuses
<1>4. CASE FetchDeletion(c)
  BY <1>2, <1>4 DEF FetchDeletion
<1> QED  BY <1>3, <1>4

LEMMA CleanerLeaks ==
  ASSUME Inv, KeyMeant, NEW c \in Cleaners, CleanerStep(c) \/ CleanerFails(c)
  PROVE  LeaksLittle
<1>1. /\ cleaner \in [Cleaners -> Cleaner] /\ export \in Export /\ cleaner[c].key \in Key
      /\ faults \in Nat /\ None \notin objects
  BY ObjectsNamed DEF Inv, TypeOK, Cleaner
<1>2. /\ run' = run /\ objects' \subseteq objects
      /\ \A d \in Cleaners \ {c} : cleaner'[d] = cleaner[d]
  BY <1>1 DEF CleanerStep, Reserve, FetchDeletion, DeleteObject, ClearExpiredResult, CleanerFails,
              CleanerTakes, CleanerAt
<1>3. CASE Reserve(c) \/ FetchDeletion(c)
  <2>1. /\ export'.key = export.key /\ objects' = objects /\ faults' = faults
        /\ cleaner[c].pc = "idle"
        /\ cleaner'[c].pc = (IF export.key = None THEN "clear" ELSE "delete")
        /\ cleaner'[c].key = export.key
    BY <1>3, CleanerBegins DEF Inv
  <2>2. ASSUME NEW o \in Leaked'  PROVE o \in Leaked
    <3>1. o \in objects /\ o # None
      BY <1>1, <2>1 DEF Leaked
    <3>2. \A d \in Cleaners : cleaner[d].pc = "delete" => cleaner[d].key # o
      BY <1>2, <2>1 DEF Leaked
    <3>3. o = export.key => Outlived(export.key)
      <4> SUFFICES ASSUME o = export.key  PROVE Outlived(export.key)
        OBVIOUS
      <4>1. PICK d \in Cleaners : cleaner'[d].pc = "clear" /\ cleaner'[d].key = export.key
        BY <2>1 DEF Leaked, Outlived
      <4> QED  BY <1>2, <2>1, <3>1, <4>1 DEF Outlived
    <3> QED  BY <1>2, <3>1, <3>2, <3>3 DEF Leaked
  <2> QED  BY <2>1, <2>2 DEF LeaksLittle
<1>4. CASE DeleteObject(c)
  <2>1. /\ export' = export /\ objects' = objects \ {cleaner[c].key} /\ faults' = faults
        /\ cleaner[c].pc = "delete" /\ cleaner'[c].pc = "clear"
        /\ cleaner'[c].key = cleaner[c].key
    BY <1>1, <1>4 DEF DeleteObject, CleanerAt, Cleaner
  <2>2. ASSUME NEW o \in Leaked'  PROVE o \in Leaked
    <3>1. o \in objects /\ o # cleaner[c].key
      BY <2>1 DEF Leaked
    <3>2. \A d \in Cleaners : cleaner[d].pc = "delete" => cleaner[d].key # o
      BY <1>2, <2>1, <3>1 DEF Leaked
    <3>3. o = export.key => Outlived(export.key)
      <4> SUFFICES ASSUME o = export.key  PROVE Outlived(export.key)
        OBVIOUS
      <4>1. PICK d \in Cleaners : cleaner'[d].pc = "clear" /\ cleaner'[d].key = export.key
        BY <2>1 DEF Leaked, Outlived
      <4> QED  BY <1>2, <2>1, <3>1, <4>1 DEF Outlived
    <3> QED  BY <1>2, <3>1, <3>2, <3>3 DEF Leaked
  <2> QED  BY <2>1, <2>2 DEF LeaksLittle
<1>5. CASE ClearExpiredResult(c)
  <2>1. /\ objects' = objects /\ faults' = faults
        /\ cleaner[c].pc = "clear" /\ cleaner'[c] = Rested
    BY <1>1, <1>5 DEF ClearExpiredResult
  <2>2. export.status = "expired" /\ export'.key = None
    BY <1>1, <1>5, <2>1, RowChanges DEF ClearExpiredResult, Inv, CleanersMeant
  <2>3. ASSUME NEW o \in Leaked'  PROVE o \in Leaked
    <3>1. o \in objects /\ o # None
      BY <1>1, <2>1 DEF Leaked
    <3>2. \A d \in Cleaners : cleaner[d].pc = "delete" => cleaner[d].key # o
      BY <1>2, <2>1 DEF Leaked
    <3>3. o = export.key => Outlived(export.key)
      BY <2>1, <3>1 DEF Outlived, KeyMeant
    <3> QED  BY <1>2, <3>1, <3>2, <3>3 DEF Leaked
  <2> QED  BY <2>1, <2>3 DEF LeaksLittle
<1>6. CASE CleanerFails(c)
  <2>1. /\ objects' = objects /\ faults' = faults + 1 /\ export' = export
        /\ cleaner'[c].pc = "idle"
    BY <1>1, <1>6 DEF CleanerFails, Fault, Rested
  <2>3. ASSUME NEW o \in Leaked', o # cleaner[c].key  PROVE o \in Leaked
    <3>1. o \in objects
      BY <2>1 DEF Leaked
    <3>2. \A d \in Cleaners : cleaner[d].pc = "delete" => cleaner[d].key # o
      BY <1>2, <2>1, <2>3 DEF Leaked
    <3>3. o = export.key => Outlived(export.key)
      <4> SUFFICES ASSUME o = export.key  PROVE Outlived(export.key)
        OBVIOUS
      <4>1. PICK d \in Cleaners : cleaner'[d].pc = "clear" /\ cleaner'[d].key = export.key
        BY <2>1 DEF Leaked, Outlived
      <4> QED  BY <1>2, <2>1, <4>1 DEF Outlived
    <3> QED  BY <1>2, <3>1, <3>2, <3>3 DEF Leaked
  <2> QED  BY <1>1, <2>1, <2>3 DEF LeaksLittle
<1> QED  BY <1>3, <1>4, <1>5, <1>6 DEF CleanerStep

LEMMA StepLeaks ==
  ASSUME Inv, KeyMeant, FreshMeant, [Next]_vars
  PROVE  LeaksLittle
<1>1. CASE \/ CreateExport \/ DeleteExport \/ ResultExpires \/ PresignDownload \/ RecordDownload
           \/ RefuseDownload \/ EditTree \/ Bury \/ UNCHANGED vars
  <2>1. UNCHANGED <<objects, run, cleaner, faults>> /\ export'.key = export.key
    BY <1>1, RowChanges
       DEF CreateExport, DeleteExport, ResultExpires, PresignDownload, RecordDownload,
           RefuseDownload, EditTree, Bury, vars, Inv, TypeOK, Statuses
  <2> QED  BY <2>1 DEF LeaksLittle, Leaked, Outlived
<1>2. CASE BeginAttempt
  <2>1. PICK u \in [phase : {"owned"}, tries : Attempts] : Ledger!Begin(task, u)
    BY <1>2 DEF BeginAttempt
  <2>2. task.tries + 1 \in Attempts /\ task.tries \in Nat /\ run \in [Attempts -> Run]
    BY <2>1, ExportAssumption DEF Ledger!Begin, Attempts, Inv, TypeOK, Task
  <2>3. run[task.tries + 1].pc = "none"
    BY <2>2 DEF FreshMeant
  <2>4. /\ UNCHANGED <<objects, export, cleaner, faults>>
        /\ \A m \in Attempts \ {task.tries + 1} : run'[m] = run[m]
    BY <1>2, <2>2 DEF BeginAttempt, Goto
  <2> QED  BY <2>2, <2>3, <2>4, RunLoses DEF LeaksLittle, Holding
<1> QED  BY <1>1, <1>2, RunLeaks, CleanerLeaks DEF Next

\* How the key of the row moves.
LEMMA KeyStep ==
  ASSUME Inv, Moves, KeyMeant, [Next]_vars
  PROVE  KeyMeant'
<1> DEFINE KeyMoves ==
      \/ export'.key = export.key
      \/ export.status = "running" /\ export'.status = "completed"
      \/ export.status = "expired" /\ export'.status = "expired" /\ export'.key = None
<1>1. export \in Export /\ cleaner \in [Cleaners -> Cleaner]
  BY DEF Inv, TypeOK
<1>2. KeyMoves
  <2>1. CASE \/ CreateExport \/ DeleteExport \/ ResultExpires \/ PresignDownload \/ RecordDownload
             \/ RefuseDownload \/ EditTree \/ Bury \/ BeginAttempt \/ UNCHANGED vars
    BY <1>1, <2>1, RowChanges
       DEF CreateExport, DeleteExport, ResultExpires, PresignDownload, RecordDownload,
           RefuseDownload, EditTree, Bury, BeginAttempt, vars, Statuses
  <2>2. ASSUME NEW n \in Attempts, RunStep(n) \/ Crash(n)  PROVE KeyMoves
    <3>1. CASE Complete(n)
      <4>1. export' \in {export, Completed(n)} /\ run \in [Attempts -> Run]
        BY <3>1 DEF Complete, Inv, TypeOK
      <4> QED  BY <1>1, <4>1, RowCompletes
    <3>2. CASE Acquire(n)
      BY <1>1, <3>2, RowStarts DEF Acquire
    <3>3. CASE Reject(n) \/ GiveUp(n)
      BY <1>1, <3>3, RowRefused DEF Reject, GiveUp
    <3>4. CASE Load(n) \/ Put(n) \/ Undo(n) \/ Report(n) \/ Crash(n)
      BY <3>4 DEF Load, Put, Undo, Report, Crash
    <3> QED  BY <2>2, <3>1, <3>2, <3>3, <3>4 DEF RunStep
  <2>3. ASSUME NEW c \in Cleaners, CleanerStep(c) \/ CleanerFails(c)  PROVE KeyMoves
    <3>1. CASE Reserve(c)
      BY <1>1, <3>1, RowChanges DEF Reserve, Statuses
    <3>2. CASE ClearExpiredResult(c)
      BY <1>1, <3>2, RowChanges DEF ClearExpiredResult
    <3>3. CASE FetchDeletion(c) \/ DeleteObject(c) \/ CleanerFails(c)
      BY <3>3 DEF FetchDeletion, DeleteObject, CleanerFails
    <3> QED  BY <2>3, <3>1, <3>2, <3>3 DEF CleanerStep
  <2> QED  BY <2>1, <2>2, <2>3 DEF Next
<1>3. export'.status \in {"absent", "queued", "running", "failed"} => export'.key = None
  BY <1>2 DEF KeyMeant, Moves, Unsettled
<1>4. ASSUME NEW c \in Cleaners, cleaner'[c] = cleaner[c], cleaner[c].pc # "idle"
      PROVE  export'.key \in {cleaner'[c].key, None}
  BY <1>2, <1>4 DEF KeyMeant, Inv, CleanersMeant
<1>5. ASSUME NEW c \in Cleaners, cleaner'[c].pc # "idle"
      PROVE  export'.key \in {cleaner'[c].key, None}
  <2>1. CASE cleaner' = cleaner
    BY <1>4, <1>5, <2>1
  <2>2. ASSUME NEW d \in Cleaners, CleanerStep(d) \/ CleanerFails(d)
        PROVE  export'.key \in {cleaner'[c].key, None}
    <3>1. \A e \in Cleaners \ {d} : cleaner'[e] = cleaner[e]
      BY <1>1, <2>2
         DEF CleanerStep, Reserve, FetchDeletion, DeleteObject, ClearExpiredResult, CleanerFails,
             CleanerTakes, CleanerAt
    <3>2. CASE c # d
      BY <1>4, <1>5, <3>1, <3>2
    <3>3. CASE c = d /\ (Reserve(d) \/ FetchDeletion(d))
      BY <3>3, CleanerBegins DEF Inv
    <3>4. CASE c = d /\ DeleteObject(d)
      <4>1. cleaner'[c].key = cleaner[c].key /\ cleaner[c].pc # "idle" /\ export' = export
        BY <1>1, <3>4 DEF DeleteObject, CleanerAt, Cleaner
      <4> QED  BY <4>1 DEF KeyMeant
    <3>5. CASE c = d /\ (ClearExpiredResult(d) \/ CleanerFails(d))
      BY <1>1, <1>5, <3>5 DEF ClearExpiredResult, CleanerFails, Rested
    <3> QED  BY <2>2, <3>2, <3>3, <3>4, <3>5 DEF CleanerStep
  <2>3. ASSUME NEW n \in Attempts, RunStep(n) \/ Crash(n)  PROVE cleaner' = cleaner
    BY <2>3 DEF RunStep, Acquire, Load, Put, Complete, Undo, Reject, GiveUp, Report, Crash
  <2>4. CASE \/ CreateExport \/ DeleteExport \/ ResultExpires \/ PresignDownload \/ RecordDownload
             \/ RefuseDownload \/ EditTree \/ Bury \/ BeginAttempt \/ UNCHANGED vars
    BY <2>1, <2>4
       DEF CreateExport, DeleteExport, ResultExpires, PresignDownload, RecordDownload,
           RefuseDownload, EditTree, Bury, BeginAttempt, vars
  <2> QED  BY <2>1, <2>2, <2>3, <2>4 DEF Next
<1> QED  BY <1>3, <1>5 DEF KeyMeant

LEMMA FreshStep ==
  ASSUME Inv, FreshMeant, [Next]_vars
  PROVE  FreshMeant'
<1>1. run \in [Attempts -> Run] /\ task.tries \in Nat /\ \A n \in Attempts : n \in Nat
  BY DEF Inv, TypeOK, Task, Attempts
<1>2. CASE CreateExport
  <2>1. \A n \in Attempts : run[n].pc = "none"
    BY <1>2 DEF CreateExport, Inv, RunsMeant, Meant
  <2> QED  BY <1>2, <2>1 DEF CreateExport, FreshMeant
<1>3. CASE BeginAttempt
  <2>1. task'.tries = task.tries + 1 /\ \A m \in Attempts \ {task.tries + 1} : run'[m] = run[m]
    BY <1>1, <1>3 DEF BeginAttempt, Ledger!Begin, Goto
  <2> QED  BY <1>1, <2>1 DEF FreshMeant
<1>4. ASSUME NEW n \in Attempts, RunStep(n) \/ Crash(n)  PROVE FreshMeant'
  <2>1. run[n].pc # "none" /\ \A m \in Attempts \ {n} : run'[m] = run[m]
    BY <1>1, <1>4 DEF RunStep, Acquire, Load, Put, Complete, Undo, Reject, GiveUp, Report, Crash,
                      Fails, Goto, Active
  <2>2. task'.tries = task.tries
    <3>1. CASE Report(n)
      <4>1. CASE task.phase = "owned" /\ task.tries = n
        BY <3>1, <4>1 DEF Report
      <4> QED  BY <3>1, <4>1 DEF Report
    <3> QED  BY <1>4, <3>1 DEF RunStep, Acquire, Load, Put, Complete, Undo, Reject, GiveUp, Crash
  <2> QED  BY <2>1, <2>2 DEF FreshMeant
<1>5. ASSUME NEW c \in Cleaners, CleanerStep(c) \/ CleanerFails(c)  PROVE UNCHANGED <<run, task>>
  BY <1>5 DEF CleanerStep, Reserve, FetchDeletion, DeleteObject, ClearExpiredResult, CleanerFails
<1>6. CASE \/ DeleteExport \/ ResultExpires \/ PresignDownload \/ RecordDownload
           \/ RefuseDownload \/ EditTree \/ UNCHANGED vars
  BY <1>6 DEF DeleteExport, ResultExpires, PresignDownload, RecordDownload, RefuseDownload,
              EditTree, vars, FreshMeant
<1>7. CASE Bury
  <2>1. task'.tries = task.tries /\ run' = run
    BY <1>7 DEF Bury, Inv, TypeOK, Task
  <2> QED  BY <2>1 DEF FreshMeant
<1> QED  BY <1>2, <1>3, <1>4, <1>5, <1>6, <1>7 DEF Next, FreshMeant

LEMMA LeakInvariance == Spec => []LeakInv
<1>1. Init => KeyMeant /\ FreshMeant /\ Cardinality(Leaked) <= faults
  <2> SUFFICES ASSUME Init  PROVE KeyMeant /\ FreshMeant /\ Cardinality(Leaked) <= faults
    OBVIOUS
  <2>1. Leaked = {} /\ faults = 0
    BY DEF Init, Leaked
  <2> QED  BY <2>1, FS_EmptySet DEF Init, KeyMeant, FreshMeant, Rested
<1>2. LeakInv /\ [Next]_vars => LeakInv'
  <2> SUFFICES ASSUME LeakInv, [Next]_vars  PROVE LeakInv'
    OBVIOUS
  <2>1. Inv' /\ Moves
    BY NextInv DEF LeakInv
  <2>2. KeyMeant' /\ FreshMeant' /\ LeaksLittle
    BY <2>1, KeyStep, FreshStep, StepLeaks DEF LeakInv
  <2>3. /\ IsFiniteSet(Leaked) /\ Cardinality(Leaked) \in Nat /\ faults \in Nat
        /\ IsFiniteSet(Leaked') /\ Cardinality(Leaked') \in Nat
    <3>1. (TypeOK => /\ None \notin objects /\ IsFiniteSet(objects)
                     /\ IsFiniteSet(Leaked) /\ Cardinality(Leaked) \in Nat)'
      BY ObjectsNamed, PTL
    <3> QED  BY <2>1, <3>1, ObjectsNamed DEF LeakInv, Inv, TypeOK
  <2>4. Cardinality(Leaked') <= faults'
    <3>1. CASE Leaked' \subseteq Leaked /\ faults' \in {faults, faults + 1}
      <4>1. Cardinality(Leaked') <= Cardinality(Leaked) /\ Cardinality(Leaked) <= faults
        BY <2>3, <3>1, FS_Subset DEF LeakInv
      <4> QED  BY <2>3, <3>1, <4>1
    <3>2. ASSUME NEW x, Leaked' \subseteq Leaked \cup {x}, faults' = faults + 1
          PROVE  Cardinality(Leaked') <= faults'
      <4>1. /\ IsFiniteSet(Leaked \cup {x})
            /\ Cardinality(Leaked \cup {x}) \in {Cardinality(Leaked), Cardinality(Leaked) + 1}
        BY <2>3, FS_AddElement
      <4>2. Cardinality(Leaked') <= Cardinality(Leaked \cup {x})
        BY <3>2, <4>1, FS_Subset
      <4>3. Cardinality(Leaked) <= faults
        BY DEF LeakInv
      <4> QED  BY <2>3, <3>2, <4>1, <4>2, <4>3
    <3> QED  BY <2>2, <3>1, <3>2 DEF LeaksLittle
  <2> QED  BY <2>1, <2>2, <2>4 DEF LeakInv
<1> QED  BY <1>1, <1>2, InitInv, PTL DEF Spec, LeakInv

\* For any number of attempts and cleaners: when nothing runs, the objects that the row does not
\* name are no more than the calls that failed and the processes that crashed.
THEOREM LeaksNeedFaultsHolds == Spec => []LeaksNeedFaults
<1>1. LeakInv => LeaksNeedFaults
  <2> SUFFICES ASSUME LeakInv, Quiet  PROVE Cardinality(objects \ {export.key}) <= faults
    BY DEF LeaksNeedFaults
  <2>1. objects \ {export.key} \subseteq Leaked
    BY DEF Leaked, Quiet, Active, Holding
  <2>2. IsFiniteSet(Leaked) /\ Cardinality(Leaked) \in Nat /\ Cardinality(Leaked) <= faults
        /\ faults \in Nat
    BY ObjectsNamed DEF LeakInv, Inv, TypeOK
  <2>3. Cardinality(objects \ {export.key}) \in Nat
        /\ Cardinality(objects \ {export.key}) <= Cardinality(Leaked)
    BY <2>1, <2>2, FS_Subset, FS_CardinalityType
  <2> QED  BY <2>2, <2>3
<1> QED  BY <1>1, LeakInvariance, PTL
=============================================================================
