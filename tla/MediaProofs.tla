----------------------------- MODULE MediaProofs -----------------------------
(***************************************************************************)
(* What holds of an uploaded file for any number of attempts and cleaners, *)
(* any set of derived images, and any number of failed calls, crashes and  *)
(* stalls.                                                                 *)
(***************************************************************************)
EXTENDS MediaRefinement, TLAPS

Doomed == {"rejected", "deleted", "gone"}

Working == Active \ {"acquire"}

\* What the place a run has reached says of the row m and the objects o.
Meant(r, m, o) ==
  /\ r.pc # "none" => m.status \notin {"absent", "pending"}
  /\ r.pc \in Working => m.status # "uploaded"
  /\ r.pc = "put" => /\ body = "image"
                     /\ m.status = "processing" => Variants \ r.todo \subseteq o
  /\ r.pc = "ready" => /\ body # "broken"
                       /\ m.status = "processing" => Derived \subseteq o
  /\ r.pc = "ok" => m.status \notin {"uploaded", "processing"}

RunsMeant == \A n \in Attempts : Meant(run[n], media, objects)

\* Bytes that nobody inspected are not those of a file found good.
NothingUnseen == Inspected => upload # "other"

OriginalMeant == "original" \in objects <=> upload # "none"

\* A cleaner deletes objects only of a file that cannot become live again.
CleanersMeant ==
  \A c \in Cleaners :
    cleaner[c].pc = "deleting" \/ (cleaner[c].pc = "listed" /\ cleaner[c].seen # "pending")
      => media.status \in Doomed

ClientMeant ==
  client.completing => /\ media.status # "absent"
                       /\ media.status = "pending" => "original" \in objects

TaskMeant == task.phase # "unknown" => media.status \notin {"absent", "pending"}

Inv ==
  /\ TypeOK /\ LiveMediaIsStored /\ SucceededJobSettlesMedia
  /\ RunsMeant /\ NothingUnseen /\ OriginalMeant /\ CleanersMeant /\ ClientMeant /\ TaskMeant

\* The row has outlived its retention, or is gone: nobody is left to upload.
Expired == media.status = "gone" \/ (media.status \in {"rejected", "deleted"} /\ media.stale)

NobodyUploads == Expired => ~client.link /\ \A n \in Attempts : run[n].pc \notin Working

\* A cleaner that will remove the row has listed it as stale, and what it deleted is
\* still deleted.
Sweeping(c) ==
  cleaner[c].pc # "idle" =>
    /\ cleaner[c].seen = "deleted" => media.status \in {"deleted", "gone"}
    /\ cleaner[c].seen # "pending" /\ media.status = cleaner[c].seen
         => /\ media.stale
            /\ cleaner[c].pc = "deleting" => objects \subseteq cleaner[c].todo

\* The invariant of a retention that outlasts links and attempts.
Swept == NobodyUploads /\ (\A c \in Cleaners : Sweeping(c)) /\ RemovedMediaLeavesNothing

\* How a step may move the row, and which objects it may take away.
Moves ==
  \/ /\ media'.status = media.status
     /\ media.stale => media'.stale
     /\ media'.stale => media.stale \/ Age
  \/ media.status = "absent" /\ media'.status = "pending"
  \/ /\ media.status = "pending" /\ media'.status = "uploaded"
     /\ client.completing
  \/ media.status = "uploaded" /\ media'.status = "processing"
  \/ /\ media.status = "processing" /\ media'.status = "ready"
     /\ \E n \in Attempts : run[n].pc = "ready"
  \/ media.status = "processing" /\ media'.status = "rejected" /\ ~media'.stale
  \/ media.status \notin {"absent", "deleted", "gone"} /\ media'.status = "deleted" /\ ~media'.stale
  \/ /\ media.status \in {"rejected", "deleted"} /\ media'.status = "gone"
     /\ \E c \in Cleaners : /\ cleaner[c].pc = "deleting" /\ cleaner[c].todo = {}
                            /\ cleaner[c].seen = media.status

Removes ==
  \/ objects \subseteq objects'
  \/ \E c \in Cleaners : cleaner[c].pc = "deleting"

-----------------------------------------------------------------------------
(* Pieces of the actions. *)

RunPC == Active \cup {"none", "ok", "err", "done", "gone"}

LEMMA RunGoes ==
  ASSUME run \in [Attempts -> Run], NEW n \in Attempts, NEW pc \in RunPC, Goto(n, pc)
  PROVE  /\ run' \in [Attempts -> Run]
         /\ run'[n].pc = pc /\ run'[n].todo = run[n].todo
         /\ \A m \in Attempts \ {n} : run'[m] = run[m]
BY DEF Goto, Run, RunPC

LEMMA RunBecomes ==
  ASSUME run \in [Attempts -> Run], NEW n \in Attempts, NEW r \in Run,
         run' = [run EXCEPT ![n] = r]
  PROVE  /\ run' \in [Attempts -> Run] /\ run'[n] = r
         /\ \A m \in Attempts \ {n} : run'[m] = run[m]
OBVIOUS

LEMMA RunUploads ==
  ASSUME run \in [Attempts -> Run], NEW n \in Attempts, NEW v \in Variants, Uploaded(n, v)
  PROVE  /\ run' \in [Attempts -> Run]
         /\ run'[n].pc = IF run[n].todo = {v} THEN "ready" ELSE "put"
         /\ run'[n].todo = run[n].todo \ {v}
         /\ \A m \in Attempts \ {n} : run'[m] = run[m]
BY DEF Uploaded, Run, Active

LEMMA EndedRuns ==
  /\ \A pc \in {"err", "giveUp", "done", "gone"} : [pc |-> pc, todo |-> {}] \in Run
  /\ [pc |-> IF Derived = {} THEN "ready" ELSE "put", todo |-> Derived] \in Run
  /\ \A n \in Attempts : Retry(n) \in {"err", "giveUp"}
BY DEF Run, Active, Derived, Retry

LEMMA RowBecomes ==
  ASSUME NEW s \in Status
  PROVE  Becomes(s) \in Media /\ Becomes(s).status = s /\ ~Becomes(s).stale
BY DEF Becomes, Media

LEMMA RowChanges ==
  ASSUME media \in Media
  PROVE  /\ Started \in Media /\ Finished \in Media /\ Refused \in Media
         /\ IF media.status = "uploaded" THEN Started.status = "processing" ELSE Started = media
         /\ IF media.status = "processing" THEN Finished.status = "ready" ELSE Finished = media
         /\ IF media.status = "processing" THEN Refused.status = "rejected" /\ ~Refused.stale
                                           ELSE Refused = media
         /\ [media EXCEPT !.stale = TRUE] \in Media
         /\ [media EXCEPT !.stale = TRUE].status = media.status
         /\ [media EXCEPT !.stale = TRUE].stale
BY DEF Media, Becomes, Started, Finished, Refused, Status

LEMMA FaultCounts ==
  ASSUME faults \in 0 .. MaxFaults, Fault
  PROVE  faults' \in 0 .. MaxFaults
BY MediaAssumption DEF Fault

LEMMA CleanerGoes ==
  ASSUME cleaner \in [Cleaners -> Cleaner], NEW c \in Cleaners
  PROVE  /\ Rested \in Cleaner /\ Rested.pc = "idle"
         /\ cleaner' = [cleaner EXCEPT ![c] = Rested] =>
              /\ cleaner' \in [Cleaners -> Cleaner] /\ cleaner'[c] = Rested
              /\ \A d \in Cleaners \ {c} : cleaner'[d] = cleaner[d]
         /\ \A pc \in {"listed", "deleting"}, seen \in {"pending", "rejected", "deleted"},
               todo \in SUBSET Keys :
              Clean(c, pc, seen, todo) =>
              /\ cleaner' \in [Cleaners -> Cleaner]
              /\ cleaner'[c] = [pc |-> pc, seen |-> seen, todo |-> todo]
              /\ \A d \in Cleaners \ {c} : cleaner'[d] = cleaner[d]
<1>1. Rested \in Cleaner /\ Rested.pc = "idle"
  BY DEF Rested, Cleaner
<1>2. ASSUME NEW pc \in {"listed", "deleting"}, NEW seen \in {"pending", "rejected", "deleted"},
             NEW todo \in SUBSET Keys, Clean(c, pc, seen, todo)
      PROVE  /\ cleaner' \in [Cleaners -> Cleaner]
             /\ cleaner'[c] = [pc |-> pc, seen |-> seen, todo |-> todo]
             /\ \A d \in Cleaners \ {c} : cleaner'[d] = cleaner[d]
  <2>1. [pc |-> pc, seen |-> seen, todo |-> todo] \in Cleaner
    BY DEF Cleaner
  <2> QED  BY <1>2, <2>1 DEF Clean
<1> QED  BY <1>1, <1>2

-----------------------------------------------------------------------------
(* Type correctness. *)

LEMMA InitType == Init => TypeOK
<1> SUFFICES ASSUME Init  PROVE TypeOK
  OBVIOUS
<1>1. media \in Media /\ client \in Client
  BY DEF Init, Media, Status, Client
<1>2. task \in Task
  BY MediaAssumption DEF Init, Task, Ledger!Phase
<1>3. run \in [Attempts -> Run]
  <2>1. [pc |-> "none", todo |-> {}] \in Run
    BY DEF Run
  <2> QED  BY <2>1 DEF Init
<1>4. cleaner \in [Cleaners -> Cleaner]
  <2>1. Rested \in Cleaner
    BY DEF Rested, Cleaner
  <2> QED  BY <2>1 DEF Init
<1>5. body \in Body /\ upload \in Content /\ faults \in 0 .. MaxFaults /\ objects \subseteq Keys
  BY MediaAssumption DEF Init, Content
<1> QED  BY <1>1, <1>2, <1>3, <1>4, <1>5 DEF TypeOK

LEMMA ApiType ==
  ASSUME TypeOK,
         \/ CreateUploadIntent \/ Upload \/ LinkExpires \/ HeadUpload \/ CompleteUpload
         \/ DeleteMedia \/ Age
  PROVE  TypeOK'
<1>1. CASE CreateUploadIntent
  <2>1. media' \in Media /\ client' \in Client
    BY <1>1, RowBecomes DEF CreateUploadIntent, TypeOK, Client, Status
  <2> QED  BY <1>1, <2>1 DEF CreateUploadIntent, TypeOK
<1>2. CASE Upload
  BY <1>2 DEF Upload, TypeOK, Keys, Content
<1>3. CASE LinkExpires \/ HeadUpload
  <2>1. client' \in Client
    BY <1>3 DEF LinkExpires, HeadUpload, TypeOK, Client
  <2> QED  BY <1>3, <2>1 DEF LinkExpires, HeadUpload, TypeOK
<1>4. CASE CompleteUpload
  <2>1. client' \in Client
    BY <1>4 DEF CompleteUpload, TypeOK, Client
  <2>2. media' \in Media
    BY <1>4, RowBecomes DEF CompleteUpload, TypeOK, Status
  <2>3. task' \in Task
    BY <1>4, MediaAssumption DEF CompleteUpload, TypeOK, Task, Ledger!Phase
  <2> QED  BY <1>4, <2>1, <2>2, <2>3 DEF CompleteUpload, TypeOK
<1>5. CASE DeleteMedia
  <2>1. media' \in Media
    BY <1>5, RowBecomes DEF DeleteMedia, Status
  <2> QED  BY <1>5, <2>1 DEF DeleteMedia, TypeOK
<1>6. CASE Age
  <2>1. media' \in Media
    BY <1>6, RowChanges DEF Age, TypeOK
  <2> QED  BY <1>6, <2>1 DEF Age, TypeOK
<1> QED  BY <1>1, <1>2, <1>3, <1>4, <1>5, <1>6

LEMMA RunType ==
  ASSUME TypeOK, NEW n \in Attempts, RunStep(n) \/ Crash(n)
  PROVE  TypeOK'
<1> USE RunGoes, RunBecomes, EndedRuns, FaultCounts, RowChanges
<1>1. CASE Acquire(n)
  <2>1. media' \in Media
    BY <1>1 DEF Acquire, TypeOK
  <2>2. run' \in [Attempts -> Run] /\ faults' \in 0 .. MaxFaults
    BY <1>1 DEF Acquire, Acquired, Fails, TypeOK, RunPC, Active
  <2> QED  BY <1>1, <2>1, <2>2 DEF Acquire, TypeOK
<1>2. CASE Download(n)
  <2>1. CASE Goto(n, "reject") /\ UNCHANGED faults
    <3>1. run' \in [Attempts -> Run]
      BY <2>1 DEF TypeOK, RunPC, Active
    <3> QED  BY <1>2, <2>1, <3>1 DEF Download, TypeOK
  <2>2. CASE /\ run' = [run EXCEPT ![n] =
                  [pc |-> IF Derived = {} THEN "ready" ELSE "put", todo |-> Derived]]
             /\ UNCHANGED faults
    <3>1. run' \in [Attempts -> Run]
      BY <2>2 DEF TypeOK
    <3> QED  BY <1>2, <2>2, <3>1 DEF Download, TypeOK
  <2>3. CASE Fails(n, Retry(n))
    <3>1. run' \in [Attempts -> Run] /\ faults' \in 0 .. MaxFaults
      BY <2>3 DEF Fails, TypeOK, RunPC, Active
    <3> QED  BY <1>2, <3>1 DEF Download, TypeOK
  <2> QED  BY <1>2, <2>1, <2>2, <2>3 DEF Download
<1>3. ASSUME NEW v \in Variants, PutVariant(n, v)
      PROVE  TypeOK'
  <2>1. objects' \subseteq Keys
    BY <1>3 DEF PutVariant, TypeOK, Keys
  <2>2. CASE Uploaded(n, v) /\ UNCHANGED faults
    <3>1. run' \in [Attempts -> Run]
      BY <2>2, RunUploads DEF TypeOK
    <3> QED  BY <1>3, <2>1, <2>2, <3>1 DEF PutVariant, TypeOK
  <2>3. CASE Fault /\ run' = [run EXCEPT ![n] = [pc |-> Retry(n), todo |-> {}]]
    <3>1. run' \in [Attempts -> Run] /\ faults' \in 0 .. MaxFaults
      BY <2>3 DEF TypeOK
    <3> QED  BY <1>3, <2>1, <3>1 DEF PutVariant, TypeOK
  <2> QED  BY <1>3, <2>2, <2>3 DEF PutVariant
<1>4. CASE MarkReady(n)
  <2>1. media' \in Media
    BY <1>4 DEF MarkReady, TypeOK
  <2>2. run' \in [Attempts -> Run] /\ faults' \in 0 .. MaxFaults
    BY <1>4 DEF MarkReady, Fails, TypeOK, RunPC, Active
  <2> QED  BY <1>4, <2>1, <2>2 DEF MarkReady, TypeOK
<1>5. CASE Reject(n) \/ GiveUp(n)
  <2>1. media' \in Media
    BY <1>5 DEF Reject, GiveUp, TypeOK
  <2>2. run' \in [Attempts -> Run] /\ faults' \in 0 .. MaxFaults
    BY <1>5 DEF Reject, GiveUp, Fails, TypeOK, RunPC
  <2> QED  BY <1>5, <2>1, <2>2 DEF Reject, GiveUp, TypeOK
<1>6. CASE Report(n)
  <2>1. run' \in [Attempts -> Run]
    BY <1>6 DEF Report, TypeOK
  <2>2. task' \in Task
    BY <1>6 DEF Report, TypeOK, Task, Ledger!Phase, Attempts
  <2> QED  BY <1>6, <2>1, <2>2 DEF Report, TypeOK
<1>7. CASE Crash(n)
  <2>1. run' \in [Attempts -> Run] /\ faults' \in 0 .. MaxFaults
    BY <1>7 DEF Crash, TypeOK
  <2> QED  BY <1>7, <2>1 DEF Crash, TypeOK
<1> QED  BY <1>1, <1>2, <1>3, <1>4, <1>5, <1>6, <1>7 DEF RunStep

LEMMA QueueType ==
  ASSUME TypeOK, BeginAttempt \/ Bury
  PROVE  TypeOK'
<1>1. CASE BeginAttempt
  <2>1. task.tries + 1 \in Attempts
    BY <1>1 DEF BeginAttempt, Ledger!Begin, TypeOK, Task, Attempts
  <2>2. task' \in Task
    BY <1>1 DEF BeginAttempt, Task, Ledger!Phase, Attempts
  <2>3. run' \in [Attempts -> Run]
    BY <1>1, <2>1, RunGoes DEF BeginAttempt, TypeOK, RunPC, Active
  <2> QED  BY <1>1, <2>2, <2>3 DEF BeginAttempt, TypeOK
<1>2. CASE Bury
  <2>1. task' \in Task
    BY <1>2 DEF Bury, TypeOK, Task, Ledger!Phase
  <2> QED  BY <1>2, <2>1 DEF Bury, TypeOK
<1> QED  BY <1>1, <1>2

LEMMA CleanerType ==
  ASSUME TypeOK, CleanersMeant, NEW c \in Cleaners, CleanerStep(c) \/ CleanerFails(c)
  PROVE  TypeOK'
<1>1. cleaner \in [Cleaners -> Cleaner] /\ cleaner[c] \in Cleaner
  BY DEF TypeOK
<1>2. CASE ListCleanupCandidates(c)
  <2>1. Clean(c, "listed", media.status, {})
        /\ media.status \in {"pending", "rejected", "deleted"} /\ {} \in SUBSET Keys
    BY <1>2 DEF ListCleanupCandidates
  <2>2. cleaner' \in [Cleaners -> Cleaner]
    BY <1>1, <2>1, CleanerGoes
  <2> QED  BY <1>2, <2>2 DEF ListCleanupCandidates, TypeOK
<1>3. CASE Reserve(c)
  <2>1. cleaner[c].seen \in {"none", "pending", "rejected", "deleted"}
    BY <1>1 DEF Cleaner
  <2>2. media' \in Media
    BY <1>3, RowBecomes DEF Reserve, TypeOK, Status
  <2>3. CASE cleaner' = [cleaner EXCEPT ![c] = Rested]
    BY <1>1, <1>3, <2>2, <2>3, CleanerGoes DEF Reserve, TypeOK
  <2>4. CASE Clean(c, "deleting", cleaner[c].seen, Keys)
    <3>1. [pc |-> "deleting", seen |-> cleaner[c].seen, todo |-> Keys] \in Cleaner
      BY <2>1 DEF Cleaner
    <3>2. cleaner' \in [Cleaners -> Cleaner]
      BY <1>1, <2>4, <3>1 DEF Clean
    <3> QED  BY <1>3, <2>2, <3>2 DEF Reserve, TypeOK
  <2> QED  BY <1>3, <2>3, <2>4 DEF Reserve
<1>4. ASSUME NEW k \in Keys, DeleteObject(c, k)
      PROVE  TypeOK'
  <2>1. cleaner' \in [Cleaners -> Cleaner]
    BY <1>1, <1>4 DEF DeleteObject, Cleaner
  <2> QED  BY <1>4, <2>1 DEF DeleteObject, TypeOK, Content
<1>5. CASE DeleteCandidate(c)
  <2>1. media' \in Media
    BY <1>5, RowBecomes DEF DeleteCandidate, TypeOK, Status
  <2> QED  BY <1>1, <1>5, <2>1, CleanerGoes DEF DeleteCandidate, TypeOK
<1>6. CASE CleanerFails(c)
  BY <1>1, <1>6, CleanerGoes, FaultCounts DEF CleanerFails, TypeOK
<1> QED  BY <1>2, <1>3, <1>4, <1>5, <1>6 DEF CleanerStep

LEMMA TypeStep ==
  ASSUME TypeOK, CleanersMeant, [Next]_vars
  PROVE  TypeOK'
<1>1. CASE UNCHANGED vars
  BY <1>1 DEF vars, TypeOK
<1>2. CASE Next
  BY <1>2, ApiType, RunType, QueueType, CleanerType DEF Next
<1> QED  BY <1>1, <1>2

-----------------------------------------------------------------------------
(* How the row and its objects move. *)

LEMMA StepMoves ==
  ASSUME TypeOK, CleanersMeant, [Next]_vars
  PROVE  Moves
<1> USE RowBecomes, RowChanges
<1>1. CASE UNCHANGED media
  BY <1>1 DEF Moves
<1>2. CASE CreateUploadIntent \/ CompleteUpload
  BY <1>2 DEF CreateUploadIntent, CompleteUpload, Moves, Status
<1>3. CASE DeleteMedia
  BY <1>3 DEF DeleteMedia, Moves, Status
<1>4. CASE Age
  BY <1>4 DEF Age, Moves, TypeOK
<1>5. ASSUME NEW n \in Attempts, Acquire(n)
      PROVE  Moves
  BY <1>5 DEF Acquire, Moves, TypeOK
<1>6. ASSUME NEW n \in Attempts, MarkReady(n)
      PROVE  Moves
  BY <1>6 DEF MarkReady, Moves, TypeOK
<1>7. ASSUME NEW n \in Attempts, Reject(n) \/ GiveUp(n)
      PROVE  Moves
  BY <1>7 DEF Reject, GiveUp, Moves, TypeOK
<1>8. ASSUME NEW c \in Cleaners, Reserve(c)
      PROVE  Moves
  BY <1>8 DEF Reserve, Moves, Status
<1>9. ASSUME NEW c \in Cleaners, DeleteCandidate(c)
      PROVE  Moves
  <2>1. cleaner[c] \in Cleaner
    BY DEF TypeOK
  <2>2. media.status \in Doomed
    BY <1>9 DEF DeleteCandidate, CleanersMeant
  <2>3. CASE media.status = cleaner[c].seen
    BY <1>9, <2>1, <2>2, <2>3 DEF DeleteCandidate, Moves, Status, Cleaner, Doomed
  <2>4. CASE media.status # cleaner[c].seen
    BY <1>1, <1>9, <2>4 DEF DeleteCandidate
  <2> QED  BY <2>3, <2>4
<1>10. CASE Upload \/ LinkExpires \/ HeadUpload \/ BeginAttempt \/ Bury
  BY <1>1, <1>10 DEF Upload, LinkExpires, HeadUpload, BeginAttempt, Bury
<1>11. ASSUME NEW n \in Attempts, NEW v \in Variants,
              Download(n) \/ PutVariant(n, v) \/ Report(n) \/ Crash(n)
       PROVE  Moves
  BY <1>1, <1>11 DEF Download, PutVariant, Report, Crash
<1>12. ASSUME NEW n \in Attempts, RunStep(n) \/ Crash(n)
       PROVE  Moves
  <2>1. ASSUME Download(n) \/ Report(n) \/ Crash(n)
        PROVE  UNCHANGED media
    BY <2>1 DEF Download, Report, Crash
  <2> QED  BY <1>1, <1>5, <1>6, <1>7, <1>11, <1>12, <2>1 DEF RunStep
<1>13. ASSUME NEW c \in Cleaners, CleanerStep(c) \/ CleanerFails(c)
       PROVE  Moves
  <2>1. ASSUME \/ ListCleanupCandidates(c) \/ CleanerFails(c)
               \/ \E k \in Keys : DeleteObject(c, k)
        PROVE  UNCHANGED media
    BY <2>1 DEF ListCleanupCandidates, DeleteObject, CleanerFails
  <2> QED  BY <1>1, <1>8, <1>9, <1>13, <2>1 DEF CleanerStep
<1> QED  BY <1>1, <1>2, <1>3, <1>4, <1>10, <1>12, <1>13 DEF Next, vars

LEMMA StepRemoves ==
  ASSUME [Next]_vars
  PROVE  Removes
<1>1. CASE UNCHANGED objects
  BY <1>1 DEF Removes
<1>2. CASE Upload
  BY <1>2 DEF Upload, Removes
<1>3. ASSUME NEW n \in Attempts, RunStep(n) \/ Crash(n)
      PROVE  Removes
  <2>1. ASSUME NEW v \in Variants, PutVariant(n, v)
        PROVE  Removes
    BY <2>1 DEF PutVariant, Removes
  <2> QED  BY <1>1, <1>3, <2>1
           DEF RunStep, Acquire, Download, MarkReady, Reject, GiveUp, Report, Crash
<1>4. ASSUME NEW c \in Cleaners, CleanerStep(c) \/ CleanerFails(c)
      PROVE  Removes
  <2>1. ASSUME NEW k \in Keys, DeleteObject(c, k)
        PROVE  Removes
    BY <2>1 DEF DeleteObject, Removes
  <2> QED  BY <1>1, <1>4, <2>1
           DEF CleanerStep, ListCleanupCandidates, Reserve, DeleteCandidate, CleanerFails
<1>5. CASE \/ CreateUploadIntent \/ LinkExpires \/ HeadUpload \/ CompleteUpload \/ DeleteMedia
          \/ Age \/ BeginAttempt \/ Bury
  BY <1>1, <1>5
     DEF CreateUploadIntent, LinkExpires, HeadUpload, CompleteUpload, DeleteMedia, Age,
         BeginAttempt, Bury
<1> QED  BY <1>1, <1>2, <1>3, <1>4, <1>5 DEF Next, vars

\* The declaration of a file never changes.
LEMMA BodyStays ==
  ASSUME [Next]_vars
  PROVE  body' = body /\ Derived' = Derived
<1>1. body' = body
  BY DEF Next, vars, CreateUploadIntent, Upload, LinkExpires, HeadUpload, CompleteUpload,
         DeleteMedia, Age, BeginAttempt, Bury, RunStep, Acquire, Download, PutVariant, MarkReady,
         Reject, GiveUp, Report, Crash, CleanerStep, ListCleanupCandidates, Reserve,
         DeleteObject, DeleteCandidate, CleanerFails
<1> QED  BY <1>1 DEF Derived

\* A step takes no object away from a file that may still be shown.
LEMMA ObjectsStay ==
  ASSUME CleanersMeant, Removes, media.status \notin Doomed
  PROVE  objects \subseteq objects'
BY DEF CleanersMeant, Removes

LEMMA LiveMediaStep ==
  ASSUME TypeOK, TypeOK', LiveMediaIsStored, NothingUnseen', OriginalMeant', RunsMeant,
         CleanersMeant, ClientMeant, Moves, Removes, [Next]_vars
  PROVE  LiveMediaIsStored'
<1>1. media'.status \in Accepted => /\ media.status \notin Doomed
                                    /\ objects \subseteq objects'
  BY ObjectsStay DEF Moves, Accepted, Doomed
<1>2. media'.status \in Accepted => "original" \in objects'
  BY <1>1 DEF Moves, LiveMediaIsStored, ClientMeant, Accepted
<1>3. ASSUME media'.status = "ready"
      PROVE  body # "broken" /\ Derived \subseteq objects'
  <2>1. CASE media.status = "ready"
    BY <1>1, <1>3, <2>1 DEF LiveMediaIsStored, Accepted
  <2>2. CASE media.status # "ready"
    <3>1. media.status = "processing"
      BY <1>3, <2>2 DEF Moves
    <3>2. PICK n \in Attempts : run[n].pc = "ready"
      BY <1>3, <2>2 DEF Moves
    <3> QED  BY <1>1, <1>3, <3>1, <3>2 DEF RunsMeant, Meant, Accepted
  <2> QED  BY <2>1, <2>2
<1>4. media'.status = "ready" => upload' \in {"declared", "replaced"}
  BY <1>2 DEF NothingUnseen, Inspected, OriginalMeant, Accepted, TypeOK, Content
<1> QED  BY <1>2, <1>3, <1>4, BodyStays DEF LiveMediaIsStored, Accepted

-----------------------------------------------------------------------------
(* The runs. *)

\* What a run means is not disturbed by the others.
LEMMA OthersKeepMeaning ==
  ASSUME RunsMeant, CleanersMeant, Moves, Removes, NEW n \in Attempts
  PROVE  Meant(run[n], media', objects')
<1> DEFINE r == run[n]
<1>1. Meant(r, media, objects)
  BY DEF RunsMeant
<1>2. r.pc # "none" => media'.status \notin {"absent", "pending"}
  BY <1>1 DEF Meant, Moves
<1>3. r.pc \in Working => media'.status # "uploaded"
  BY <1>1 DEF Meant, Moves, Working, Active
<1>4. r.pc \in {"put", "ready"} /\ media'.status = "processing" => /\ media.status = "processing"
                                                                   /\ objects \subseteq objects'
  BY <1>1, ObjectsStay DEF Meant, Moves, Working, Active, Doomed
<1>5. r.pc = "ok" => media'.status \notin {"uploaded", "processing"}
  BY <1>1 DEF Meant, Moves
<1>6. r.pc = "put" => /\ body = "image"
                      /\ media'.status = "processing" => Variants \ r.todo \subseteq objects'
  BY <1>1, <1>4 DEF Meant
<1>7. r.pc = "ready" => /\ body # "broken"
                        /\ media'.status = "processing" => Derived \subseteq objects'
  BY <1>1, <1>4 DEF Meant
<1> QED  BY <1>2, <1>3, <1>5, <1>6, <1>7 DEF Meant

LEMMA RunKeepsMeaning ==
  ASSUME TypeOK, RunsMeant, CleanersMeant, Moves, Removes, NEW n \in Attempts,
         RunStep(n) \/ Crash(n)
  PROVE  Meant(run'[n], media', objects')
<1> USE RunGoes, RunBecomes, EndedRuns, RowChanges
<1>1. Meant(run[n], media, objects) /\ Meant(run[n], media', objects')
  BY OthersKeepMeaning DEF RunsMeant
<1>2. run \in [Attempts -> Run] /\ media \in Media
  BY DEF TypeOK
<1>3. ASSUME run'[n].pc \in {"err", "done", "gone"}, run[n].pc # "none"
      PROVE  Meant(run'[n], media', objects')
  BY <1>1, <1>3 DEF Meant, Working, Active
<1>4. ASSUME run'[n].pc \in {"err", "giveUp", "reject"}, run[n].pc \in Working
      PROVE  Meant(run'[n], media', objects')
  BY <1>1, <1>4 DEF Meant, Working, Active
<1>5. CASE Acquire(n)
  <2>1. run[n].pc = "acquire"
    BY <1>5 DEF Acquire
  <2>2. CASE media' = Started /\ Goto(n, Acquired)
    <3>1. run'[n].pc = Acquired
      BY <1>2, <2>2 DEF Acquired, RunPC, Active
    <3>2. media.status \notin {"absent", "pending"} /\ media'.status \notin {"absent", "pending"}
      BY <1>1, <2>1 DEF Meant
    <3>3. media'.status # "uploaded"
      BY <1>2, <2>2
    <3>4. Acquired = "ok" => media'.status \notin {"uploaded", "processing"}
      BY <1>2, <2>2 DEF Acquired
    <3> QED  BY <3>1, <3>2, <3>3, <3>4 DEF Meant, Acquired
  <2>3. CASE Fails(n, "err")
    <3>1. run'[n].pc = "err"
      BY <1>2, <2>3 DEF Fails, RunPC
    <3> QED  BY <1>3, <2>1, <3>1
  <2> QED  BY <1>5, <2>2, <2>3 DEF Acquire
<1>6. CASE Download(n)
  <2>1. run[n].pc = "download" /\ run[n].pc \in Working
    BY <1>6 DEF Download, Working, Active
  <2>2. CASE Goto(n, "reject")
    <3>1. run'[n].pc = "reject"
      BY <1>2, <2>2 DEF RunPC, Active
    <3> QED  BY <1>4, <2>1, <3>1
  <2>3. CASE /\ Sound
             /\ run' = [run EXCEPT ![n] =
                  [pc |-> IF Derived = {} THEN "ready" ELSE "put", todo |-> Derived]]
    <3> DEFINE r == [pc |-> IF Derived = {} THEN "ready" ELSE "put", todo |-> Derived]
    <3>1. run'[n] = r
      BY <1>2, <2>3
    <3>2. media'.status \notin {"absent", "pending", "uploaded"}
      BY <1>1, <2>1 DEF Meant
    <3>3. CASE Derived = {}
      BY <2>3, <3>1, <3>2, <3>3 DEF Meant, Sound
    <3>4. CASE Derived # {}
      <4>1. body = "image" /\ Derived = Variants
        BY <3>4 DEF Derived
      <4> QED  BY <3>1, <3>2, <3>4, <4>1 DEF Meant
    <3> QED  BY <3>3, <3>4
  <2>4. CASE Fails(n, Retry(n))
    <3>1. run'[n].pc \in {"err", "giveUp"}
      BY <1>2, <2>4 DEF Fails, RunPC, Active
    <3> QED  BY <1>4, <2>1, <3>1
  <2> QED  BY <1>6, <2>2, <2>3, <2>4 DEF Download
<1>7. ASSUME NEW v \in Variants, PutVariant(n, v)
      PROVE  Meant(run'[n], media', objects')
  <2>1. run[n].pc = "put" /\ run[n].pc \in Working /\ media' = media
    BY <1>7 DEF PutVariant, Working, Active
  <2>2. CASE objects' = objects \cup {v} /\ Uploaded(n, v)
    <3>1. /\ run'[n].pc = IF run[n].todo = {v} THEN "ready" ELSE "put"
          /\ run'[n].todo = run[n].todo \ {v}
      BY <1>2, <2>2, RunUploads
    <3>2. /\ body = "image"
          /\ media'.status \notin {"absent", "pending", "uploaded"}
      BY <1>1, <2>1 DEF Meant
    <3>3. media'.status = "processing" => Variants \ run'[n].todo \subseteq objects'
      <4>1. media.status = "processing" => Variants \ run[n].todo \subseteq objects
        BY <1>1, <2>1 DEF Meant
      <4> QED  BY <2>1, <2>2, <3>1, <4>1
    <3>4. run'[n].pc = "ready" => run'[n].todo = {}
      BY <3>1
    <3>5. run'[n].pc = "ready" /\ media'.status = "processing" => Derived \subseteq objects'
      BY <3>3, <3>4 DEF Derived
    <3> QED  BY <3>1, <3>2, <3>3, <3>5 DEF Meant
  <2>3. CASE run' = [run EXCEPT ![n] = [pc |-> Retry(n), todo |-> {}]]
    <3>1. run'[n].pc \in {"err", "giveUp"}
      BY <1>2, <2>3
    <3> QED  BY <1>4, <2>1, <3>1
  <2> QED  BY <1>7, <2>2, <2>3 DEF PutVariant
<1>8. CASE MarkReady(n)
  <2>1. run[n].pc \in Working
    BY <1>8 DEF MarkReady, Working, Active
  <2>2. CASE media'.status = "ready" /\ Goto(n, "ok")
    <3>1. run'[n].pc = "ok"
      BY <1>2, <2>2 DEF RunPC
    <3> QED  BY <2>2, <3>1 DEF Meant, Working, Active
  <2>3. CASE Goto(n, Retry(n))
    <3>1. run'[n].pc \in {"err", "giveUp"}
      BY <1>2, <2>3 DEF RunPC, Active
    <3> QED  BY <1>4, <2>1, <3>1
  <2> QED  BY <1>8, <2>2, <2>3 DEF MarkReady, Fails
<1>9. CASE Reject(n) \/ GiveUp(n)
  <2>1. run[n].pc \in Working
    BY <1>9 DEF Reject, GiveUp, Working, Active
  <2>2. CASE media'.status \in {"rejected", "deleted"} /\ Goto(n, "ok")
    <3>1. run'[n].pc = "ok"
      BY <1>2, <2>2 DEF RunPC
    <3> QED  BY <2>2, <3>1 DEF Meant, Working, Active
  <2>3. CASE Goto(n, "err")
    <3>1. run'[n].pc = "err"
      BY <1>2, <2>3 DEF RunPC
    <3> QED  BY <1>4, <2>1, <3>1
  <2> QED  BY <1>9, <2>2, <2>3 DEF Reject, GiveUp, Fails
<1>10. CASE Report(n)
  <2>1. run'[n].pc = "done" /\ run[n].pc # "none"
    BY <1>2, <1>10 DEF Report
  <2> QED  BY <1>3, <2>1
<1>11. CASE Crash(n)
  <2>1. run'[n].pc = "gone" /\ run[n].pc # "none"
    BY <1>2, <1>11 DEF Crash, Active
  <2> QED  BY <1>3, <2>1
<1> QED  BY <1>5, <1>6, <1>7, <1>8, <1>9, <1>10, <1>11 DEF RunStep

LEMMA OthersStay ==
  ASSUME TypeOK, NEW n \in Attempts, RunStep(n) \/ Crash(n), NEW m \in Attempts \ {n}
  PROVE  run'[m] = run[m]
<1> USE RunGoes, RunBecomes, EndedRuns
<1>1. run \in [Attempts -> Run]
  BY DEF TypeOK
<1>2. CASE Acquire(n)
  BY <1>1, <1>2 DEF Acquire, Acquired, Fails, RunPC, Active
<1>3. CASE Download(n)
  BY <1>1, <1>3 DEF Download, Fails, RunPC, Active
<1>4. ASSUME NEW v \in Variants, PutVariant(n, v)
      PROVE  run'[m] = run[m]
  BY <1>1, <1>4, RunUploads DEF PutVariant
<1>5. CASE MarkReady(n) \/ Reject(n) \/ GiveUp(n)
  BY <1>1, <1>5 DEF MarkReady, Reject, GiveUp, Fails, RunPC, Active
<1>6. CASE Report(n) \/ Crash(n)
  BY <1>1, <1>6 DEF Report, Crash
<1> QED  BY <1>2, <1>3, <1>4, <1>5, <1>6 DEF RunStep

LEMMA RunsMeantStep ==
  ASSUME TypeOK, RunsMeant, CleanersMeant, TaskMeant, Moves, Removes, [Next]_vars
  PROVE  RunsMeant'
<1>1. SUFFICES ASSUME NEW m \in Attempts  PROVE Meant(run'[m], media', objects')
  BY BodyStays DEF RunsMeant, Meant
<1>2. CASE UNCHANGED run
  BY <1>2, OthersKeepMeaning
<1>3. ASSUME NEW n \in Attempts, RunStep(n) \/ Crash(n)
      PROVE  Meant(run'[m], media', objects')
  <2>1. CASE m = n
    BY <1>3, <2>1, RunKeepsMeaning
  <2>2. CASE m # n
    BY <1>3, <2>2, OthersStay, OthersKeepMeaning
  <2> QED  BY <2>1, <2>2
<1>4. CASE BeginAttempt
  <2>1. task.tries + 1 \in Attempts /\ task.phase # "unknown"
    BY <1>4 DEF BeginAttempt, Ledger!Begin, TypeOK, Task, Attempts
  <2>2. /\ run'[task.tries + 1].pc = "acquire"
        /\ \A n \in Attempts \ {task.tries + 1} : run'[n] = run[n]
    BY <1>4, <2>1, RunGoes DEF BeginAttempt, TypeOK, RunPC, Active
  <2>3. CASE m = task.tries + 1
    <3>1. media'.status \notin {"absent", "pending"}
      BY <2>1 DEF TaskMeant, Moves
    <3> QED  BY <2>2, <2>3, <3>1 DEF Meant, Working
  <2>4. CASE m # task.tries + 1
    BY <2>2, <2>4, OthersKeepMeaning
  <2> QED  BY <2>3, <2>4
<1>5. ASSUME NEW c \in Cleaners, CleanerStep(c) \/ CleanerFails(c)
      PROVE  UNCHANGED run
  BY <1>5 DEF CleanerStep, ListCleanupCandidates, Reserve, DeleteObject, DeleteCandidate,
              CleanerFails
<1>6. CASE \/ CreateUploadIntent \/ Upload \/ LinkExpires \/ HeadUpload \/ CompleteUpload
          \/ DeleteMedia \/ Age \/ Bury \/ UNCHANGED vars
  BY <1>2, <1>6
     DEF CreateUploadIntent, Upload, LinkExpires, HeadUpload, CompleteUpload, DeleteMedia, Age,
         Bury, vars
<1> QED  BY <1>2, <1>3, <1>4, <1>5, <1>6 DEF Next

\* A run goes on from the inspection only with the declared bytes, and afterwards other
\* bytes count as replaced.
LEMMA NothingUnseenStep ==
  ASSUME TypeOK, NothingUnseen, Moves, [Next]_vars
  PROVE  NothingUnseen'
<1> USE RunGoes, RunBecomes, EndedRuns
<1>1. run \in [Attempts -> Run]
  BY DEF TypeOK
<1>2. media'.status = "ready" => Inspected
  BY DEF Moves, Inspected
<1>3. ASSUME UNCHANGED <<run, upload>>
      PROVE  NothingUnseen'
  BY <1>2, <1>3 DEF NothingUnseen, Inspected
<1>4. CASE Upload
  <2>1. Inspected' => Inspected
    BY <1>4 DEF Upload, Inspected
  <2> QED  BY <1>4, <2>1 DEF Upload, NothingUnseen
<1>5. ASSUME NEW n \in Attempts, RunStep(n) \/ Crash(n)
      PROVE  NothingUnseen'
  <2>1. upload' = upload
    BY <1>5 DEF RunStep, Acquire, Download, PutVariant, MarkReady, Reject, GiveUp, Report, Crash
  <2>2. run'[n].pc \in {"put", "ready"} => Inspected \/ upload = "declared"
    <3>1. CASE Acquire(n)
      BY <1>1, <3>1 DEF Acquire, Acquired, Fails, RunPC, Active
    <3>2. CASE Download(n)
      <4>1. CASE Goto(n, "reject")
        BY <1>1, <4>1 DEF RunPC, Active
      <4>2. CASE Sound
        BY <4>2 DEF Sound
      <4>3. CASE Fails(n, Retry(n))
        BY <1>1, <4>3 DEF Fails, RunPC, Active
      <4> QED  BY <3>2, <4>1, <4>2, <4>3 DEF Download
    <3>3. ASSUME NEW v \in Variants, PutVariant(n, v)
          PROVE  Inspected
      BY <3>3 DEF PutVariant, Inspected
    <3>4. CASE MarkReady(n)
      BY <3>4 DEF MarkReady, Inspected
    <3>5. CASE Reject(n) \/ GiveUp(n)
      BY <1>1, <3>5 DEF Reject, GiveUp, Fails, RunPC
    <3>6. CASE Report(n) \/ Crash(n)
      BY <1>1, <3>6 DEF Report, Crash
    <3> QED  BY <1>5, <3>1, <3>2, <3>3, <3>4, <3>5, <3>6 DEF RunStep
  <2>3. ASSUME NEW m \in Attempts \ {n}, run'[m].pc \in {"put", "ready"}
        PROVE  Inspected
    BY <1>5, <2>3, OthersStay DEF Inspected
  <2> QED  BY <1>2, <2>1, <2>2, <2>3 DEF NothingUnseen, Inspected
<1>6. CASE BeginAttempt
  <2>1. task.tries + 1 \in Attempts
    BY <1>6 DEF BeginAttempt, Ledger!Begin, TypeOK, Task, Attempts
  <2>2. /\ run'[task.tries + 1].pc = "acquire" /\ upload' = upload
        /\ \A n \in Attempts \ {task.tries + 1} : run'[n] = run[n]
    BY <1>1, <1>6, <2>1 DEF BeginAttempt, RunPC, Active
  <2> QED  BY <1>2, <2>1, <2>2 DEF NothingUnseen, Inspected
<1>7. ASSUME NEW c \in Cleaners, CleanerStep(c) \/ CleanerFails(c)
      PROVE  NothingUnseen'
  <2>1. run' = run /\ upload' \in {"none", upload}
    BY <1>7 DEF CleanerStep, ListCleanupCandidates, Reserve, DeleteObject, DeleteCandidate,
                CleanerFails
  <2> QED  BY <1>2, <2>1 DEF NothingUnseen, Inspected
<1>8. CASE \/ CreateUploadIntent \/ LinkExpires \/ HeadUpload \/ CompleteUpload
          \/ DeleteMedia \/ Age \/ Bury \/ UNCHANGED vars
  BY <1>3, <1>8
     DEF CreateUploadIntent, LinkExpires, HeadUpload, CompleteUpload, DeleteMedia, Age,
         Bury, vars
<1> QED  BY <1>3, <1>4, <1>5, <1>6, <1>7, <1>8 DEF Next

LEMMA OriginalMeantStep ==
  ASSUME OriginalMeant, [Next]_vars
  PROVE  OriginalMeant'
<1>1. ASSUME UNCHANGED upload, "original" \in objects' <=> "original" \in objects
      PROVE  OriginalMeant'
  BY <1>1 DEF OriginalMeant
<1>2. CASE Upload
  BY <1>2 DEF Upload, OriginalMeant
<1>3. ASSUME NEW n \in Attempts, RunStep(n) \/ Crash(n)
      PROVE  OriginalMeant'
  <2>1. ASSUME NEW v \in Variants, PutVariant(n, v)
        PROVE  OriginalMeant'
    <3>1. v # "original"
      BY MediaAssumption
    <3> QED  BY <1>1, <2>1, <3>1 DEF PutVariant
  <2> QED  BY <1>1, <1>3, <2>1
           DEF RunStep, Acquire, Download, MarkReady, Reject, GiveUp, Report, Crash
<1>4. ASSUME NEW c \in Cleaners, CleanerStep(c) \/ CleanerFails(c)
      PROVE  OriginalMeant'
  <2>1. ASSUME NEW k \in Keys, DeleteObject(c, k)
        PROVE  OriginalMeant'
    BY <2>1 DEF DeleteObject, OriginalMeant
  <2> QED  BY <1>1, <1>4, <2>1
           DEF CleanerStep, ListCleanupCandidates, Reserve, DeleteCandidate, CleanerFails
<1>5. CASE \/ CreateUploadIntent \/ LinkExpires \/ HeadUpload \/ CompleteUpload \/ DeleteMedia
          \/ Age \/ BeginAttempt \/ Bury \/ UNCHANGED vars
  BY <1>1, <1>5
     DEF CreateUploadIntent, LinkExpires, HeadUpload, CompleteUpload, DeleteMedia, Age,
         BeginAttempt, Bury, vars
<1> QED  BY <1>2, <1>3, <1>4, <1>5 DEF Next

-----------------------------------------------------------------------------
(* The cleaners, the client and the job. *)

LEMMA CleanerStays ==
  ASSUME [Next]_vars, \A c \in Cleaners : ~(CleanerStep(c) \/ CleanerFails(c))
  PROVE  UNCHANGED cleaner
BY DEF Next, vars, CreateUploadIntent, Upload, LinkExpires, HeadUpload, CompleteUpload,
       DeleteMedia, Age, BeginAttempt, Bury, RunStep, Acquire, Download, PutVariant, MarkReady,
       Reject, GiveUp, Report, Crash

\* What a step of cleaner c does to it, and that it leaves the others alone.
LEMMA CleanerMoves ==
  ASSUME TypeOK, NEW c \in Cleaners, CleanerStep(c) \/ CleanerFails(c)
  PROVE  /\ \A d \in Cleaners \ {c} : cleaner'[d] = cleaner[d]
         /\ \/ cleaner'[c].pc = "idle"
            \/ /\ ListCleanupCandidates(c)
               /\ cleaner'[c] = [pc |-> "listed", seen |-> media.status, todo |-> {}]
            \/ /\ Reserve(c)
               /\ cleaner'[c] = [pc |-> "deleting", seen |-> cleaner[c].seen, todo |-> Keys]
               /\ cleaner[c].seen = "pending" => media'.status = "deleted"
            \/ \E k \in Keys : /\ DeleteObject(c, k)
                               /\ cleaner'[c] = [cleaner[c] EXCEPT !.todo = @ \ {k}]
<1>1. cleaner \in [Cleaners -> Cleaner]
  BY DEF TypeOK
<1>2. Rested.pc = "idle"
  BY DEF Rested
<1>3. CASE ListCleanupCandidates(c)
  BY <1>1, <1>3 DEF ListCleanupCandidates, Clean
<1>4. CASE Reserve(c)
  <2>1. CASE Clean(c, "deleting", cleaner[c].seen, Keys)
             /\ (cleaner[c].seen = "pending" => media' = Becomes("deleted"))
    BY <1>1, <1>4, <2>1, RowBecomes DEF Clean, Status
  <2>2. CASE cleaner' = [cleaner EXCEPT ![c] = Rested]
    BY <1>1, <1>2, <2>2
  <2> QED  BY <1>4, <2>1, <2>2 DEF Reserve
<1>5. ASSUME NEW k \in Keys, DeleteObject(c, k)
      PROVE  /\ \A d \in Cleaners \ {c} : cleaner'[d] = cleaner[d]
             /\ cleaner'[c] = [cleaner[c] EXCEPT !.todo = @ \ {k}]
  BY <1>1, <1>5 DEF DeleteObject
<1>6. CASE DeleteCandidate(c) \/ CleanerFails(c)
  BY <1>1, <1>2, <1>6 DEF DeleteCandidate, CleanerFails
<1> QED  BY <1>3, <1>4, <1>5, <1>6 DEF CleanerStep

LEMMA CleanersMeantStep ==
  ASSUME TypeOK, CleanersMeant, Moves, [Next]_vars
  PROVE  CleanersMeant'
<1>1. media.status \in Doomed => media'.status \in Doomed
  BY DEF Moves, Doomed
<1>2. SUFFICES ASSUME NEW d \in Cleaners,
                      \/ cleaner'[d].pc = "deleting"
                      \/ cleaner'[d].pc = "listed" /\ cleaner'[d].seen # "pending"
               PROVE  media'.status \in Doomed
  BY DEF CleanersMeant
<1>3. CASE cleaner'[d] = cleaner[d]
  BY <1>1, <1>2, <1>3 DEF CleanersMeant
<1>4. CASE CleanerStep(d) \/ CleanerFails(d)
  <2>1. CASE cleaner'[d].pc = "idle"
    BY <1>2, <2>1
  <2>2. CASE /\ ListCleanupCandidates(d)
             /\ cleaner'[d] = [pc |-> "listed", seen |-> media.status, todo |-> {}]
    BY <1>1, <1>2, <2>2 DEF ListCleanupCandidates, Doomed
  <2>3. CASE /\ Reserve(d)
             /\ cleaner[d].seen = "pending" => media'.status = "deleted"
    <3>1. cleaner[d].seen # "pending" => media.status \in Doomed
      BY <2>3 DEF Reserve, CleanersMeant
    <3> QED  BY <1>1, <2>3, <3>1 DEF Doomed
  <2>4. ASSUME NEW k \in Keys, DeleteObject(d, k)
        PROVE  media'.status \in Doomed
    BY <1>1, <2>4 DEF DeleteObject, CleanersMeant
  <2> QED  BY <1>4, <2>1, <2>2, <2>3, <2>4, CleanerMoves
<1>5. ASSUME NEW c \in Cleaners, CleanerStep(c) \/ CleanerFails(c), c # d
      PROVE  cleaner'[d] = cleaner[d]
  BY <1>5, CleanerMoves
<1> QED  BY <1>3, <1>4, <1>5, CleanerStays

LEMMA ClientStep ==
  ASSUME TypeOK, ClientMeant, CleanersMeant, Moves, Removes, [Next]_vars
  PROVE  ClientMeant'
<1>1. client \in Client
  BY DEF TypeOK
<1>2. media.status # "absent" => media'.status # "absent"
  BY DEF Moves
<1>3. ASSUME client.completing
      PROVE  /\ media'.status # "absent"
             /\ media'.status = "pending" => "original" \in objects'
  BY <1>2, <1>3, ObjectsStay DEF ClientMeant, Moves, Doomed
<1>4. CASE client'.completing => client.completing
  BY <1>3, <1>4 DEF ClientMeant
<1>5. CASE HeadUpload
  BY <1>5 DEF HeadUpload, ClientMeant
<1>6. CASE CreateUploadIntent \/ LinkExpires \/ CompleteUpload
  BY <1>1, <1>4, <1>6 DEF CreateUploadIntent, LinkExpires, CompleteUpload, Client
<1>7. CASE UNCHANGED client
  BY <1>4, <1>7
<1>8. ASSUME NEW n \in Attempts, RunStep(n) \/ Crash(n)
      PROVE  UNCHANGED client
  BY <1>8 DEF RunStep, Acquire, Download, PutVariant, MarkReady, Reject, GiveUp, Report, Crash
<1>9. ASSUME NEW c \in Cleaners, CleanerStep(c) \/ CleanerFails(c)
      PROVE  UNCHANGED client
  BY <1>9 DEF CleanerStep, ListCleanupCandidates, Reserve, DeleteObject, DeleteCandidate,
              CleanerFails
<1>10. CASE Upload \/ DeleteMedia \/ Age \/ BeginAttempt \/ Bury \/ UNCHANGED vars
  BY <1>7, <1>10 DEF Upload, DeleteMedia, Age, BeginAttempt, Bury, vars
<1> QED  BY <1>5, <1>6, <1>7, <1>8, <1>9, <1>10 DEF Next

LEMMA TaskStep ==
  ASSUME TypeOK, RunsMeant, TaskMeant, SucceededJobSettlesMedia, Moves, [Next]_vars
  PROVE  TaskMeant' /\ SucceededJobSettlesMedia'
<1> DEFINE Begun == media.status \notin {"absent", "pending"}
           Settled == media.status \notin {"absent", "pending", "uploaded", "processing"}
<1>1. (Begun => Begun') /\ (Settled => Settled')
  BY DEF Moves
<1>2. CASE UNCHANGED task
  BY <1>1, <1>2 DEF TaskMeant, SucceededJobSettlesMedia
<1>3. CASE CompleteUpload
  <2>1. CASE media.status = "pending"
    <3>1. media'.status = "uploaded" /\ task'.phase = "waiting"
      BY <1>3, <2>1, RowBecomes DEF CompleteUpload, Status
    <3> QED  BY <3>1 DEF TaskMeant, SucceededJobSettlesMedia
  <2>2. CASE media.status # "pending"
    BY <1>2, <1>3, <2>2 DEF CompleteUpload
  <2> QED  BY <2>1, <2>2
<1>4. CASE BeginAttempt \/ Bury
  <2>1. task'.phase \in {"owned", "dead"} /\ task.phase # "unknown"
    BY <1>4 DEF BeginAttempt, Ledger!Begin, Bury, TypeOK, Task
  <2> QED  BY <1>1, <2>1 DEF TaskMeant, SucceededJobSettlesMedia
<1>5. ASSUME NEW n \in Attempts, Report(n), task' # task
      PROVE  TaskMeant' /\ SucceededJobSettlesMedia'
  <2>1. task.phase = "owned" /\ media' = media
    BY <1>5 DEF Report
  <2>2. CASE run[n].pc = "ok"
    BY <2>1, <2>2 DEF RunsMeant, Meant, TaskMeant, SucceededJobSettlesMedia
  <2>3. CASE run[n].pc # "ok"
    <3>1. task'.phase # "succeeded"
      BY <1>5, <2>3 DEF Report, Ledger!GiveUp
    <3> QED  BY <2>1, <3>1 DEF TaskMeant, SucceededJobSettlesMedia
  <2> QED  BY <2>2, <2>3
<1>6. ASSUME NEW n \in Attempts, RunStep(n) \/ Crash(n)
      PROVE  TaskMeant' /\ SucceededJobSettlesMedia'
  BY <1>2, <1>5, <1>6
     DEF RunStep, Acquire, Download, PutVariant, MarkReady, Reject, GiveUp, Crash
<1>7. ASSUME NEW c \in Cleaners, CleanerStep(c) \/ CleanerFails(c)
      PROVE  UNCHANGED task
  BY <1>7 DEF CleanerStep, ListCleanupCandidates, Reserve, DeleteObject, DeleteCandidate,
              CleanerFails
<1>8. CASE \/ CreateUploadIntent \/ Upload \/ LinkExpires \/ HeadUpload \/ DeleteMedia \/ Age
          \/ UNCHANGED vars
  BY <1>2, <1>8 DEF CreateUploadIntent, Upload, LinkExpires, HeadUpload, DeleteMedia, Age, vars
<1> QED  BY <1>2, <1>3, <1>4, <1>6, <1>7, <1>8 DEF Next

-----------------------------------------------------------------------------
(* The invariant and the contract. *)

LEMMA InitInv == Init => Inv
<1> SUFFICES ASSUME Init  PROVE Inv
  OBVIOUS
<1>1. media.status = "absent" /\ task.phase = "unknown" /\ ~client.completing
  BY DEF Init
<1>2. \A n \in Attempts : run[n].pc = "none"
  BY DEF Init
<1>3. \A c \in Cleaners : cleaner[c].pc = "idle"
  BY DEF Init, Rested
<1>4. RunsMeant
  BY <1>1, <1>2 DEF RunsMeant, Meant, Working, Active
<1>5. LiveMediaIsStored /\ SucceededJobSettlesMedia
  BY <1>1 DEF LiveMediaIsStored, SucceededJobSettlesMedia, Accepted
<1>6. NothingUnseen /\ OriginalMeant
  BY DEF Init, NothingUnseen, OriginalMeant
<1> QED  BY <1>1, <1>3, <1>4, <1>5, <1>6, InitType
         DEF Inv, CleanersMeant, ClientMeant, TaskMeant

LEMMA NextInv ==
  ASSUME Inv, [Next]_vars
  PROVE  Inv' /\ Moves /\ Removes
<1>1. TypeOK' /\ Moves /\ Removes
  BY TypeStep, StepMoves, StepRemoves DEF Inv
<1>2. RunsMeant' /\ NothingUnseen' /\ OriginalMeant' /\ LiveMediaIsStored'
  BY <1>1, RunsMeantStep, NothingUnseenStep, OriginalMeantStep, LiveMediaStep DEF Inv
<1>3. CleanersMeant' /\ ClientMeant' /\ TaskMeant' /\ SucceededJobSettlesMedia'
  BY <1>1, CleanersMeantStep, ClientStep, TaskStep DEF Inv
<1> QED  BY <1>1, <1>2, <1>3 DEF Inv

LEMMA Invariance == Spec => []Inv
BY InitInv, NextInv, PTL DEF Spec

\* Type correctness of the media pipeline.
THEOREM MediaTypeCorrect == Spec => []TypeOK
<1>1. Inv => TypeOK
  BY DEF Inv
<1> QED  BY <1>1, Invariance, PTL

\* A file that may be shown has its objects, whatever the stalled attempts and the
\* cleaners of expired uploads do, and they are the inspected ones unless the client
\* replaced the original afterwards, whatever it puts and however often.
THEOREM LiveMediaIsStoredHolds == Spec => []LiveMediaIsStored
<1>1. Inv => LiveMediaIsStored
  BY DEF Inv
<1> QED  BY <1>1, Invariance, PTL

\* A job that succeeded has settled its file.
THEOREM SucceededJobSettlesMediaHolds == Spec => []SucceededJobSettlesMedia
<1>1. Inv => SucceededJobSettlesMedia
  BY DEF Inv
<1> QED  BY <1>1, Invariance, PTL

\* The file implements its contract: accepted once, judged once, shown only with its
\* objects, and never back from a verdict.
THEOREM ImplementsMediaContractHolds == Spec => ImplementsMediaContract
<1>1. Init => Contract!Init
  BY DEF Init, Contract!Init, Stage
<1>2. ASSUME Inv, Inv', Moves
      PROVE  [Contract!Next]_Stage
  <2>1. /\ media.status \in Status /\ media'.status \in Status
        /\ LiveMediaIsStored /\ LiveMediaIsStored'
    BY <1>2 DEF Inv, TypeOK, Media
  <2>2. /\ media.status = "ready" => Stage = "shown"
        /\ media'.status = "ready" => Stage' = "shown"
    BY <2>1 DEF Stage, LiveMediaIsStored, Accepted
  <2>3. CASE media'.status = media.status
    BY <2>1, <2>2, <2>3 DEF Stage, Status
  <2>4. CASE media.status = "absent" /\ media'.status = "pending"
    BY <2>4 DEF Stage, Contract!Next, Contract!Ask
  <2>5. CASE media.status = "pending" /\ media'.status = "uploaded"
    BY <2>5 DEF Stage, Contract!Next, Contract!Accept
  <2>6. CASE media.status = "uploaded" /\ media'.status = "processing"
    BY <2>6 DEF Stage
  <2>7. CASE media.status = "processing" /\ media'.status \in {"ready", "rejected"}
    <3>1. Stage = "accepted" /\ Stage' \in {"shown", "refused"}
      BY <2>2, <2>7 DEF Stage
    <3> QED  BY <3>1 DEF Contract!Next, Contract!Judge
  <2>8. CASE media.status \notin {"absent", "deleted", "gone"} /\ media'.status = "deleted"
    <3>1. Stage' = "deleted"
      BY <2>8 DEF Stage
    <3>2. Stage \in {"awaited", "accepted", "shown", "refused"}
      BY <2>1, <2>2, <2>8 DEF Stage, Status
    <3> QED  BY <3>1, <3>2 DEF Contract!Next, Contract!Delete
  <2>9. CASE media.status \in {"rejected", "deleted"} /\ media'.status = "gone"
    BY <2>9 DEF Stage, Contract!Next, Contract!Remove
  <2> QED  BY <1>2, <2>3, <2>4, <2>5, <2>6, <2>7, <2>8, <2>9 DEF Moves
<1>3. Inv /\ Inv' /\ [Next]_vars => [Contract!Next]_Stage
  BY <1>2, NextInv
<1> QED  BY <1>1, <1>3, Invariance, NextInv, PTL
         DEF Spec, ImplementsMediaContract, Contract!Spec

-----------------------------------------------------------------------------
(* A retention that outlasts links and attempts. *)

LEMMA LinkStep ==
  ASSUME TypeOK, [Next]_vars
  PROVE  client'.link => client.link \/ media'.status = "pending"
<1>1. CASE UNCHANGED client
  BY <1>1
<1>2. CASE CreateUploadIntent
  BY <1>2, RowBecomes DEF CreateUploadIntent, Status
<1>3. CASE LinkExpires \/ HeadUpload \/ CompleteUpload
  BY <1>3 DEF LinkExpires, HeadUpload, CompleteUpload, TypeOK, Client
<1>4. ASSUME NEW n \in Attempts, RunStep(n) \/ Crash(n)
      PROVE  UNCHANGED client
  BY <1>4 DEF RunStep, Acquire, Download, PutVariant, MarkReady, Reject, GiveUp, Report, Crash
<1>5. ASSUME NEW c \in Cleaners, CleanerStep(c) \/ CleanerFails(c)
      PROVE  UNCHANGED client
  BY <1>5 DEF CleanerStep, ListCleanupCandidates, Reserve, DeleteObject, DeleteCandidate,
              CleanerFails
<1>6. CASE Upload \/ DeleteMedia \/ Age \/ BeginAttempt \/ Bury \/ UNCHANGED vars
  BY <1>1, <1>6 DEF Upload, DeleteMedia, Age, BeginAttempt, Bury, vars
<1> QED  BY <1>1, <1>2, <1>3, <1>4, <1>5, <1>6 DEF Next

\* No attempt goes past AcquireForProcessing once the file is doomed.
LEMMA NobodyStartsToWork ==
  ASSUME TypeOK, [Next]_vars, media.status \in Doomed,
         NEW n \in Attempts, run'[n].pc \in Working
  PROVE  run[n].pc \in Working
<1> USE RunGoes, RunBecomes, EndedRuns
<1>1. run \in [Attempts -> Run]
  BY DEF TypeOK
<1>2. CASE UNCHANGED run
  BY <1>2
<1>3. ASSUME NEW m \in Attempts, RunStep(m) \/ Crash(m)
      PROVE  run[n].pc \in Working
  <2>1. CASE m # n
    BY <1>3, <2>1, OthersStay
  <2>2. CASE m = n /\ run[n].pc \notin Working
    <3>1. CASE Acquire(n)
      <4>1. run'[n].pc \in {"ok", "err"}
        BY <1>1, <3>1 DEF Acquire, Acquired, Fails, Doomed, RunPC
      <4> QED  BY <4>1 DEF Working, Active
    <3>2. CASE Report(n) \/ Crash(n)
      <4>1. run'[n].pc \in {"done", "gone"}
        BY <1>1, <3>2 DEF Report, Crash
      <4> QED  BY <4>1 DEF Working, Active
    <3> QED  BY <1>3, <2>2, <3>1, <3>2
             DEF RunStep, Download, PutVariant, MarkReady, Reject, GiveUp, Working, Active
  <2> QED  BY <2>1, <2>2
<1>4. CASE BeginAttempt
  <2>1. task.tries + 1 \in Attempts
    BY <1>4 DEF BeginAttempt, Ledger!Begin, TypeOK, Task, Attempts
  <2>2. /\ run'[task.tries + 1].pc = "acquire"
        /\ \A m \in Attempts \ {task.tries + 1} : run'[m] = run[m]
    BY <1>1, <1>4, <2>1 DEF BeginAttempt, RunPC, Active
  <2> QED  BY <2>2 DEF Working
<1>5. ASSUME NEW c \in Cleaners, CleanerStep(c) \/ CleanerFails(c)
      PROVE  UNCHANGED run
  BY <1>5 DEF CleanerStep, ListCleanupCandidates, Reserve, DeleteObject, DeleteCandidate,
              CleanerFails
<1>6. CASE \/ CreateUploadIntent \/ Upload \/ LinkExpires \/ HeadUpload \/ CompleteUpload
          \/ DeleteMedia \/ Age \/ Bury \/ UNCHANGED vars
  BY <1>2, <1>6
     DEF CreateUploadIntent, Upload, LinkExpires, HeadUpload, CompleteUpload, DeleteMedia, Age,
         Bury, vars
<1> QED  BY <1>2, <1>3, <1>4, <1>5, <1>6 DEF Next

\* Nobody puts an object behind the cleaner's back.
LEMMA NothingIsAdded ==
  ASSUME NobodyUploads, Expired, [Next]_vars
  PROVE  objects' \subseteq objects
<1>1. ~client.link /\ \A n \in Attempts : run[n].pc # "put"
  BY DEF NobodyUploads, Working, Active
<1>2. CASE UNCHANGED objects
  BY <1>2
<1>3. ASSUME NEW n \in Attempts, RunStep(n) \/ Crash(n)
      PROVE  UNCHANGED objects
  BY <1>1, <1>3
     DEF RunStep, Acquire, Download, PutVariant, MarkReady, Reject, GiveUp, Report, Crash
<1>4. ASSUME NEW c \in Cleaners, CleanerStep(c) \/ CleanerFails(c)
      PROVE  objects' \subseteq objects
  BY <1>4 DEF CleanerStep, ListCleanupCandidates, Reserve, DeleteObject, DeleteCandidate,
              CleanerFails
<1>5. CASE \/ CreateUploadIntent \/ Upload \/ LinkExpires \/ HeadUpload \/ CompleteUpload
          \/ DeleteMedia \/ Age \/ BeginAttempt \/ Bury \/ UNCHANGED vars
  BY <1>1, <1>5
     DEF CreateUploadIntent, Upload, LinkExpires, HeadUpload, CompleteUpload, DeleteMedia, Age,
         BeginAttempt, Bury, vars
<1> QED  BY <1>3, <1>4, <1>5 DEF Next

LEMMA NobodyUploadsStep ==
  ASSUME TypeOK, Swept, Patient, Moves, [Next]_vars
  PROVE  NobodyUploads'
<1>1. SUFFICES ASSUME Expired'
               PROVE  ~client'.link /\ \A n \in Attempts : run'[n].pc \notin Working
  BY DEF NobodyUploads
<1>2. CASE Age
  <2>1. media'.status = media.status
    BY <1>2, RowChanges DEF Age, TypeOK
  <2>2. Idle /\ ~client.link
    BY <1>1, <1>2, <2>1 DEF Age, Expired
  <2> QED  BY <1>2, <2>2 DEF Age, Idle, Working
<1>3. CASE ~Age
  <2>1. Expired
    BY <1>1, <1>3 DEF Expired, Moves, Swept, Sweeping
  <2>2. media.status \in Doomed
    BY <2>1 DEF Expired, Doomed
  <2>3. ~client'.link
    BY <1>1, <2>1, LinkStep DEF Expired, Swept, NobodyUploads
  <2>4. ASSUME NEW n \in Attempts  PROVE run'[n].pc \notin Working
    BY <2>1, <2>2, NobodyStartsToWork DEF Swept, NobodyUploads
  <2> QED  BY <2>3, <2>4
<1> QED  BY <1>2, <1>3

LEMMA SweepingStep ==
  ASSUME TypeOK, TypeOK', CleanersMeant, Swept, Moves, [Next]_vars, NEW c \in Cleaners
  PROVE  Sweeping(c)'
<1>1. cleaner[c] \in Cleaner /\ objects' \subseteq Keys
  BY DEF TypeOK
<1>2. NobodyUploads /\ Sweeping(c)
  BY DEF Swept
<1>3. CASE cleaner'[c] = cleaner[c]
  <2>1. SUFFICES ASSUME cleaner[c].pc # "idle"  PROVE Sweeping(c)'
    BY <1>3 DEF Sweeping
  <2>2. cleaner[c].seen = "deleted" => media'.status \in {"deleted", "gone"}
    BY <1>2, <2>1 DEF Sweeping, Moves
  <2>3. ASSUME cleaner[c].seen # "pending", media'.status = cleaner[c].seen
        PROVE  /\ media'.stale
               /\ cleaner[c].pc = "deleting" => objects' \subseteq cleaner[c].todo
    <3>1. media.status \in Doomed /\ media'.status \in {"rejected", "deleted"}
      BY <1>1, <2>1, <2>3 DEF CleanersMeant, Cleaner, TypeOK, Media, Status
    <3>2. media.status = cleaner[c].seen
      BY <1>2, <2>1, <2>3, <3>1 DEF Sweeping, Moves, Doomed
    <3>3. media.stale /\ (cleaner[c].pc = "deleting" => objects \subseteq cleaner[c].todo)
      BY <1>2, <2>1, <2>3, <3>2 DEF Sweeping
    <3>4. media'.stale
      BY <2>3, <3>1, <3>2, <3>3 DEF Moves
    <3>5. objects' \subseteq objects
      BY <1>2, <2>3, <3>1, <3>2, <3>3, NothingIsAdded DEF Expired
    <3> QED  BY <3>3, <3>4, <3>5
  <2> QED  BY <1>3, <2>2, <2>3 DEF Sweeping
<1>4. CASE CleanerStep(c) \/ CleanerFails(c)
  <2>1. CASE cleaner'[c].pc = "idle"
    BY <2>1 DEF Sweeping
  <2>2. CASE /\ ListCleanupCandidates(c)
             /\ cleaner'[c] = [pc |-> "listed", seen |-> media.status, todo |-> {}]
    BY <2>2 DEF ListCleanupCandidates, Sweeping
  <2>3. CASE /\ Reserve(c)
             /\ cleaner'[c] = [pc |-> "deleting", seen |-> cleaner[c].seen, todo |-> Keys]
    <3>1. cleaner[c].pc = "listed" /\ (cleaner[c].seen # "pending" => media' = media)
      BY <2>3 DEF Reserve
    <3> QED  BY <1>1, <1>2, <2>3, <3>1 DEF Sweeping
  <2>4. ASSUME NEW k \in Keys, DeleteObject(c, k),
               cleaner'[c] = [cleaner[c] EXCEPT !.todo = @ \ {k}]
        PROVE  Sweeping(c)'
    <3>1. /\ cleaner'[c].pc = cleaner[c].pc /\ cleaner'[c].seen = cleaner[c].seen
          /\ cleaner'[c].todo = cleaner[c].todo \ {k}
      BY <1>1, <2>4 DEF Cleaner
    <3>2. media' = media /\ objects' = objects \ {k}
      BY <2>4 DEF DeleteObject
    <3> QED  BY <1>2, <3>1, <3>2 DEF Sweeping
  <2> QED  BY <1>4, <2>1, <2>2, <2>3, <2>4, CleanerMoves
<1>5. ASSUME NEW d \in Cleaners, CleanerStep(d) \/ CleanerFails(d), d # c
      PROVE  cleaner'[c] = cleaner[c]
  BY <1>5, CleanerMoves
<1> QED  BY <1>3, <1>4, <1>5, CleanerStays

LEMMA SweptStep ==
  ASSUME Inv, Inv', Swept, Patient, Moves, [Next]_vars
  PROVE  Swept'
<1>1. NobodyUploads' /\ \A c \in Cleaners : Sweeping(c)'
  BY NobodyUploadsStep, SweepingStep DEF Inv
<1>2. ASSUME media'.status = "gone"  PROVE objects' = {}
  <2>1. objects = {} /\ Expired
    <3>1. CASE media.status = "gone"
      BY <3>1 DEF Swept, RemovedMediaLeavesNothing, Expired
    <3>2. CASE media.status # "gone"
      <4>1. PICK c \in Cleaners : /\ cleaner[c].pc = "deleting" /\ cleaner[c].todo = {}
                                  /\ cleaner[c].seen = media.status
        BY <1>2, <3>2 DEF Moves
      <4>2. media.status \in {"rejected", "deleted"}
        BY <1>2, <3>2 DEF Moves
      <4>3. media.stale /\ objects = {}
        BY <4>1, <4>2 DEF Swept, Sweeping
      <4> QED  BY <4>2, <4>3 DEF Expired
    <3> QED  BY <3>1, <3>2
  <2> QED  BY <2>1, NothingIsAdded DEF Swept
<1> QED  BY <1>1, <1>2 DEF Swept, RemovedMediaLeavesNothing

\* With a retention that outlasts links and attempts, nothing is left of a removed file.
THEOREM RemovedMediaLeavesNothingHolds ==
  ASSUME Patient
  PROVE  Spec => []RemovedMediaLeavesNothing
<1>1. Init => Swept
  BY DEF Init, Rested, Swept, NobodyUploads, Expired, Sweeping, RemovedMediaLeavesNothing
<1>2. Inv /\ Inv' /\ Swept /\ [Next]_vars => Swept'
  BY SweptStep, NextInv
<1>3. Swept => RemovedMediaLeavesNothing
  BY DEF Swept
<1> QED  BY <1>1, <1>2, <1>3, Invariance, PTL DEF Spec
=============================================================================
