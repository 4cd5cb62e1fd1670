------------------------------ MODULE Commands ------------------------------
(***************************************************************************)
(* The parts of the program that share no state with the others.  Every    *)
(* behaviour follows one of them, while the others stay at a start.        *)
(***************************************************************************)
EXTENDS TreeRestore, SequencesExt

CONSTANTS
  Relatives, Types, MaxBackup,                                 \* BackupCheck
  MaxDuration, MaxAttempt,                                     \* RetryBackoff
  Center, Depths, Limits, MaxRelations, MaxGraphWrites,        \* GraphView
  Listed, Names, PageLengths, MaxListWrites,                   \* PersonList
  Addresses, Accounts, Requests, AddressLimit, AccountLimit,
  Window, MaxKeys, MaxClock,                                   \* RateLimit
  Deployers, NoOne, Versions, Builds,                          \* Migrations
  Processes, Interval, MaxTime,                                \* Scheduling
  Exported, MaxDrawn, MaxDrawnUnions,                          \* VisualLayout, GedcomFamilies
  Deletable, Marriages, Kinships                               \* GedcomFamilies

VARIABLES
  part,                                                        \* the part that is followed
  kin, indegrees, queue, visited, unread,                      \* BackupCheck
  base, max, attempt, current, delay, returned,                \* RetryBackoff
  db, request, snapshot, lineage, nodes, unions, answer,
  writes, moments,                                             \* GraphView
  name, active, limit, cursor, shown, edits, touched,          \* PersonList
  store, clock, entries, login, watched, allowed,              \* RateLimit
  schema, applied, lock, deployer,                             \* Migrations
  now, process, jobs, lost,                                    \* Scheduling
  drawn, couples, above, rankable, ranks, phase, unseen,
  changed, iteration,                                          \* VisualLayout
  tree, unionsLeft, chunksLeft, families, links                \* GedcomFamilies

checkVars == <<kin, indegrees, queue, visited, unread>>
backoffVars == <<base, max, attempt, current, delay, returned>>
graphVars == <<db, request, snapshot, lineage, nodes, unions, answer, writes, moments>>
listVars == <<name, active, limit, cursor, shown, edits, touched>>
limitVars == <<store, clock, entries, login, watched, allowed>>
migrateVars == <<schema, applied, lock, deployer>>
scheduleVars == <<now, process, jobs, lost>>
drawingVars == <<drawn, couples, above, rankable, ranks, phase, unseen, changed, iteration>>
gedcomVars == <<tree, unionsLeft, chunksLeft, families, links>>

B == INSTANCE BackupCheck WITH Persons <- Relatives, MaxRelations <- MaxBackup,
       relations <- kin

D == INSTANCE RetryBackoff

G == INSTANCE GraphView WITH Persons <- Relatives, MaxWrites <- MaxGraphWrites

L == INSTANCE PersonList WITH Persons <- Listed, Limits <- PageLengths,
       MaxWrites <- MaxListWrites, writes <- edits

A == INSTANCE RateLimit WITH MaxTime <- MaxClock, now <- clock, request <- login

M == INSTANCE Migrations WITH run <- deployer

C == INSTANCE Scheduling

V == INSTANCE VisualLayout WITH Persons <- Exported, MaxRelations <- MaxDrawn,
       MaxUnions <- MaxDrawnUnions, relations <- drawn, unions <- couples,
       indegrees <- above, queue <- rankable, pc <- phase

F == INSTANCE GedcomFamilies WITH Persons <- Exported, Unions <- Marriages, Types <- Kinships,
       MaxRelations <- MaxDrawn

ASSUME /\ B!BackupAssumption /\ D!BackoffAssumption /\ G!GraphViewAssumption
       /\ L!PersonListAssumption /\ A!RateLimitAssumption /\ M!MigrationsAssumption
       /\ C!SchedulingAssumption /\ V!LayoutAssumption /\ F!GedcomAssumption

-----------------------------------------------------------------------------
(* The start of a part that is not followed. *)

RestoreIdle == backup = [a \in Assets |-> "pending"] /\ Init

CheckIdle == kin = {} /\ queue = SetToSeq(Relatives) /\ B!Init

BackoffIdle == base = 1 /\ max = 1 /\ attempt = 1 /\ D!Init

GraphIdle ==
  /\ db = [active |-> Relatives, relations |-> {}, live |-> FALSE, members |-> {}]
  /\ request = [pc |-> "center", up |-> CHOOSE n \in Depths : TRUE,
                down |-> CHOOSE n \in Depths : TRUE, partners |-> FALSE,
                limit |-> CHOOSE n \in Limits : TRUE]
  /\ G!Init

ListIdle ==
  /\ name = [p \in Listed |-> CHOOSE n \in Names : TRUE] /\ active = {}
  /\ limit = CHOOSE n \in PageLengths : TRUE
  /\ L!Init

LimitIdle == store = "memory" /\ watched = (CHOOSE k \in A!Keys : TRUE) /\ A!Init

DrawingIdle == drawn = {} /\ couples = {} /\ V!Init

GedcomIdle ==
  /\ tree = [active |-> Exported, members |-> [u \in Marriages |-> Exported], relations |-> {}]
  /\ F!Init

-----------------------------------------------------------------------------
CommandsInit ==
  /\ part \in {"restore", "check", "backoff", "graph", "list", "limit", "migrate", "schedule",
               "drawing", "gedcom"}
  /\ IF part = "restore" THEN TRUE ELSE RestoreIdle
  /\ IF part = "check" THEN TRUE ELSE CheckIdle
  /\ IF part = "backoff" THEN TRUE ELSE BackoffIdle
  /\ IF part = "graph" THEN TRUE ELSE GraphIdle
  /\ IF part = "list" THEN TRUE ELSE ListIdle
  /\ IF part = "limit" THEN TRUE ELSE LimitIdle
  /\ IF part = "drawing" THEN TRUE ELSE DrawingIdle
  /\ IF part = "gedcom" THEN TRUE ELSE GedcomIdle
  /\ M!Init /\ C!Init
  /\ \/ part = "restore" /\ Init
     \/ part = "check" /\ B!Init
     \/ part = "backoff" /\ D!Init
     \/ part = "graph" /\ G!Init
     \/ part = "list" /\ L!Init
     \/ part = "limit" /\ A!Init
     \/ part \in {"migrate", "schedule"}
     \/ part = "drawing" /\ V!Init
     \/ part = "gedcom" /\ F!Init

CommandsNext ==
  \/ /\ part = "restore" /\ Next
     /\ UNCHANGED <<part, checkVars, backoffVars, graphVars, listVars, limitVars, migrateVars,
                    scheduleVars, drawingVars, gedcomVars>>
  \/ /\ part = "check" /\ B!Next
     /\ UNCHANGED <<part, vars, backoffVars, graphVars, listVars, limitVars, migrateVars,
                    scheduleVars, drawingVars, gedcomVars>>
  \/ /\ part = "backoff" /\ D!Next
     /\ UNCHANGED <<part, vars, checkVars, graphVars, listVars, limitVars, migrateVars,
                    scheduleVars, drawingVars, gedcomVars>>
  \/ /\ part = "graph" /\ G!Next
     /\ UNCHANGED <<part, vars, checkVars, backoffVars, listVars, limitVars, migrateVars,
                    scheduleVars, drawingVars, gedcomVars>>
  \/ /\ part = "list" /\ L!Next
     /\ UNCHANGED <<part, vars, checkVars, backoffVars, graphVars, limitVars, migrateVars,
                    scheduleVars, drawingVars, gedcomVars>>
  \/ /\ part = "limit" /\ A!Next
     /\ UNCHANGED <<part, vars, checkVars, backoffVars, graphVars, listVars, migrateVars,
                    scheduleVars, drawingVars, gedcomVars>>
  \/ /\ part = "migrate" /\ M!Next
     /\ UNCHANGED <<part, vars, checkVars, backoffVars, graphVars, listVars, limitVars,
                    scheduleVars, drawingVars, gedcomVars>>
  \/ /\ part = "schedule" /\ C!Next
     /\ UNCHANGED <<part, vars, checkVars, backoffVars, graphVars, listVars, limitVars,
                    migrateVars, drawingVars, gedcomVars>>
  \/ /\ part = "drawing" /\ V!Next
     /\ UNCHANGED <<part, vars, checkVars, backoffVars, graphVars, listVars, limitVars,
                    migrateVars, scheduleVars, gedcomVars>>
  \/ /\ part = "gedcom" /\ F!Next
     /\ UNCHANGED <<part, vars, checkVars, backoffVars, graphVars, listVars, limitVars,
                    migrateVars, scheduleVars, drawingVars>>

CommandsSpec ==
  /\ CommandsInit
  /\ [][CommandsNext]_<<part, vars, checkVars, backoffVars, graphVars, listVars, limitVars,
                        migrateVars, scheduleVars, drawingVars, gedcomVars>>

-----------------------------------------------------------------------------
(* Properties *)

\* The check of a backup finds exactly the cycles: see BackupCheck.
RejectsExactlyCycles == B!RejectsExactlyCycles

\* A retry waits for the capped doubling: see RetryBackoff.
DelayIsCappedDoubling == D!DelayIsCappedDoubling

\* The graph of a person is the tree at one moment: see GraphView.
AnswerIsOneMoment == G!AnswerIsOneMoment

\* Paging shows everybody once: see PersonList.
UntouchedShownOnce == L!UntouchedShownOnce

\* No burst of attempts reaches twice the limit: see RateLimit.
BurstBelowTwice == A!BurstBelowTwice

\* The schema is at a version of one build: see Migrations.
AtSomeVersionOfABuild == M!AtSomeVersionOfABuild

\* Every interval has its cleanup: see Scheduling.
CleanupEveryInterval == C!CleanupEveryInterval

\* The generations of a drawing: see VisualLayout.
FlattestDrawing == V!FlattestDrawing

\* The families of a GEDCOM export: see GedcomFamilies.
ExportsActiveTree == F!ExportsActiveTree
=============================================================================
