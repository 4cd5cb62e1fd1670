---------------------------- MODULE FamilyGraph ----------------------------
(***************************************************************************)
(* The persons of one tree and the relations between them                  *)
(* (internal/features/persons, internal/features/relationships).           *)
(*                                                                         *)
(* CreateAcyclicEditable is a transaction of several READ COMMITTED        *)
(* statements under the tree's advisory lock; each of its statements sees  *)
(* what was committed before it.  The person operations are one UPDATE or  *)
(* INSERT and do not take the lock.  A person hidden by deleted_at keeps   *)
(* its relations.                                                          *)
(*                                                                         *)
(* Authorisation and the version column are left out: a request that they  *)
(* refuse changes nothing.                                                 *)
(***************************************************************************)
EXTENDS RelationGraph

CONSTANT Editors      \* concurrent requests that create relations

VARIABLES
  person,             \* persons: absent, live or soft-deleted
  relations,          \* rows of parent_child_relations with deleted_at NULL
  editor,             \* the creation requests
  restored            \* history: the persons that were ever restored

vars == <<person, relations, editor, restored>>

NoRequest == [pc |-> "idle", relation |-> {}]

Init ==
  /\ person = [p \in Persons |-> "absent"]
  /\ relations = {}
  /\ editor = [e \in Editors |-> NoRequest]
  /\ restored = {}

Live == {p \in Persons : person[p] = "live"}

-----------------------------------------------------------------------------
(* Persons. *)

CreatePerson(p) ==
  /\ person[p] = "absent"
  /\ person' = [person EXCEPT ![p] = "live"]
  /\ UNCHANGED <<relations, editor, restored>>

DeletePerson(p) ==
  /\ person[p] = "live"
  /\ person' = [person EXCEPT ![p] = "deleted"]
  /\ UNCHANGED <<relations, editor, restored>>

RestorePerson(p) ==
  /\ person[p] = "deleted"
  /\ person' = [person EXCEPT ![p] = "live"]
  /\ restored' = restored \cup {p}
  /\ UNCHANGED <<relations, editor>>

-----------------------------------------------------------------------------
(* CreateAcyclicEditable.  relation is the requested row, in a singleton. *)

Holding == {"locked", "ends", "checked"}

\* Mutant of GraphUnlocked: no advisory lock.
GraphFree == TRUE

GraphUnlocked == \A e \in Editors : editor[e].pc \notin Holding

Goto(e, pc) == editor' = [editor EXCEPT ![e].pc = pc]

Leave(e) == editor' = [editor EXCEPT ![e] = NoRequest]

\* domain.New refuses a person as their own parent.
Request(e, r) ==
  /\ editor[e].pc = "idle" /\ r.parent # r.child
  /\ editor' = [editor EXCEPT ![e] = [pc |-> "waiting", relation |-> {r}]]
  /\ UNCHANGED <<person, relations, restored>>

LockTreeGraph(e) ==
  /\ editor[e].pc = "waiting" /\ GraphUnlocked
  /\ Goto(e, "locked")
  /\ UNCHANGED <<person, relations, restored>>

\* requireActivePersons
RequireActivePersons(e) ==
  /\ editor[e].pc = "locked"
  /\ IF \A r \in editor[e].relation : r.parent \in Live /\ r.child \in Live
       THEN Goto(e, "ends") ELSE Leave(e)
  /\ UNCHANGED <<person, relations, restored>>

\* The recursive query descends through persons that are live now.
Visible == {r \in relations : r.child \in Live}

CreatesCycle(r) == Reaches(Visible, r.child, r.parent)

\* The duplicate query and the cycle query.
CheckRelation(e) ==
  /\ editor[e].pc = "ends"
  /\ IF \E r \in editor[e].relation : r \in relations \/ CreatesCycle(r)
       THEN Leave(e) ELSE Goto(e, "checked")
  /\ UNCHANGED <<person, relations, restored>>

InsertRelation(e) ==
  /\ editor[e].pc = "checked"
  /\ relations' = relations \cup editor[e].relation
  /\ Leave(e)
  /\ UNCHANGED <<person, restored>>

\* The transaction is rolled back; its lock goes with it.
Rollback(e) ==
  /\ editor[e].pc # "idle"
  /\ Leave(e)
  /\ UNCHANGED <<person, relations, restored>>

-----------------------------------------------------------------------------
(* UpdateEditable and SoftDeleteEditable: one statement under the lock. *)

UpdateRelation(r, type) ==
  /\ GraphUnlocked
  /\ r.parent \in Live /\ r.child \in Live
  /\ LET q == [parent |-> r.parent, child |-> r.child, type |-> type] IN
       q \notin relations \ {r} /\ relations' = (relations \ {r}) \cup {q}
  /\ UNCHANGED <<person, editor, restored>>

SoftDeleteRelation(r) ==
  /\ GraphUnlocked
  /\ relations' = relations \ {r}
  /\ UNCHANGED <<person, editor, restored>>

CreateStep(e) ==
  \/ \E r \in Relation : Request(e, r)
  \/ LockTreeGraph(e) \/ RequireActivePersons(e) \/ CheckRelation(e) \/ InsertRelation(e)
  \/ Rollback(e)

Next ==
  \/ \E p \in Persons : CreatePerson(p) \/ DeletePerson(p) \/ RestorePerson(p)
  \/ \E e \in Editors : CreateStep(e)
  \/ \E r \in relations : SoftDeleteRelation(r) \/ \E type \in Types : UpdateRelation(r, type)

Spec == Init /\ [][Next]_vars

-----------------------------------------------------------------------------
(* Properties. *)

\* Type correctness: a request past "idle" carries exactly the row it asked for.
TypeOK ==
  /\ person \in [Persons -> {"absent", "live", "deleted"}]
  /\ relations \subseteq Relation
  /\ editor \in [Editors -> [pc : {"idle", "waiting"} \cup Holding, relation : SUBSET Relation]]
  /\ \A e \in Editors : editor[e].pc # "idle" => \E r \in Relation : editor[e].relation = {r}
  /\ restored \subseteq Persons

\* However requests interleave with each other and with deletions of persons, no
\* cycle joins live persons unless one of them was deleted and restored: the
\* advisory lock and the query together keep every other cycle out.
CyclesPassThroughRestored == Acyclic(Among(relations, Live \ restored))

\* docs/PROJECT_CONCEPT.md:83: a chain of parent relations makes no cycle.
ActiveGraphAcyclic == Acyclic(Among(relations, Live))

\* validateManifest, which restores a backup: the cycle check over the relations
\* with deleted_at NULL; the deleted_at of a person is not looked at.
BackupAccepted == Acyclic(relations)

\* docs/BACKUP_RESTORE.md:53: a backup is refused for a cycle in the active graph,
\* so one whose active graph has none is accepted.
AcyclicBackupAccepted == ActiveGraphAcyclic => BackupAccepted
=============================================================================
