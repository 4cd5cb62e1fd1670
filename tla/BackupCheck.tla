---------------------------- MODULE BackupCheck ----------------------------
(***************************************************************************)
(* The cycle check of a backup's parent-child relations                    *)
(* (internal/features/exports/restore/archive.go, validateManifest):       *)
(* persons whose indegree drops to zero are taken off a stack and counted. *)
(* Two persons may be joined by relations of several types, and every one  *)
(* of them counts in the indegree.                                         *)
(***************************************************************************)
EXTENDS RelationGraph, Integers, FiniteSets, SequencesExt

CONSTANT MaxRelations      \* bound: relations in a backup

BackupAssumption ==
  IsFiniteSet(Persons) /\ IsFiniteSet(Types) /\ MaxRelations \in Nat

VARIABLES
  relations,               \* the backup's rows with deleted_at null
  indegrees, queue, visited,
  unread                   \* children of the person just visited, not yet decremented

vars == <<relations, indegrees, queue, visited, unread>>

\* Mutant of Indegree: two relations between the same persons count once.
IndegreeByParents(E, p) == Cardinality({r.parent : r \in {q \in E : q.child = p}})

Indegree(E, p) == Cardinality({r \in E : r.child = p})

\* The relations have been read and the roots pushed, in some order (a Go map's).
Init ==
  /\ relations \in {E \in SUBSET Relation :
       Cardinality(E) <= MaxRelations /\ \A r \in E : r.parent # r.child}
  /\ indegrees = [p \in Persons |-> Indegree(relations, p)]
  /\ queue \in SetToSeqs({p \in Persons : indegrees[p] = 0})
  /\ visited = 0
  /\ unread = {}

Visit ==
  /\ unread = {} /\ queue # <<>>
  /\ queue' = Front(queue)
  /\ visited' = visited + 1
  /\ unread' = {r \in relations : r.parent = Last(queue)}
  /\ UNCHANGED <<relations, indegrees>>

Decrement(r) ==
  /\ r \in unread
  /\ unread' = unread \ {r}
  /\ indegrees' = [indegrees EXCEPT ![r.child] = @ - 1]
  /\ queue' = IF indegrees'[r.child] = 0 THEN Append(queue, r.child) ELSE queue
  /\ UNCHANGED <<relations, visited>>

Finished == unread = {} /\ queue = <<>>

Next == Visit \/ \E r \in unread : Decrement(r)

Spec == Init /\ [][Next]_vars

Accepted == visited = Cardinality(Persons)

\* The check accepts a backup exactly when no person is their own ancestor, whatever
\* the order of the map and with several relations between the same two persons.
RejectsExactlyCycles == Finished => (Accepted <=> Acyclic(relations))
=============================================================================
