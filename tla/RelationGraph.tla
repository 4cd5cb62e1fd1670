---------------------------- MODULE RelationGraph ----------------------------
(***************************************************************************)
(* The parent-child relations of one tree as a directed graph: an edge per *)
(* row of parent_child_relations.  Reachability is stated without          *)
(* recursion: b is reached from a when no set of persons that holds a and  *)
(* is closed under the relations leaves b out.                             *)
(***************************************************************************)
CONSTANTS Persons, Types

Relation == [parent : Persons, child : Persons, type : Types]

Closed(S, E) == \A r \in E : r.parent \in S => r.child \in S

Reaches(E, a, b) == \A S \in SUBSET Persons : a \in S /\ Closed(S, E) => b \in S

Acyclic(E) == \A r \in E : ~Reaches(E, r.child, r.parent)

Among(E, S) == {r \in E : r.parent \in S /\ r.child \in S}
=============================================================================
