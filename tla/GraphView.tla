----------------------------- MODULE GraphView -----------------------------
(***************************************************************************)
(* The graph around a person (LoadGraphAccessible of the relationships     *)
(* repository): six statements of one REPEATABLE READ transaction, between *)
(* which other requests change persons, relations and a union.             *)
(***************************************************************************)
EXTENDS Integers, FiniteSets

CONSTANTS Persons, Center,
          Depths,        \* the depths a request may ask for
          Limits,        \* values of MaxGraphNodes
          MaxRelations,  \* bound: relations at the start
          MaxWrites      \* bound: changes during the request

GraphViewAssumption ==
  /\ IsFiniteSet(Persons) /\ Center \in Persons
  /\ Depths \subseteq Nat /\ Limits \subseteq Nat /\ MaxRelations \in Nat /\ MaxWrites \in Nat

VARIABLES db,            \* the committed rows that are not deleted
          request,       \* depths, partners, the limit, and the next statement
          snapshot,      \* what the transaction sees
          lineage,       \* lineageNodeIDs
          nodes,         \* nodeIDs
          unions,        \* unionIDs: whether the union is one
          answer,
          writes,
          moments        \* history variable: the states of db since the request began

vars == <<db, request, snapshot, lineage, nodes, unions, answer, writes, moments>>

----------------------------------------------------------------------------
(* State *)

\* members keeps persons that were deleted after they joined; live is the row of the union.
Database == [active : SUBSET Persons, relations : SUBSET (Persons \X Persons),
             live : BOOLEAN, members : SUBSET Persons]

NoAnswer == [status |-> "none", persons |-> {}, relations |-> {}, union |-> FALSE, members |-> {}]
Refused(status) == [NoAnswer EXCEPT !.status = status]

\* Relations never close a cycle (FamilyGraph); here the starting ones have no pair both ways
\* and no person is a parent of themselves.
Init ==
  /\ db \in {d \in Database :
       /\ Cardinality(d.relations) <= MaxRelations
       /\ \A r \in d.relations : r[1] # r[2] /\ <<r[2], r[1]>> \notin d.relations
       /\ IF d.live THEN Cardinality(d.members) >= 2 ELSE d.members = {}
       /\ Cardinality(Persons \ d.active) <= 1}
  /\ request \in [pc : {"center"}, up : Depths, down : Depths, partners : BOOLEAN, limit : Limits]
  /\ snapshot = db
  /\ lineage = {} /\ nodes = {} /\ unions = FALSE
  /\ answer = NoAnswer
  /\ writes = 0
  /\ moments = {}

----------------------------------------------------------------------------
(* What the statements compute *)

\* A row of the recursive common table expressions: a person and the path that led there.
Start == [person |-> Center, path |-> {Center}]
Step(row, p) == [person |-> p, path |-> row.path \cup {p}]

\* The rows found at most depth steps away over edges, whose far ends must be active, on paths
\* that meet nobody twice.
Traversed(s, edges, depth) ==
  LET rows[d \in 0 .. depth] ==
        IF d = 0 THEN {Start}
        ELSE rows[d - 1] \cup
             {Step(x[1], x[2]) : x \in {y \in rows[d - 1] \X s.active :
                /\ <<y[1].person, y[2]>> \in edges
                /\ y[2] \notin y[1].path
                /\ Cardinality(y[1].path) <= depth}}
  IN {row.person : row \in rows[depth]}

Flipped(edges) == {<<r[2], r[1]>> : r \in edges}

LineageOf(s) ==
  Traversed(s, Flipped(s.relations), request.up) \cup Traversed(s, s.relations, request.down)

\* The union is shown when the lineage has a member of it, and two of its members are active.
Anchored(s, found) ==
  s.live /\ s.members \cap found # {} /\ Cardinality(s.members \cap s.active) >= 2

\* A plausible bug, never used here: READ COMMITTED, where every statement has its own snapshot.
SeenCommitted == db

\* What a statement sees: the state of the database at the first statement.
Seen == snapshot

----------------------------------------------------------------------------
(* The request *)

At(pc) == request.pc = pc
Goto(pc) == request' = [request EXCEPT !.pc = pc]

Refuse(status) ==
  /\ answer' = Refused(status)
  /\ Goto("done")

\* The first statement fixes the snapshot.
AuthorizeCenter ==
  /\ At("center")
  /\ snapshot' = db /\ moments' = {db}
  /\ IF Center \in db.active THEN Goto("lineage") /\ UNCHANGED answer ELSE Refuse("notFound")
  /\ UNCHANGED <<db, lineage, nodes, unions, writes>>

LoadLineage ==
  /\ At("lineage")
  /\ lineage' = LineageOf(Seen) /\ nodes' = lineage'
  /\ IF Cardinality(lineage') > request.limit
     THEN Refuse("limit")
     ELSE Goto(IF request.partners THEN "partners" ELSE "persons") /\ UNCHANGED answer
  /\ UNCHANGED <<db, snapshot, unions, writes, moments>>

\* loadPartnerGraphNodes
LoadPartners ==
  /\ At("partners")
  /\ unions' = Anchored(Seen, lineage)
  /\ nodes' = IF unions' THEN nodes \cup (Seen.members \cap Seen.active) ELSE nodes
  /\ IF Cardinality(nodes') > request.limit
     THEN Refuse("limit")
     ELSE Goto("persons") /\ UNCHANGED answer
  /\ UNCHANGED <<db, snapshot, lineage, writes, moments>>

\* loadPersonSummaries
LoadPersons ==
  /\ At("persons")
  /\ answer' = [answer EXCEPT !.persons = nodes \cap Seen.active]
  /\ Goto("unions")
  /\ UNCHANGED <<db, snapshot, lineage, nodes, unions, writes, moments>>

\* loadGraphUnions: the rows of the unions, then those of their members.
LoadUnions ==
  /\ At("unions")
  /\ answer' = [answer EXCEPT !.union = unions /\ Seen.live]
  /\ Goto(IF unions THEN "members" ELSE "relations")
  /\ UNCHANGED <<db, snapshot, lineage, nodes, unions, writes, moments>>

LoadMembers ==
  /\ At("members")
  /\ answer' = [answer EXCEPT !.members = Seen.members \cap nodes]
  /\ Goto("relations")
  /\ UNCHANGED <<db, snapshot, lineage, nodes, unions, writes, moments>>

\* loadRelationsForNodes
LoadRelations ==
  /\ At("relations")
  /\ answer' = [answer EXCEPT !.status = "ok",
                              !.relations = Seen.relations \cap (nodes \X nodes)]
  /\ Goto("done")
  /\ UNCHANGED <<db, snapshot, lineage, nodes, unions, writes, moments>>

----------------------------------------------------------------------------
(* Other requests *)

\* A change before the first statement is another state to start from.
Write(new) ==
  /\ ~ At("center") /\ ~ At("done") /\ writes < MaxWrites
  /\ db' = new
  /\ writes' = writes + 1
  /\ moments' = moments \cup {new}
  /\ UNCHANGED <<request, snapshot, lineage, nodes, unions, answer>>

\* A person is deleted or restored: their relations and memberships stay.
WritePerson(p) ==
  Write([db EXCEPT !.active = IF p \in @ THEN @ \ {p} ELSE @ \cup {p}])

WriteRelation(p, q) ==
  /\ p # q /\ {p, q} \subseteq db.active /\ <<q, p>> \notin db.relations
  /\ Write([db EXCEPT !.relations = IF <<p, q>> \in @ THEN @ \ {<<p, q>>} ELSE @ \cup {<<p, q>>}])

\* A union keeps two members, active or not (FamilyUnion).
WriteMember(p) ==
  /\ db.live
  /\ IF p \in db.members
     THEN Cardinality(db.members) > 2 /\ Write([db EXCEPT !.members = @ \ {p}])
     ELSE p \in db.active /\ Write([db EXCEPT !.members = @ \cup {p}])

DeleteUnion == db.live /\ Write([db EXCEPT !.live = FALSE])

Next ==
  \/ AuthorizeCenter \/ LoadLineage \/ LoadPartners \/ LoadPersons
  \/ LoadUnions \/ LoadMembers \/ LoadRelations
  \/ \E p \in Persons : WritePerson(p) \/ WriteMember(p)
  \/ \E p, q \in Persons : WriteRelation(p, q)
  \/ DeleteUnion

Spec == Init /\ [][Next]_vars

----------------------------------------------------------------------------
(* Properties *)

\* The reference: whoever is at most depth steps away, every step leading to an active person.
Ball(s, edges, depth) ==
  LET within[d \in 0 .. depth] ==
        IF d = 0 THEN {Center}
        ELSE within[d - 1] \cup {p \in s.active : \E q \in within[d - 1] : <<q, p>> \in edges}
  IN within[depth]

\* The whole answer, from one state of the tree.
Whole(s) ==
  LET near == Ball(s, Flipped(s.relations), request.up) \cup Ball(s, s.relations, request.down)
      shown == request.partners /\ s.live /\ s.members \cap near # {}
               /\ Cardinality(s.members \cap s.active) >= 2
      all == IF shown THEN near \cup (s.members \cap s.active) ELSE near
  IN IF Center \notin s.active THEN Refused("notFound")
     ELSE IF Cardinality(all) > request.limit THEN Refused("limit")
     ELSE [status |-> "ok", persons |-> all, relations |-> s.relations \cap (all \X all),
           union |-> shown, members |-> IF shown THEN s.members \cap all ELSE {}]

\* The six statements together answer what the tree was at one moment of the request, and that
\* is the neighbourhood of the person, whatever is written between them.
AnswerIsOneMoment == At("done") => \E s \in moments : answer = Whole(s)
=============================================================================
