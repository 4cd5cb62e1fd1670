-------------------------- MODULE FamilyGraphProofs --------------------------
(***************************************************************************)
(* What the advisory lock and the cycle query achieve, for any number of   *)
(* persons, relation types and concurrent requests.  They are proved of    *)
(* the graph as PersonLinks instantiates it (G), where TLC checks it.      *)
(***************************************************************************)
EXTENDS PersonLinks, TLAPS

-----------------------------------------------------------------------------
(* Graphs. *)

\* Every edge of F has its ends joined in E as well.
Covers(E, F) == \A f \in F : \E e \in E : e.parent = f.parent /\ e.child = f.child

LEMMA CoversReaches ==
  ASSUME NEW E, NEW F, Covers(E, F), NEW a, NEW b, G!Reaches(F, a, b)
  PROVE  G!Reaches(E, a, b)
BY DEF Covers, G!Reaches, G!Closed

LEMMA CoversAcyclic ==
  ASSUME NEW E, NEW F, Covers(E, F), G!Acyclic(E)
  PROVE  G!Acyclic(F)
<1> SUFFICES ASSUME NEW f \in F, G!Reaches(F, f.child, f.parent)
             PROVE  FALSE
  BY DEF G!Acyclic
<1>1. PICK e \in E : e.parent = f.parent /\ e.child = f.child
  BY DEF Covers
<1>2. G!Reaches(E, e.child, e.parent)
  BY <1>1, CoversReaches
<1> QED  BY <1>2 DEF G!Acyclic

\* The heart of CreateAcyclicEditable: an edge whose child does not reach its parent
\* closes no cycle.
LEMMA EdgeKeepsAcyclic ==
  ASSUME NEW E, G!Acyclic(E), NEW r \in G!Relation, ~G!Reaches(E, r.child, r.parent)
  PROVE  G!Acyclic(E \cup {r})
<1> DEFINE F == E \cup {r}
<1>1. PICK S \in SUBSET Relatives : r.child \in S /\ G!Closed(S, E) /\ r.parent \notin S
  BY DEF G!Reaches
<1>2. G!Closed(S, F)
  BY <1>1 DEF G!Closed
<1> SUFFICES ASSUME NEW f \in F  PROVE ~G!Reaches(F, f.child, f.parent)
  BY DEF G!Acyclic
<1>3. CASE f = r
  BY <1>1, <1>2, <1>3 DEF G!Reaches
<1>4. CASE f \in E
  <2>1. PICK T \in SUBSET Relatives : f.child \in T /\ G!Closed(T, E) /\ f.parent \notin T
    BY <1>4 DEF G!Acyclic, G!Reaches
  <2>2. CASE f.parent \in S
    <3>1. f.child \in S \cap T
      BY <1>1, <1>4, <2>1, <2>2 DEF G!Closed
    <3>2. G!Closed(S \cap T, F)
      BY <1>1, <2>1 DEF G!Closed
    <3>3. S \cap T \in SUBSET Relatives /\ f.parent \notin S \cap T
      BY <2>1
    <3> QED  BY <3>1, <3>2, <3>3 DEF G!Reaches
  <2>3. CASE f.parent \notin S
    <3>1. G!Closed(S \cup T, F)
      BY <1>1, <2>1 DEF G!Closed
    <3>2. S \cup T \in SUBSET Relatives /\ f.child \in S \cup T /\ f.parent \notin S \cup T
      BY <2>1, <2>3
    <3> QED  BY <3>1, <3>2 DEF G!Reaches
  <2> QED  BY <2>2, <2>3
<1> QED  BY <1>3, <1>4

-----------------------------------------------------------------------------
(* The inductive invariant. *)

Safe == G!Live \ restored

Known(r) == person[r.parent] # "absent" /\ person[r.child] # "absent"

\* Absent persons have no relations, so a new person cannot join two ends.
RelationsKnown ==
  /\ \A r \in relations : Known(r)
  /\ \A e \in Editors : editor[e].pc \in {"ends", "checked"} =>
       \A r \in editor[e].relation : Known(r)

LockExclusive ==
  \A d, e \in Editors : editor[d].pc \in G!Holding /\ editor[e].pc \in G!Holding => d = e

\* What was checked still holds of the persons that were never restored.
CheckStands ==
  \A e \in Editors : editor[e].pc = "checked" =>
    \A r \in editor[e].relation : ~G!Reaches(G!Among(relations, Safe), r.child, r.parent)

Inv == G!TypeOK /\ RelationsKnown /\ LockExclusive /\ CheckStands /\ CyclesPassThroughRestored

LEMMA EditorGoes ==
  ASSUME G!TypeOK, NEW e \in Editors
  PROVE  /\ \A pc \in {"waiting"} \cup G!Holding : editor[e].pc # "idle" /\ G!Goto(e, pc) =>
              /\ editor'[e].pc = pc /\ editor'[e].relation = editor[e].relation
              /\ \A d \in Editors \ {e} : editor'[d] = editor[d]
              /\ editor' \in [Editors -> [pc : {"idle", "waiting"} \cup G!Holding,
                                          relation : SUBSET G!Relation]]
         /\ G!Leave(e) =>
              /\ editor'[e].pc = "idle"
              /\ \A d \in Editors \ {e} : editor'[d] = editor[d]
              /\ editor' \in [Editors -> [pc : {"idle", "waiting"} \cup G!Holding,
                                          relation : SUBSET G!Relation]]
<1> DEFINE R == [pc : {"idle", "waiting"} \cup G!Holding, relation : SUBSET G!Relation]
<1>1. editor \in [Editors -> R]
  BY DEF G!TypeOK
<1>2. ASSUME NEW pc \in {"waiting"} \cup G!Holding, G!Goto(e, pc)
      PROVE  /\ editor'[e].pc = pc /\ editor'[e].relation = editor[e].relation
             /\ \A d \in Editors \ {e} : editor'[d] = editor[d]
             /\ editor' \in [Editors -> R]
  BY <1>1, <1>2 DEF G!Goto
<1>3. G!NoRequest \in R /\ G!NoRequest.pc = "idle"
  BY DEF G!NoRequest
<1>4. ASSUME G!Leave(e)
      PROVE  /\ editor'[e].pc = "idle"
             /\ \A d \in Editors \ {e} : editor'[d] = editor[d]
             /\ editor' \in [Editors -> R]
  BY <1>1, <1>3, <1>4 DEF G!Leave
<1> QED  BY <1>2, <1>4

-----------------------------------------------------------------------------
(* The steps of persons. *)

\* Operations on persons leave the edges between safe persons alone, or take some away.
LEMMA SafeShrinks ==
  ASSUME G!TypeOK, RelationsKnown, NEW p \in Relatives,
         G!CreatePerson(p) \/ G!DeletePerson(p) \/ G!RestorePerson(p)
  PROVE  G!Among(relations, Safe)' \subseteq G!Among(relations, Safe)
<1>1. CASE G!CreatePerson(p)
  <2>1. Safe' \subseteq Safe \cup {p}
    BY <1>1 DEF G!CreatePerson, Safe, G!Live, G!TypeOK
  <2>2. \A r \in relations : r.parent # p /\ r.child # p
    BY <1>1 DEF G!CreatePerson, RelationsKnown, Known
  <2> QED  BY <1>1, <2>1, <2>2 DEF G!CreatePerson, G!Among
<1>2. CASE G!DeletePerson(p)
  <2>1. Safe' \subseteq Safe
    BY <1>2 DEF G!DeletePerson, Safe, G!Live, G!TypeOK
  <2> QED  BY <1>2, <2>1 DEF G!DeletePerson, G!Among
<1>3. CASE G!RestorePerson(p)
  <2>1. Safe' \subseteq Safe
    BY <1>3 DEF G!RestorePerson, Safe, G!Live, G!TypeOK
  <2> QED  BY <1>3, <2>1 DEF G!RestorePerson, G!Among
<1> QED  BY <1>1, <1>2, <1>3

LEMMA PersonStep ==
  ASSUME Inv, NEW p \in Relatives, G!CreatePerson(p) \/ G!DeletePerson(p) \/ G!RestorePerson(p)
  PROVE  Inv'
<1> USE DEF Inv
<1>1. editor' = editor /\ relations' = relations
  BY DEF G!CreatePerson, G!DeletePerson, G!RestorePerson
<1>2. G!TypeOK'
  BY <1>1 DEF G!CreatePerson, G!DeletePerson, G!RestorePerson, G!TypeOK
<1>3. \A r \in G!Relation : Known(r) => Known(r)'
  BY DEF G!CreatePerson, G!DeletePerson, G!RestorePerson, Known, G!TypeOK, G!Relation
<1>4. RelationsKnown'
  <2>1. \A e \in Editors : editor[e].relation \subseteq G!Relation
    BY DEF G!TypeOK
  <2>2. relations \subseteq G!Relation
    BY DEF G!TypeOK
  <2> QED  BY <1>1, <1>3, <2>1, <2>2 DEF RelationsKnown
<1>5. Covers(G!Among(relations, Safe), G!Among(relations, Safe)')
  BY SafeShrinks DEF Covers
<1>6. CheckStands'
  BY <1>1, <1>5, CoversReaches DEF CheckStands
<1>7. CyclesPassThroughRestored'
  BY <1>5, CoversAcyclic DEF CyclesPassThroughRestored, G!CyclesPassThroughRestored, Safe
<1>8. LockExclusive'
  BY <1>1 DEF LockExclusive
<1> QED  BY <1>2, <1>4, <1>6, <1>7, <1>8

-----------------------------------------------------------------------------
(* The steps of the requests. *)

\* A step that only moves one request keeps what does not depend on its new place.
LEMMA RequestMoves ==
  ASSUME Inv, NEW e \in Editors, UNCHANGED <<person, relations, restored>>,
         \A d \in Editors \ {e} : editor'[d] = editor[d],
         editor' \in [Editors -> [pc : {"idle", "waiting"} \cup G!Holding,
                                 relation : SUBSET G!Relation]],
         editor'[e].pc # "idle" => \E r \in G!Relation : editor'[e].relation = {r},
         editor'[e].pc \in G!Holding => editor[e].pc \in G!Holding \/ G!GraphUnlocked,
         editor'[e].pc \in {"ends", "checked"} =>
           \A r \in editor'[e].relation : Known(r),
         editor'[e].pc = "checked" =>
           \A r \in editor'[e].relation : ~G!Reaches(G!Among(relations, Safe), r.child, r.parent)
  PROVE  Inv'
<1> USE DEF Inv
<1>1. G!TypeOK'
  <2>1. \A d \in Editors : editor'[d].pc # "idle" => \E r \in G!Relation : editor'[d].relation = {r}
    BY DEF G!TypeOK
  <2> QED  BY <2>1 DEF G!TypeOK
<1>2. RelationsKnown'
  BY DEF RelationsKnown, Known
<1>3. LockExclusive'
  BY DEF LockExclusive, G!GraphUnlocked
<1>4. Safe' = Safe /\ G!Among(relations, Safe)' = G!Among(relations, Safe)
  BY DEF Safe, G!Live, G!Among
<1>5. CheckStands'
  <2> SUFFICES ASSUME NEW d \in Editors, editor'[d].pc = "checked", NEW r \in editor'[d].relation
               PROVE  ~G!Reaches(G!Among(relations, Safe), r.child, r.parent)
    BY <1>4 DEF CheckStands, G!Reaches
  <2> QED  BY DEF CheckStands
<1>6. CyclesPassThroughRestored'
  BY DEF CyclesPassThroughRestored, G!CyclesPassThroughRestored, G!Live, G!Among, G!Acyclic,
         G!Reaches, G!Closed
<1> QED  BY <1>1, <1>2, <1>3, <1>5, <1>6

\* Edges between safe persons are followed by the cycle query.
LEMMA QuerySeesSafe == Covers(G!Visible, G!Among(relations, Safe))
BY DEF Covers, G!Visible, G!Among, Safe

LEMMA CreateStepInv ==
  ASSUME Inv, NEW e \in Editors, G!CreateStep(e)
  PROVE  Inv'
<1>1. G!TypeOK /\ RelationsKnown
  BY DEF Inv
<1>2. ASSUME G!Leave(e), UNCHANGED <<person, relations, restored>>
      PROVE  Inv'
  BY <1>1, <1>2, EditorGoes, RequestMoves DEF G!Holding
<1>3. ASSUME NEW r \in G!Relation, G!Request(e, r)
      PROVE  Inv'
  <2>1. /\ editor'[e].pc = "waiting" /\ editor'[e].relation = {r}
        /\ \A d \in Editors \ {e} : editor'[d] = editor[d]
    BY <1>1, <1>3 DEF G!Request, G!TypeOK
  <2>2. [pc |-> "waiting", relation |-> {r}]
          \in [pc : {"idle", "waiting"} \cup G!Holding, relation : SUBSET G!Relation]
    OBVIOUS
  <2>3. editor' \in [Editors -> [pc : {"idle", "waiting"} \cup G!Holding,
                                relation : SUBSET G!Relation]]
    BY <1>1, <1>3, <2>2 DEF G!Request, G!TypeOK
  <2> QED  BY <1>3, <2>1, <2>3, RequestMoves DEF G!Request, G!Holding
<1>4. CASE G!LockTreeGraph(e)
  <2>1. /\ editor'[e].pc = "locked" /\ editor'[e].relation = editor[e].relation
        /\ \A d \in Editors \ {e} : editor'[d] = editor[d]
        /\ editor' \in [Editors -> [pc : {"idle", "waiting"} \cup G!Holding,
                                   relation : SUBSET G!Relation]]
    BY <1>1, <1>4, EditorGoes DEF G!LockTreeGraph, G!Holding
  <2>2. \E r \in G!Relation : editor'[e].relation = {r}
    BY <1>1, <1>4, <2>1 DEF G!LockTreeGraph, G!TypeOK
  <2> QED  BY <1>4, <2>1, <2>2, RequestMoves DEF G!LockTreeGraph
<1>5. CASE G!RequireActivePersons(e)
  <2>1. CASE G!Leave(e)
    BY <1>2, <1>5, <2>1 DEF G!RequireActivePersons
  <2>2. CASE /\ G!Goto(e, "ends")
             /\ \A r \in editor[e].relation : r.parent \in G!Live /\ r.child \in G!Live
    <3>1. /\ editor'[e].pc = "ends" /\ editor'[e].relation = editor[e].relation
          /\ \A d \in Editors \ {e} : editor'[d] = editor[d]
          /\ editor' \in [Editors -> [pc : {"idle", "waiting"} \cup G!Holding,
                                     relation : SUBSET G!Relation]]
      BY <1>1, <1>5, <2>2, EditorGoes DEF G!RequireActivePersons, G!Holding
    <3>2. \E r \in G!Relation : editor'[e].relation = {r}
      BY <1>1, <1>5, <3>1 DEF G!RequireActivePersons, G!TypeOK
    <3>3. \A r \in editor'[e].relation : Known(r)
      BY <2>2, <3>1 DEF G!Live, Known
    <3> QED  BY <1>5, <3>1, <3>2, <3>3, RequestMoves DEF G!RequireActivePersons, G!Holding
  <2> QED  BY <1>5, <2>1, <2>2 DEF G!RequireActivePersons
<1>6. CASE G!CheckRelation(e)
  <2>1. CASE G!Leave(e)
    BY <1>2, <1>6, <2>1 DEF G!CheckRelation
  <2>2. CASE /\ G!Goto(e, "checked")
             /\ \A r \in editor[e].relation : ~G!CreatesCycle(r)
    <3>1. /\ editor'[e].pc = "checked" /\ editor'[e].relation = editor[e].relation
          /\ \A d \in Editors \ {e} : editor'[d] = editor[d]
          /\ editor' \in [Editors -> [pc : {"idle", "waiting"} \cup G!Holding,
                                     relation : SUBSET G!Relation]]
      BY <1>1, <1>6, <2>2, EditorGoes DEF G!CheckRelation, G!Holding
    <3>2. \E r \in G!Relation : editor'[e].relation = {r}
      BY <1>1, <1>6, <3>1 DEF G!CheckRelation, G!TypeOK
    <3>3. \A r \in editor'[e].relation : Known(r)
      BY <1>1, <1>6, <3>1 DEF G!CheckRelation, RelationsKnown
    <3>4. \A r \in editor'[e].relation : ~G!Reaches(G!Among(relations, Safe), r.child, r.parent)
      BY <2>2, <3>1, QuerySeesSafe, CoversReaches DEF G!CreatesCycle
    <3> QED  BY <1>6, <3>1, <3>2, <3>3, <3>4, RequestMoves DEF G!CheckRelation, G!Holding
  <2> QED  BY <1>6, <2>1, <2>2 DEF G!CheckRelation
<1>7. CASE G!InsertRelation(e)
  <2>1. PICK r \in G!Relation : editor[e].relation = {r}
    BY <1>1, <1>7 DEF G!InsertRelation, G!TypeOK
  <2>2. /\ editor'[e].pc = "idle" /\ \A d \in Editors \ {e} : editor'[d] = editor[d]
        /\ editor' \in [Editors -> [pc : {"idle", "waiting"} \cup G!Holding,
                                   relation : SUBSET G!Relation]]
    BY <1>1, <1>7, EditorGoes DEF G!InsertRelation
  <2>3. relations' = relations \cup {r} /\ person' = person /\ restored' = restored
    BY <1>7, <2>1 DEF G!InsertRelation
  <2>4. G!TypeOK'
    <3>1. \A d \in Editors : editor'[d].pc # "idle" =>
            \E q \in G!Relation : editor'[d].relation = {q}
      BY <1>1, <2>2 DEF G!TypeOK
    <3> QED  BY <1>1, <2>2, <2>3, <3>1 DEF G!TypeOK
  <2>5. RelationsKnown'
    BY <1>1, <1>7, <2>1, <2>2, <2>3 DEF RelationsKnown, Known, G!InsertRelation
  <2>6. \A d \in Editors : editor'[d].pc \notin G!Holding
    BY <1>7, <2>2 DEF Inv, LockExclusive, G!Holding, G!InsertRelation
  <2>7. LockExclusive' /\ CheckStands'
    BY <2>6 DEF LockExclusive, CheckStands, G!Holding
  <2>8. CyclesPassThroughRestored'
    <3>1. G!Acyclic(G!Among(relations, Safe) \cup {r})
      BY <1>7, <2>1, EdgeKeepsAcyclic
         DEF G!InsertRelation, Inv, CheckStands, CyclesPassThroughRestored,
             G!CyclesPassThroughRestored, Safe
    <3>2. Covers(G!Among(relations, Safe) \cup {r}, G!Among(relations', Safe))
      BY <2>3 DEF Covers, G!Among
    <3>3. G!Acyclic(G!Among(relations', Safe))
      BY <3>1, <3>2, CoversAcyclic
    <3> QED  BY <2>3, <3>3 DEF CyclesPassThroughRestored, G!CyclesPassThroughRestored, Safe, G!Live
  <2> QED  BY <2>4, <2>5, <2>7, <2>8 DEF Inv
<1>8. CASE G!Rollback(e)
  BY <1>2, <1>8 DEF G!Rollback
<1> QED  BY <1>3, <1>4, <1>5, <1>6, <1>7, <1>8 DEF G!CreateStep

-----------------------------------------------------------------------------
(* The steps of existing relations. *)

LEMMA RelationStep ==
  ASSUME Inv, NEW r \in relations,
         G!SoftDeleteRelation(r) \/ \E type \in Types : G!UpdateRelation(r, type)
  PROVE  Inv'
<1> USE DEF Inv
<1>1. G!GraphUnlocked /\ UNCHANGED <<person, editor, restored>>
  BY DEF G!SoftDeleteRelation, G!UpdateRelation
<1>2. r \in G!Relation
  BY DEF G!TypeOK
<1>3. \A q \in relations' : /\ q \in G!Relation
                           /\ \E o \in relations : o.parent = q.parent /\ o.child = q.child
  <2>1. CASE G!SoftDeleteRelation(r)
    BY <2>1 DEF G!SoftDeleteRelation, G!TypeOK
  <2>2. ASSUME NEW type \in Types, G!UpdateRelation(r, type)
        PROVE  \A q \in relations' : /\ q \in G!Relation
                  /\ \E o \in relations : o.parent = q.parent /\ o.child = q.child
    BY <1>2, <2>2 DEF G!UpdateRelation, G!TypeOK, G!Relation
  <2> QED  BY <2>1, <2>2
<1>4. G!TypeOK'
  BY <1>1, <1>3 DEF G!TypeOK
<1>5. RelationsKnown'
  BY <1>1, <1>3 DEF RelationsKnown, Known
<1>6. LockExclusive' /\ CheckStands'
  BY <1>1 DEF LockExclusive, CheckStands, G!GraphUnlocked, G!Holding
<1>7. CyclesPassThroughRestored'
  <2>1. Covers(G!Among(relations, Safe), G!Among(relations', Safe))
    BY <1>3 DEF Covers, G!Among
  <2>2. G!Acyclic(G!Among(relations', Safe))
    BY <2>1, CoversAcyclic DEF CyclesPassThroughRestored, G!CyclesPassThroughRestored, Safe
  <2> QED  BY <1>1, <2>2 DEF CyclesPassThroughRestored, G!CyclesPassThroughRestored, Safe, G!Live
<1> QED  BY <1>4, <1>5, <1>6, <1>7

-----------------------------------------------------------------------------
(* The theorems. *)

LEMMA InitInv == G!Init => Inv
<1> SUFFICES ASSUME G!Init  PROVE Inv
  OBVIOUS
<1>1. G!TypeOK
  <2>1. G!NoRequest \in [pc : {"idle", "waiting"} \cup G!Holding, relation : SUBSET G!Relation]
        /\ G!NoRequest.pc = "idle"
    BY DEF G!NoRequest
  <2> QED  BY <2>1 DEF G!Init, G!TypeOK
<1>2. \A e \in Editors : editor[e].pc = "idle"
  BY DEF G!Init, G!NoRequest
<1>3. relations = {}
  BY DEF G!Init
<1> QED  BY <1>1, <1>2, <1>3
         DEF Inv, RelationsKnown, LockExclusive, CheckStands, CyclesPassThroughRestored,
             G!CyclesPassThroughRestored, G!Acyclic, G!Among, G!Holding

LEMMA NextInv ==
  ASSUME Inv, [G!Next]_(G!vars)
  PROVE  Inv'
<1>1. CASE UNCHANGED G!vars
  BY <1>1 DEF G!vars, Inv, G!TypeOK, RelationsKnown, Known, LockExclusive, CheckStands,
              CyclesPassThroughRestored, G!CyclesPassThroughRestored, Safe, G!Live, G!Among,
              G!Acyclic, G!Reaches, G!Closed
<1>2. CASE G!Next
  BY <1>2, PersonStep, CreateStepInv, RelationStep DEF G!Next
<1> QED  BY <1>1, <1>2

LEMMA Invariance == G!Spec => []Inv
BY InitInv, NextInv, PTL DEF G!Spec

\* Type correctness of the family graph.
THEOREM FamilyGraphTypeCorrect == G!Spec => []G!TypeOK
<1>1. Inv => G!TypeOK
  BY DEF Inv
<1> QED  BY <1>1, Invariance, PTL

\* In a tree of any size, with any number of concurrent requests, every cycle of the
\* live graph passes through a person that was deleted and restored.
THEOREM CyclesPassThroughRestoredHolds == G!Spec => []CyclesPassThroughRestored
<1>1. Inv => CyclesPassThroughRestored
  BY DEF Inv
<1> QED  BY <1>1, Invariance, PTL
=============================================================================
