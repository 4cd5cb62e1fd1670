--------------------------- MODULE GedcomFamilies ---------------------------
(***************************************************************************)
(* The FAM records of a GEDCOM export (internal/features/exports/gedcom):  *)
(* every active union becomes one or several records of two partners, and  *)
(* the relations of a child are put into records whose partners are        *)
(* exactly the parents.  Confidence, notes, roles and the order of the     *)
(* partners are left out.                                                  *)
(***************************************************************************)
EXTENDS Integers, SequencesExt

CONSTANTS Persons, Unions, Types,  \* numbers, in the order of the code
          Deletable,               \* bound: persons that may be deleted
          MaxRelations             \* bound: relations of a tree

GedcomAssumption ==
  /\ Persons \cup Unions \cup Types \subseteq Nat /\ IsFiniteSet(Persons \cup Unions \cup Types)
  /\ MaxRelations \in Nat

VARIABLES tree,          \* the snapshot: active persons, members of the active unions, relations
          unionsLeft,    \* unions still to be written
          chunksLeft,    \* parents of children still to be placed
          families,      \* the FAM records
          links          \* FAMS and FAMC of each person

vars == <<tree, unionsLeft, chunksLeft, families, links>>

----------------------------------------------------------------------------
(* Grouping *)

\* The members of S, each once, in ascending order.
Sorted(S) ==
  CHOOSE s \in [1 .. Cardinality(S) -> S] :
    \A i, j \in 1 .. Cardinality(S) : i < j => s[i] < s[j]

Relation == [parent : Persons, child : Persons, type : Types]

\* At least one relation of a tree, MaxRelations at most.
RelationSets ==
  {ToSet(s) : s \in [1 .. MaxRelations -> {r \in Relation : r.parent # r.child}]}

\* Relations of deleted persons stay in the snapshot and are left out of the export.
Active(t) == {r \in t.relations : {r.parent, r.child} \subseteq t.active}

\* partnerPairs: the first member with each of the others.
PartnerPairs(s) ==
  IF Len(s) = 1 THEN << {s[1]} >> ELSE [i \in 1 .. Len(s) - 1 |-> {s[1], s[i + 1]}]

\* parentChunks: two parents at a time.
ParentChunks(s) ==
  [i \in 1 .. (Len(s) + 1) \div 2 |->
     {s[j] : j \in {k \in DOMAIN s : (k + 1) \div 2 = i}}]

\* relationGroups: the parents of a child by one type of relation, in chunks.
ParentsOf(t, child, type) ==
  {r.parent : r \in {q \in Active(t) : q.child = child /\ q.type = type}}

ChunksOf(t, child, type) ==
  LET chunks == ParentChunks(Sorted(ParentsOf(t, child, type)))
  IN {[child |-> child, type |-> type, index |-> i, parents |-> chunks[i]] : i \in DOMAIN chunks}

\* All groups, by child and then by type.
Before(c, d) ==
  \/ c.child < d.child
  \/ c.child = d.child /\ c.type < d.type
  \/ c.child = d.child /\ c.type = d.type /\ c.index < d.index

Chunks(t) ==
  LET S == UNION {ChunksOf(t, child, type) : child \in Persons, type \in Types}
  IN CHOOSE s \in [1 .. Cardinality(S) -> S] :
       \A i, j \in 1 .. Cardinality(S) : i < j => Before(s[i], s[j])

----------------------------------------------------------------------------
(* Records *)

\* childLinks keeps one link for each child, children the lines that are written.
Family(xref, partners) ==
  [xref |-> xref, partners |-> partners, children |-> <<>>, childLinks |-> <<>>]

Init ==
  /\ tree \in [active : {A \in SUBSET Persons : Persons \ A \subseteq Deletable},
               members : [Unions -> {M \in SUBSET Persons : Cardinality(M) >= 2}],
               relations : RelationSets \cup {{}}]
  /\ unionsLeft = Sorted(Unions)
  /\ chunksLeft = Chunks(tree)
  /\ families = <<>>
  /\ links = [p \in tree.active |-> [asPartner |-> {}, asChild |-> <<>>]]

\* The map f with an entry for k.
Put(f, k, value) == [x \in DOMAIN f \cup {k} |-> IF x = k THEN value ELSE f[x]]

Linked(partners, xref) ==
  [p \in DOMAIN links |->
     IF p \in partners THEN [links[p] EXCEPT !.asPartner = @ \cup {xref}] ELSE links[p]]

\* buildUnionFamilies, one union.  One whose members are all deleted is left out.
WriteUnion ==
  /\ unionsLeft # <<>>
  /\ LET u == Head(unionsLeft)
         members == tree.members[u] \cap tree.active
         pairs == PartnerPairs(Sorted(members))
         xref(i) == <<"union", u, i>>
     IN /\ families' = families \o [i \in DOMAIN pairs |-> Family(xref(i), pairs[i])]
        /\ links' = [p \in DOMAIN links |->
             [links[p] EXCEPT
                !.asPartner = @ \cup {xref(i) : i \in {j \in DOMAIN pairs : p \in pairs[j]}}]]
  /\ unionsLeft' = Tail(unionsLeft)
  /\ UNCHANGED <<tree, chunksLeft>>

\* A plausible bug, never used here: a record that has the child already is taken again.
MatchingFamilyAgain(chunk) ==
  {i \in DOMAIN families : families[i].partners = chunk.parents}

\* matchingFamily: the records with exactly these partners that do not have the child yet.
MatchingFamily(chunk) ==
  {i \in DOMAIN families : /\ families[i].partners = chunk.parents
                           /\ chunk.child \notin DOMAIN families[i].childLinks}

\* The record i gets the child.
Place(chunk, records, people, i) ==
  LET xref == records[i].xref
  IN /\ families' = [records EXCEPT
          ![i].children = Append(@, chunk.child),
          ![i].childLinks = Put(@, chunk.child, chunk.type)]
     /\ links' = [people EXCEPT ![chunk.child].asChild = Put(@, xref, chunk.type)]
     /\ chunksLeft' = Tail(chunksLeft)
     /\ UNCHANGED <<tree, unionsLeft>>

\* addParentChildFamilies, in a record there is: the first that matches.
PlaceInFamily ==
  /\ unionsLeft = <<>> /\ chunksLeft # <<>>
  /\ LET found == MatchingFamily(Head(chunksLeft))
     IN found # {} /\ Place(Head(chunksLeft), families, links, Min(found))

\* The same, in a record of its own.
PlaceInNewFamily ==
  /\ unionsLeft = <<>> /\ chunksLeft # <<>>
  /\ LET chunk == Head(chunksLeft)
         xref == <<"relation", chunk.child, chunk.type, chunk.index, chunk.parents>>
     IN /\ MatchingFamily(chunk) = {}
        /\ Place(chunk, Append(families, Family(xref, chunk.parents)),
                 Linked(chunk.parents, xref), Len(families) + 1)

Next == WriteUnion \/ PlaceInFamily \/ PlaceInNewFamily

Spec == Init /\ [][Next]_vars

----------------------------------------------------------------------------
(* Properties *)

\* What a reader of the file learns of parents: every partner of a record with every child of it.
Read ==
  UNION {{[parent |-> p, child |-> c, type |-> f.childLinks[c]] :
            p \in f.partners, c \in DOMAIN f.childLinks} : f \in ToSet(families)}

\* The file says of every relation of active persons that it is there, with its type, and no other:
\* a partner of a parent never becomes a parent by sharing a record.
RelationsExact == Read = Active(tree)

\* FAM and INDI records point at each other, and no child is written twice in a record.
PointersMutual ==
  /\ \A f \in ToSet(families) :
       /\ Len(f.children) = Cardinality(DOMAIN f.childLinks)
       /\ \A p \in tree.active : p \in f.partners <=> f.xref \in links[p].asPartner
       /\ \A p \in tree.active : p \in DOMAIN f.childLinks <=> f.xref \in DOMAIN links[p].asChild
       /\ \A c \in DOMAIN f.childLinks : links[c].asChild[f.xref] = f.childLinks[c]
  /\ Cardinality({f.xref : f \in ToSet(families)}) = Len(families)

\* The partners of a union are there, two to a record at most, also when some were deleted.
UnionsKept ==
  /\ \A f \in ToSet(families) : Cardinality(f.partners) \in 1 .. 2
  /\ \A u \in Unions :
       UNION {f.partners : f \in {g \in ToSet(families) : g.xref[1] = "union" /\ g.xref[2] = u}}
         = tree.members[u] \cap tree.active

\* The export is the active tree, whatever unions, types of relation and siblings share records
\* (docs/GEDCOM_EXPORT.md: a record is used again only for exactly the same parents).
ExportsActiveTree ==
  unionsLeft = <<>> /\ chunksLeft = <<>> => RelationsExact /\ PointersMutual /\ UnionsKept
=============================================================================
