----------------------------- MODULE PersonList -----------------------------
(***************************************************************************)
(* Paging through the persons of a tree by name (List of the persons       *)
(* service, ListAccessible of its repository): each page is a request of   *)
(* its own that starts after the cursor of the one before, while persons   *)
(* are created, renamed, deleted and restored.                             *)
(***************************************************************************)
EXTENDS Integers, Sequences, FiniteSets, SequencesExt

CONSTANTS Persons,       \* identifiers, in the order of the second sort key
          Names,         \* full texts of the preferred names, in their order
          Limits,        \* page lengths a client may ask for
          MaxWrites      \* bound: changes of persons

PersonListAssumption ==
  /\ Persons \subseteq Nat /\ IsFiniteSet(Persons)
  /\ Names \subseteq Nat \ {0} /\ IsFiniteSet(Names)
  /\ Limits \subseteq Nat \ {0} /\ MaxWrites \in Nat

VARIABLES name,          \* the preferred name of each person
          active,        \* persons that are created and not deleted
          limit,         \* the client's page length
          cursor,        \* NextCursor of its last page: the start, a key, or the end
          shown,         \* the persons of its pages, in order
          writes,
          touched        \* history variable: persons written since the first page was read

vars == <<name, active, limit, cursor, shown, writes, touched>>

----------------------------------------------------------------------------
\* An empty cursor asks for the first page, a missing one ends the list; a key is a name and an
\* identifier, both never zero.
Key(p) == <<name[p], p>>
AtStart == <<0, 0>>
AtEnd == <<>>

Before(k, l) == k[1] < l[1] \/ (k[1] = l[1] /\ k[2] < l[2])

Init ==
  /\ name \in [Persons -> Names]
  /\ active \in SUBSET Persons
  /\ limit \in Limits
  /\ cursor = AtStart
  /\ shown = <<>>
  /\ writes = 0
  /\ touched = {}

\* The WHERE and ORDER BY of ListAccessible, before LIMIT.
Matching == {p \in active : Before(cursor, Key(p))}
Following ==
  CHOOSE s \in SetToSeqs(Matching) :
    \A i, j \in DOMAIN s : i < j => Before(Key(s[i]), Key(s[j]))

\* limit + 1 rows are read, to know whether another page follows.
Rows == SubSeq(Following, 1, IF Len(Following) < limit + 1 THEN Len(Following) ELSE limit + 1)
Page == SubSeq(Rows, 1, IF Len(Rows) < limit THEN Len(Rows) ELSE limit)

\* A plausible bug, never used here: the cursor is the row that was read to look ahead.
NextCursorAhead == IF Len(Rows) > limit THEN Key(Last(Rows)) ELSE AtEnd

NextCursor == IF Len(Rows) > limit THEN Key(Last(Page)) ELSE AtEnd

\* One request: one statement.
List ==
  /\ cursor # AtEnd
  /\ shown' = shown \o Page
  /\ cursor' = NextCursor
  /\ UNCHANGED <<name, active, limit, writes, touched>>

Write(p) ==
  /\ cursor \notin {AtStart, AtEnd} /\ writes < MaxWrites
  /\ writes' = writes + 1
  /\ touched' = touched \cup {p}
  /\ UNCHANGED <<limit, cursor, shown>>

Rename(p) ==
  /\ p \in active
  /\ \E n \in Names \ {name[p]} : name' = [name EXCEPT ![p] = n]
  /\ UNCHANGED active
  /\ Write(p)

\* A person is created or restored, or deleted.
Appear(p) == p \notin active /\ active' = active \cup {p} /\ UNCHANGED name /\ Write(p)
Vanish(p) == p \in active /\ active' = active \ {p} /\ UNCHANGED name /\ Write(p)

Next == List \/ \E p \in Persons : Rename(p) \/ Appear(p) \/ Vanish(p)

Spec == Init /\ [][Next]_vars

----------------------------------------------------------------------------
(* Properties *)

Times(p) == Cardinality({i \in DOMAIN shown : shown[i] = p})

\* Whoever is not written while a client pages through the list is on exactly one page if active
\* and on none if not, whatever happens to the others, the person the cursor names included.
UntouchedShownOnce ==
  cursor = AtEnd => \A p \in Persons \ touched : Times(p) = IF p \in active THEN 1 ELSE 0
=============================================================================
