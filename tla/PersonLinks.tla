---------------------------- MODULE PersonLinks ----------------------------
(***************************************************************************)
(* What persons are linked to: a behaviour follows the files of persons    *)
(* (PrimaryMedia) or their relations (FamilyGraph).  Both are transactions *)
(* that read, lock and write beside deletions and restorations of persons, *)
(* on tables they do not share, so one idles while the other moves.        *)
(***************************************************************************)
EXTENDS PrimaryMedia

CONSTANTS Relatives, Types, Editors

VARIABLES followed, person, relations, editor, restored

G == INSTANCE FamilyGraph WITH Persons <- Relatives

graphVars == <<person, relations, editor, restored>>

LinksInit == followed \in {"files", "relations"} /\ Init /\ G!Init

LinksNext ==
  \/ followed = "files" /\ Next /\ UNCHANGED <<followed, graphVars>>
  \/ followed = "relations" /\ G!Next /\ UNCHANGED <<followed, vars>>

LinksSpec == LinksInit /\ [][LinksNext]_<<followed, vars, graphVars>>

\* Cycles of live persons: see CyclesPassThroughRestored there.
CyclesPassThroughRestored == G!CyclesPassThroughRestored
=============================================================================
