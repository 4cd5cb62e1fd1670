------------------------------ MODULE Records ------------------------------
(***************************************************************************)
(* The records of a tree: a behaviour follows the union (FamilyUnion) or   *)
(* the tree and another row (VersionedRows).  Nothing is shared by the two *)
(* but the scheme of the versions, so one idles while the other moves.     *)
(***************************************************************************)
EXTENDS FamilyUnion

CONSTANTS Row, Tree, Fields, Aside, Nothing, MaxRowVersion

VARIABLES followed, kind, row, audit, reader, late

R == INSTANCE VersionedRows WITH MaxVersion <- MaxRowVersion, client <- reader

ASSUME R!RowsAssumption

rowVars == <<kind, row, audit, reader, late>>

RowsIdle == R!Init /\ kind = "person"

RecordsInit ==
  /\ Init
  /\ \/ followed = "union" /\ RowsIdle
     \/ followed = "rows" /\ R!Init

RecordsNext ==
  \/ followed = "union" /\ Next /\ UNCHANGED <<followed, rowVars>>
  \/ followed = "rows" /\ R!Next /\ UNCHANGED <<followed, vars>>

RecordsSpec == RecordsInit /\ [][RecordsNext]_<<followed, vars, rowVars>>

\* Updates and deletions of trees, persons, relations and files: see NoLostUpdate there.
NoLostUpdate == R!NoLostUpdate

\* The audit records of deletions and restores: see AuditTellsDeletions there.
AuditTellsDeletions == R!AuditTellsDeletions

\* Edits of a tree that was deleted meanwhile: see LateEditsBounded there.
LateEditsBounded == R!LateEditsBounded
=============================================================================
