--------------------------- MODULE VersionedRows ---------------------------
(***************************************************************************)
(* A family tree and the rows kept in it (persons, relations, media), with *)
(* the optimistic concurrency control that the features share: a request   *)
(* reads the row, compares the version that its client names, and writes   *)
(* WHERE the version is still that one.  Nothing is locked between the two *)
(* statements, nor between the check that the tree may be edited and the   *)
(* write it allows.                                                        *)
(*                                                                         *)
(* The content of a field is the version at which it was last written.     *)
(* The aside field is the primary file of a person, 0 for none, or how far *)
(* the processing of a file has come, 0 while its upload is awaited.       *)
(***************************************************************************)
EXTENDS Naturals, Sequences, FiniteSets

CONSTANTS Row,           \* a row of the tree: a person, a relation or a file
          Tree,          \* the row of the tree itself
          Fields,        \* fields a request may name
          Aside,         \* the field that the other features write
          Nothing,       \* no row
          Clients,
          MaxVersion     \* bound: versions of a row

RowsAssumption ==
  /\ Row # Tree /\ Nothing \notin {Row, Tree}
  /\ Aside \notin Fields
  /\ IsFiniteSet(Clients) /\ Clients # {}
  /\ MaxVersion \in Nat \ {0}

VARIABLES kind,          \* which feature Row belongs to
          row,           \* the tables: version 0 is a row not inserted yet; the cleanup of
                         \* files has deleted or removed a swept one
          audit,         \* audit_log, for each row
          client,        \* each client: what it knows, and its request
          late           \* history variable: edits by clients since the tree was deleted

vars == <<kind, row, audit, client, late>>

----------------------------------------------------------------------------
(* State *)

Objects == {Row, Tree}
Kinds == {"person", "relation", "media"}
Content == [Fields \cup {Aside} -> 0 .. MaxVersion]
Blank == [f \in Fields \cup {Aside} |-> 0]

\* known is what the client was last told of a row; read is what its request has read.
Client == [pc : {"idle", "read", "check", "write"},
           op : {"none", "create", "update", "delete", "restore"},
           on : Objects \cup {Nothing}, named : SUBSET Fields, read : Content,
           known : [on : Objects \cup {Nothing}, version : 0 .. MaxVersion, content : Content]]

TypeOK ==
  /\ kind \in Kinds
  /\ row \in [Objects -> [version : 0 .. MaxVersion, deleted : BOOLEAN, swept : BOOLEAN,
                           content : Content]]
  /\ audit \in [Objects -> Seq([op : {"delete", "restore"}, version : 1 .. MaxVersion])]
  /\ client \in [Clients -> Client]
  /\ late \in Nat

Init ==
  /\ kind \in Kinds
  /\ row = [o \in Objects |->
             [version |-> 0, deleted |-> FALSE, swept |-> FALSE, content |-> Blank]]
  /\ audit = [o \in Objects |-> <<>>]
  /\ client = [c \in Clients |->
                [pc |-> "idle", op |-> "none", on |-> Nothing, named |-> {}, read |-> Blank,
                 known |-> [on |-> Nothing, version |-> 0, content |-> Blank]]]
  /\ late = 0

----------------------------------------------------------------------------
(* Requests *)

At(c, pc) == client[c].pc = pc
Doing(c, op) == client[c].op = op

\* A plausible bug, never used here: the deletion of the tree is not looked at.
TreeLiveAlways == row[Tree].version > 0

\* The tree as readableTree, editableTree and requireEditableTree see it.
TreeLive == row[Tree].version > 0 /\ ~ row[Tree].deleted

Ended(c) ==
  [client[c] EXCEPT !.pc = "idle", !.op = "none", !.on = Nothing, !.named = {}, !.read = Blank]

\* Access denied, not found, a conflict, or a request that breaks off: rolled back.
Fail(c) ==
  /\ client' = [client EXCEPT ![c] = Ended(c)]
  /\ UNCHANGED <<kind, row, audit, late>>

Goto(c, pc) ==
  /\ client' = [client EXCEPT ![c].pc = pc]
  /\ UNCHANGED <<kind, row, audit, late>>

\* The tree itself, or a row of the given feature.
Concerns(c, k) == IF k = "tree" THEN client[c].on = Tree ELSE client[c].on = Row /\ kind = k

\* GetAccessible of a tree, one statement.
Get(c, o) ==
  /\ At(c, "idle")
  /\ row[o].version > 0 /\ ~ row[o].deleted
  /\ client' = [client EXCEPT ![c].known = [on |-> o, version |-> row[o].version,
                                            content |-> row[o].content]]
  /\ UNCHANGED <<kind, row, audit, late>>

GetTree(c) == Get(c, Tree)

\* GetAccessible of the other features joins the tree, which must not be deleted.
GetPerson(c) == kind = "person" /\ TreeLive /\ Get(c, Row)
GetRelation(c) == kind = "relation" /\ TreeLive /\ Get(c, Row)
GetMedia(c) == kind = "media" /\ TreeLive /\ Get(c, Row)

\* Identifiers are fresh, so nobody else creates the same row.
BeginCreate(c, o, pc) ==
  /\ At(c, "idle")
  /\ row[o].version = 0
  /\ \A d \in Clients : ~ (Doing(d, "create") /\ client[d].on = o)
  /\ client' = [client EXCEPT ![c].op = "create", ![c].on = o, ![c].pc = pc]
  /\ UNCHANGED <<kind, row, audit, late>>

BeginCreateTree(c) == BeginCreate(c, Tree, "write")
BeginCreateRow(c) == TreeLive /\ BeginCreate(c, Row, "check")

\* A client asks for a change of the row it knows, and names the version it knows.
Begin(c, op, named) ==
  /\ At(c, "idle")
  /\ client[c].known.on # Nothing
  /\ client' = [client EXCEPT ![c].op = op, ![c].on = client[c].known.on,
                              ![c].named = named, ![c].pc = "read"]
  /\ UNCHANGED <<kind, row, audit, late>>

BeginUpdate(c) == \E named \in SUBSET Fields \ {{}} : Begin(c, "update", named)
BeginDelete(c) == Begin(c, "delete", {})

\* Relations and files are not restored.
BeginRestore(c) ==
  /\ client[c].known.on = Row => kind = "person"
  /\ Begin(c, "restore", {})

\* What the service reads before it calls the repository, and the comparison of the versions in
\* ApplyUpdate, Delete and Restore.
Read(c, found, pc) ==
  LET r == row[client[c].on]
  IN /\ At(c, "read")
     /\ IF found /\ r.deleted = Doing(c, "restore") /\ r.version = client[c].known.version
        THEN /\ client' = [client EXCEPT ![c].read = r.content, ![c].pc = pc]
             /\ UNCHANGED <<kind, row, audit, late>>
        ELSE Fail(c)

ReadTree(c) == Concerns(c, "tree") /\ Read(c, TRUE, "write")
ReadPerson(c) == Concerns(c, "person") /\ Read(c, TreeLive, "check")
ReadRelation(c) == Concerns(c, "relation") /\ Read(c, TreeLive, "check")
ReadMedia(c) == Concerns(c, "media") /\ Read(c, TreeLive, "check")

\* requireEditableTree, in the transaction of the write.
CheckTree(c) ==
  /\ At(c, "check")
  /\ IF TreeLive THEN Goto(c, "write") ELSE Fail(c)

\* The conditional UPDATE of a request: it changes no row unless this holds.
Matches(c) ==
  LET r == row[client[c].on]
  IN r.version = client[c].known.version /\ r.deleted = Doing(c, "restore")

\* A commit that makes r of the row.  The client is told told, or its answer is lost.
Commit(c, r, told) ==
  LET o == client[c].on
  IN /\ row' = [row EXCEPT ![o] = r]
     /\ late' = IF o = Tree THEN 0 ELSE IF row[Tree].deleted THEN late + 1 ELSE late
     /\ \E answered \in BOOLEAN :
          client' = [client EXCEPT ![c] =
            IF answered
            THEN [Ended(c) EXCEPT !.known = [on |-> o, version |-> r.version, content |-> told]]
            ELSE Ended(c)]
     /\ UNCHANGED kind

Create(c) ==
  /\ At(c, "write") /\ Doing(c, "create")
  /\ LET content == [f \in DOMAIN Blank |-> IF f = Aside THEN 0 ELSE 1]
     IN Commit(c, [version |-> 1, deleted |-> FALSE, swept |-> FALSE, content |-> content], content)
  /\ UNCHANGED audit

CreateTree(c) == Concerns(c, "tree") /\ Create(c)
CreatePerson(c) == Concerns(c, "person") /\ Create(c)
CreateRelation(c) == Concerns(c, "relation") /\ Create(c)
CreateMedia(c) == Concerns(c, "media") /\ Create(c)

\* UpdateOwned, UpdateEditable: all the fields of the row that was read, with the named ones
\* changed; the aside field is not among the columns.  The answer is the merged row.
UpdateRow(c) ==
  LET o == client[c].on
      v == row[o].version + 1
      merged == [f \in DOMAIN Blank |-> IF f \in client[c].named THEN v ELSE client[c].read[f]]
  IN /\ At(c, "write") /\ Doing(c, "update")
     /\ IF Matches(c)
        THEN /\ row[o].version < MaxVersion
             /\ Commit(c, [row[o] EXCEPT !.version = v,
                             !.content = [merged EXCEPT ![Aside] = row[o].content[Aside]]], merged)
             /\ UNCHANGED audit
        ELSE Fail(c)

UpdateTree(c) == Concerns(c, "tree") /\ UpdateRow(c)
UpdatePerson(c) == Concerns(c, "person") /\ UpdateRow(c)
UpdateMedia(c) == Concerns(c, "media") /\ UpdateRow(c)

\* It matches no row either when a person of the relation is deleted.
UpdateRelation(c) ==
  /\ Concerns(c, "relation")
  /\ UpdateRow(c) \/ (At(c, "write") /\ Doing(c, "update") /\ Fail(c))

\* A plausible bug, never used here: the audit record is written in a transaction of its own.
RecordedAlways(c, matched) ==
  [audit EXCEPT ![client[c].on] =
     Append(@, [op |-> client[c].op, version |-> row[client[c].on].version])]

\* The audit record is written in the transaction of the change.
Recorded(c, matched) ==
  IF matched THEN [audit EXCEPT ![client[c].on] =
                     Append(@, [op |-> client[c].op, version |-> row[client[c].on].version])]
             ELSE audit

\* mutateDeletion: the deletion or the restore, in place, and its audit record.  A client that is
\* told no more than that it happened counts the version on.
MutateDeletion(c) ==
  LET o == client[c].on
      r == row[o]
  IN /\ At(c, "write") /\ client[c].op \in {"delete", "restore"}
     /\ IF Matches(c)
        THEN /\ r.version < MaxVersion
             /\ Commit(c, [r EXCEPT !.version = @ + 1, !.deleted = Doing(c, "delete")],
                       client[c].read)
        ELSE /\ client' = [client EXCEPT ![c] = Ended(c)]
             /\ UNCHANGED <<kind, row, late>>
     /\ audit' = Recorded(c, Matches(c))

MutateTree(c) == Concerns(c, "tree") /\ MutateDeletion(c)
MutatePerson(c) == Concerns(c, "person") /\ MutateDeletion(c)
DeleteRelation(c) == Concerns(c, "relation") /\ MutateDeletion(c)
DeleteMedia(c) == Concerns(c, "media") /\ MutateDeletion(c)

Abort(c) == ~ At(c, "idle") /\ Fail(c)

----------------------------------------------------------------------------
(* The other features *)

\* A plausible bug, never used here: a change of the aside field keeps the version.
StampKept(r) == r.version

\* The version after a write of another feature.
Stamp(r) == r.version + 1

\* The aside field and the version change in place.  The requests that do it are not followed
\* here: those of SetPrimaryPersonMediaEditable and CompleteUploadEditable compare a version too,
\* the others do not.
WriteAside(content) ==
  /\ row[Row].version \in 1 .. MaxVersion - 1
  /\ row' = [row EXCEPT ![Row].version = Stamp(row[Row]), ![Row].content[Aside] = content]
  /\ UNCHANGED <<kind, audit, client, late>>

\* A primary file is chosen.
SetPrimaryMedia ==
  /\ kind = "person" /\ ~ row[Row].deleted
  /\ WriteAside(row[Row].version + 1)

\* The primary file is deleted, rejected or detached: the first two clear it in the rows of
\* deleted persons as well.
ClearPrimaryMedia ==
  /\ kind = "person" /\ row[Row].content[Aside] # 0
  /\ WriteAside(0)

\* The upload is complete, or the processing moves on.
ProcessMedia ==
  /\ kind = "media" /\ ~ row[Row].deleted
  /\ WriteAside(row[Row].version + 1)

\* The cleanup deletes a file whose upload was never completed, and leaves no audit record.
ReserveCleanupCandidate ==
  /\ kind = "media" /\ ~ row[Row].deleted /\ row[Row].content[Aside] = 0
  /\ row[Row].version \in 1 .. MaxVersion - 1
  /\ row' = [row EXCEPT ![Row].version = Stamp(row[Row]), ![Row].deleted = TRUE,
                         ![Row].swept = TRUE]
  /\ UNCHANGED <<kind, audit, client, late>>

\* It removes the row of a file that is deleted, or processed and rejected.  A row that is gone is
\* found by nobody, as a deleted one that nobody restores.
DeleteCleanupCandidate ==
  /\ kind = "media" /\ row[Row].version > 0
  /\ row[Row].deleted \/ row[Row].content[Aside] # 0
  /\ row' = [row EXCEPT ![Row].deleted = TRUE, ![Row].swept = TRUE]
  /\ UNCHANGED <<kind, audit, client, late>>

\* What happens to a row beside the requests of its own feature.
Beside ==
  \/ SetPrimaryMedia \/ ClearPrimaryMedia \/ ProcessMedia
  \/ ReserveCleanupCandidate \/ DeleteCleanupCandidate

Step(c) ==
  \/ GetTree(c) \/ GetPerson(c) \/ GetRelation(c) \/ GetMedia(c)
  \/ BeginCreateTree(c) \/ BeginCreateRow(c)
  \/ BeginUpdate(c) \/ BeginDelete(c) \/ BeginRestore(c)
  \/ ReadTree(c) \/ ReadPerson(c) \/ ReadRelation(c) \/ ReadMedia(c)
  \/ CheckTree(c)
  \/ CreateTree(c) \/ CreatePerson(c) \/ CreateRelation(c) \/ CreateMedia(c)
  \/ UpdateTree(c) \/ UpdatePerson(c) \/ UpdateRelation(c) \/ UpdateMedia(c)
  \/ MutateTree(c) \/ MutatePerson(c) \/ DeleteRelation(c) \/ DeleteMedia(c)
  \/ Abort(c)

Next == Beside \/ \E c \in Clients : Step(c)

Spec == Init /\ [][Next]_vars

----------------------------------------------------------------------------
(* Properties *)

\* No lost update: whoever changes a row knew all of its content, also what other features had
\* written, although the row is not locked between the statement that reads it and the one that
\* writes it back (UpdateEditable and mutateDeletion of trees, persons, relations and media).
NoLostUpdate ==
  [][\A c \in Clients :
       (UpdateRow(c) \/ MutateDeletion(c)) /\ row' # row =>
          client[c].known.content = row[client[c].on].content]_vars

\* The audit log tells whether a row is deleted, its records alternate and are in the order of
\* the versions, whatever request failed, was repeated or raced with another.  The one deletion it
\* does not tell is that of a file by the cleanup; what it does tell, the cleanup does not undo.
AuditTellsDeletions ==
  \A o \in Objects :
    LET a == audit[o]
        told == a # <<>> /\ a[Len(a)].op = "delete"
    IN /\ told => row[o].deleted
       /\ row[o].deleted => told \/ (o = Row /\ kind = "media" /\ row[o].swept)
       /\ \A i \in 1 .. Len(a) - 1 : a[i].op # a[i + 1].op /\ a[i].version < a[i + 1].version

\* The check that a tree may be edited takes no lock, so rows of a deleted tree do change; but each
\* request in progress at the deletion changes one at most, and no later request does.
LateEditsBounded == late < Cardinality(Clients)
=============================================================================
