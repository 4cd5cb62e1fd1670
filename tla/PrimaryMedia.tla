---------------------------- MODULE PrimaryMedia ----------------------------
(***************************************************************************)
(* Attaching files to persons, and the primary file of a person: the       *)
(* transactions of the media and persons repositories on the rows of       *)
(* media_assets, persons and person_media, with the row locks their        *)
(* statements take.                                                        *)
(*                                                                         *)
(* A transaction runs at READ COMMITTED: each statement finds rows in what *)
(* is committed when it starts, waits for the lock of each, and looks at   *)
(* the row again when it has it.  No statement reads what its own          *)
(* transaction has written, so writes are made at the commit.              *)
(*                                                                         *)
(* Only processed files (status ready) can be attached, so the life of a   *)
(* file starts here when it is ready.  Version numbers and access rights   *)
(* are left out: they can only make a transaction fail, as Abort does.     *)
(***************************************************************************)
EXTENDS Integers, Sequences

CONSTANTS
  Persons, Media,
  None,
  Txs               \* connections, each with at most one transaction

\* A row is named by its key: a person, a file, or the pair of an attachment.
Links == Persons \X Media
Rows == Persons \cup Media \cup Links

ASSUME RowsDiffer ==
  /\ Persons \cap Media = {} /\ Persons \cap Links = {} /\ Media \cap Links = {}
  /\ None \notin Rows

VARIABLES
  status,           \* media_assets.status
  live,             \* the persons with deleted_at NULL
  primary,          \* persons.primary_media_id
  links,            \* the rows of person_media
  tx                \* the transactions in flight

vars == <<status, live, primary, links, tx>>

Ops == {"attach", "detach", "setPrimary", "deleteMedia", "removeMedia",
        "deletePerson", "restorePerson"}

\* Mutant of Deletion: the persons first.
DeletionPersonsFirst == <<"clearPrimaries", "deleteMedia">>

\* SoftDeleteEditable: the file first, then the persons whose primary file it is.
Deletion == <<"deleteMedia", "clearPrimaries">>

\* The statements of each operation, in order.  SetPrimaryPersonMediaEditable has one
\* SELECT ... FOR SHARE OF pm, a, p, which locks the three rows one after another.
\* A DELETE of a file is followed by the cascade on its attachments.
Script ==
  [attach        |-> <<"shareMedia", "sharePerson", "insertLink">>,
   detach        |-> <<"sharePerson", "deleteLink", "clearPrimary">>,
   setPrimary    |-> <<"shareLink", "shareMedia", "sharePerson", "updatePerson">>,
   deleteMedia   |-> Deletion,
   removeMedia   |-> <<"removeMedia", "cascade">>,
   deletePerson  |-> <<"updatePerson">>,
   restorePerson |-> <<"restorePerson">>]

Statements == {"shareMedia", "sharePerson", "shareLink", "insertLink", "deleteLink",
               "clearPrimary", "clearPrimaries", "updatePerson", "restorePerson",
               "deleteMedia", "removeMedia", "cascade"}

\* Mutant of Sharing: Attach checks the status with a plain SELECT, which takes no lock.
SharingPersonsOnly == {"sharePerson", "shareLink"}

\* SELECT ... FOR SHARE
Sharing == {"shareMedia", "sharePerson", "shareLink"}

\* INSERT, UPDATE, DELETE
Writing == Statements \ {"shareMedia", "sharePerson", "shareLink"}

\* Statements that may match no row; a transaction gives up when another matches none.
Optional == {"clearPrimary", "clearPrimaries", "cascade"}

\* at: the statement to run next; running: it has found its rows; wait: those it has not
\* locked yet; share, own: the locks held.
Tx == [op : Ops \cup {"none"}, p : Persons \cup {None}, m : Media \cup {None},
       at : 1 .. 5, running : BOOLEAN, wait : SUBSET Rows,
       share : SUBSET Rows, own : SUBSET Rows]

Idle == [op |-> "none", p |-> None, m |-> None, at |-> 1, running |-> FALSE,
         wait |-> {}, share |-> {}, own |-> {}]

Init ==
  /\ status = [m \in Media |-> "ready"]
  /\ live = Persons
  /\ primary = [p \in Persons |-> None]
  /\ links = {}
  /\ tx = [t \in Txs |-> Idle]

Data == <<status, live, primary, links>>

-----------------------------------------------------------------------------
(* Statements and locks. *)

Active(t) == tx[t].op # "none"

Finished(t) == Active(t) /\ tx[t].at > Len(Script[tx[t].op])

Statement(t) == Script[tx[t].op][tx[t].at]

\* The WHERE clause of statement s of a transaction about p and m, for row r.  An INSERT
\* "finds" the key it is about to insert when there is no such row.
Matches(s, p, m, r) ==
  \/ s \in {"shareMedia", "deleteMedia"} /\ r = m /\ status[r] = "ready"
  \/ s = "removeMedia" /\ r = m /\ status[r] = "deleted"
  \/ s \in {"sharePerson", "updatePerson"} /\ r = p /\ r \in live
  \/ s = "restorePerson" /\ r = p /\ r \notin live
  \/ s = "clearPrimary" /\ r = p /\ r \in live /\ primary[r] = m
  \/ s = "clearPrimaries" /\ r \in Persons /\ primary[r] = m
  \/ s \in {"shareLink", "deleteLink"} /\ r = <<p, m>> /\ r \in links
  \/ s = "insertLink" /\ r = <<p, m>> /\ r \notin links
  \/ s = "cascade" /\ r \in links /\ r[2] = m

\* SetPrimary's SELECT joins the three rows: it finds none of them unless all are there.
Joined(t) ==
  Statement(t) = "shareLink" => status[tx[t].m] = "ready" /\ tx[t].p \in live

Met(t, r) == Matches(Statement(t), tx[t].p, tx[t].m, r)

\* A share lock and a write exclude each other, two writes too.  An INSERT meets only
\* those who wrote its key: a row that is merely locked is there, and the INSERT fails.
Blocks(u, t, r) ==
  /\ u # t
  /\ \/ r \in tx[u].own /\ Statement(t) \in Sharing \cup Writing
     \/ r \in tx[u].share /\ Statement(t) \in Writing \ {"insertLink"}

Locked(t, r) ==
  [tx[t] EXCEPT !.wait = @ \ {r},
                !.share = IF Statement(t) \in Sharing THEN @ \cup {r} ELSE @,
                !.own = IF Statement(t) \in Writing THEN @ \cup {r} ELSE @]

\* The transaction goes on to its next statement when it waits for no row.
Advance(x) ==
  IF x.wait = {} THEN [x EXCEPT !.at = @ + 1, !.running = FALSE]
                 ELSE [x EXCEPT !.running = TRUE]

\* COMMIT and ROLLBACK release the locks.
End(t) == tx' = [tx EXCEPT ![t] = Idle]

Begin(t) ==
  /\ ~Active(t)
  /\ \E op \in Ops,
        p \in Persons \cup {None}, m \in Media \cup {None} :
       /\ (p = None) <=> op \in {"deleteMedia", "removeMedia"}
       /\ (m = None) <=> op \in {"deletePerson", "restorePerson"}
       /\ tx' = [tx EXCEPT ![t] = [Idle EXCEPT !.op = op, !.p = p, !.m = m]]
  /\ UNCHANGED Data

\* A statement starts: it finds its rows in what is committed.
Find(t) ==
  /\ Active(t) /\ ~Finished(t) /\ ~tx[t].running
  /\ LET found == {r \in Rows : Met(t, r) /\ Joined(t)}
     IN  IF found = {} /\ Statement(t) \notin Optional
           THEN End(t)
           ELSE tx' = [tx EXCEPT ![t] = Advance([tx[t] EXCEPT !.wait = found])]
  /\ UNCHANGED Data

\* It gets a lock, and looks at the row as it is now.
Lock(t) ==
  /\ Active(t) /\ tx[t].running
  /\ \E r \in tx[t].wait :
       /\ \A u \in Txs : ~Blocks(u, t, r)
       /\ IF Met(t, r)
            THEN tx' = [tx EXCEPT ![t] = Advance(Locked(t, r))]
            ELSE IF Statement(t) \in Optional
                   THEN tx' = [tx EXCEPT ![t] = Advance([tx[t] EXCEPT !.wait = @ \ {r}])]
                   ELSE End(t)
  /\ UNCHANGED Data

\* A failed statement, a stale version, a cancelled request, the deadlock detector.
Abort(t) ==
  /\ Active(t)
  /\ End(t)
  /\ UNCHANGED Data

-----------------------------------------------------------------------------
(* Commits.  A transaction writes the rows it owns. *)

Commits(t, op) == Finished(t) /\ tx[t].op = op /\ End(t)

Cleared(t) == [p \in Persons |-> IF p \in tx[t].own THEN None ELSE primary[p]]

Attach(t) ==
  /\ Commits(t, "attach")
  /\ links' = links \cup {<<tx[t].p, tx[t].m>>}
  /\ UNCHANGED <<status, live, primary>>

Detach(t) ==
  /\ Commits(t, "detach")
  /\ links' = links \ {<<tx[t].p, tx[t].m>>}
  /\ primary' = Cleared(t)
  /\ UNCHANGED <<status, live>>

SetPrimary(t) ==
  /\ Commits(t, "setPrimary")
  /\ primary' = [primary EXCEPT ![tx[t].p] = tx[t].m]
  /\ UNCHANGED <<status, live, links>>

DeleteMedia(t) ==
  /\ Commits(t, "deleteMedia")
  /\ status' = [status EXCEPT ![tx[t].m] = "deleted"]
  /\ primary' = Cleared(t)
  /\ UNCHANGED <<live, links>>

\* The foreign key persons_primary_media_fk refuses to remove a person's primary file.
RemoveMedia(t) ==
  /\ \A p \in Persons : primary[p] # tx[t].m
  /\ Commits(t, "removeMedia")
  /\ status' = [status EXCEPT ![tx[t].m] = "gone"]
  /\ links' = links \ tx[t].own
  /\ UNCHANGED <<live, primary>>

DeletePerson(t) ==
  /\ Commits(t, "deletePerson")
  /\ live' = live \ {tx[t].p}
  /\ UNCHANGED <<status, primary, links>>

RestorePerson(t) ==
  /\ Commits(t, "restorePerson")
  /\ live' = live \cup {tx[t].p}
  /\ UNCHANGED <<status, primary, links>>

Next ==
  \E t \in Txs :
    \/ Begin(t) \/ Find(t) \/ Lock(t) \/ Abort(t)
    \/ Attach(t) \/ Detach(t) \/ SetPrimary(t)
    \/ DeleteMedia(t) \/ RemoveMedia(t)
    \/ DeletePerson(t) \/ RestorePerson(t)

Spec == Init /\ [][Next]_vars

-----------------------------------------------------------------------------
(* Properties. *)

\* The rows and the transactions are well formed, and a connection without a
\* transaction holds no lock.
TypeOK ==
  /\ status \in [Media -> {"ready", "deleted", "gone"}]
  /\ live \subseteq Persons
  /\ primary \in [Persons -> Media \cup {None}]
  /\ links \subseteq Links
  /\ tx \in [Txs -> Tx]
  /\ \A t \in Txs : ~Active(t) => tx[t] = Idle

\* The primary file of a person, deleted persons included, is attached to the person
\* and has not been deleted: what Detach and SoftDeleteEditable clear in a second
\* statement, and SetPrimary checks before it writes, never comes apart.  With it the
\* foreign key never keeps the cleanup from removing a deleted file.
PrimaryIsAttachedAndReady ==
  \A p \in Persons :
    primary[p] # None => status[primary[p]] = "ready" /\ <<p, primary[p]>> \in links

\* The transactions that lock the person FOR SHARE and may write it later.
Upgrades(t) == tx[t].op \in {"setPrimary", "detach"}

WaitsFor(t, u) == Active(t) /\ \E r \in tx[t].wait : Blocks(u, t, r)

\* Transactions block each other in a circle only around a SetPrimary or a Detach, which
\* turn a share lock into a write and meet the attachment in opposite orders.  All others
\* take file, person and attachment in one order, and wait for each other in no circle.
DeadlocksNeedUpgrade ==
  \A C \in SUBSET {t \in Txs : ~Upgrades(t)} :
    C # {} => \E t \in C : \A u \in C : ~WaitsFor(t, u)

Atomic == INSTANCE PersonMedia

\* The transactions are as good as the indivisible operations of PersonMedia: what a
\* statement found is still so when the transaction commits.
ImplementsPersonMedia == Atomic!Spec
=============================================================================
