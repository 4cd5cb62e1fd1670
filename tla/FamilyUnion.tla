---------------------------- MODULE FamilyUnion ----------------------------
(***************************************************************************)
(* One union of the family and the requests that read and change it        *)
(* (internal/features/unions).  A request is a few statements at READ      *)
(* COMMITTED; only adding and removing a member lock the row of the union, *)
(* and only update and delete compare its version.  Persons are deleted    *)
(* and restored beside it.                                                 *)
(***************************************************************************)
EXTENDS Integers, FiniteSets

CONSTANTS Persons,       \* persons of the tree
          Clients,       \* requests in progress at a time
          NoClient,      \* nobody holds the row lock
          MinMembers, MaxMembers,
          MaxVersion,    \* bound: versions of the union
          MaxDeleted     \* bound: persons deleted at a time

ASSUME UnionAssumption ==
  /\ IsFiniteSet(Persons)
  /\ NoClient \notin Clients
  /\ MinMembers \in Nat /\ MaxMembers \in Nat /\ MinMembers <= MaxMembers
  /\ MaxVersion \in Nat \ {0} /\ MaxDeleted \in Nat

VARIABLES active,        \* persons whose deleted_at is null
          union,         \* the row and its union_members
          holder,        \* who has locked the row FOR UPDATE
          client,        \* the request each client has in progress, and what it knows
          history        \* history variable: the members each version had

vars == <<active, union, holder, client, history>>

----------------------------------------------------------------------------
(* State *)

\* An aggregate as a client or a request sees it: a version and its members.
View == [version : 0 .. MaxVersion, members : SUBSET Persons]
Unseen == [version |-> 0, members |-> {}]

Union == [status : {"absent", "active", "deleted"},
          version : 0 .. MaxVersion, members : SUBSET Persons]

\* pc is the next statement; known is the last aggregate the client was given, written
\* tells whether it came with the answer to a change.
Request == [pc : {"idle", "union", "members", "write", "lock", "persons", "count", "insert"},
            op : {"none", "create", "get", "update", "delete", "add", "remove"},
            arg : SUBSET Persons, seen : View, known : View, written : BOOLEAN]

TypeOK ==
  /\ active \subseteq Persons
  /\ union \in Union
  /\ holder \in Clients \cup {NoClient}
  /\ client \in [Clients -> Request]
  /\ history \in [1 .. MaxVersion -> SUBSET Persons]

Init ==
  /\ active = Persons
  /\ union = [status |-> "absent", version |-> 0, members |-> {}]
  /\ holder = NoClient
  /\ client = [c \in Clients |-> [pc |-> "idle", op |-> "none", arg |-> {}, seen |-> Unseen,
                                  known |-> Unseen, written |-> FALSE]]
  /\ history = [v \in 1 .. MaxVersion |-> {}]

----------------------------------------------------------------------------
(* Steps of a request *)

At(c, pc) == client[c].pc = pc
Doing(c, op) == client[c].op = op
Current == [version |-> union.version, members |-> union.members]

Goto(c, pc) == client' = [client EXCEPT ![c].pc = pc]

Ended(c) == [client[c] EXCEPT !.pc = "idle", !.op = "none", !.arg = {}, !.seen = Unseen]
Unlocked(c) == IF holder = c THEN NoClient ELSE holder

\* The request ends without a change: refused, not found, a conflict or a limit.
Fail(c) ==
  /\ client' = [client EXCEPT ![c] = Ended(c)]
  /\ holder' = Unlocked(c)
  /\ UNCHANGED <<active, union, history>>

\* The commit, after which the client is answered with view, unless the answer is lost.
Commit(c, new, view) ==
  /\ union' = new
  /\ history' = [history EXCEPT ![new.version] = new.members]
  /\ holder' = Unlocked(c)
  /\ \E answered \in BOOLEAN :
       client' = [client EXCEPT ![c] =
                   IF answered THEN [Ended(c) EXCEPT !.known = view, !.written = TRUE]
                               ELSE Ended(c)]
  /\ UNCHANGED active

Begin(c, op, arg, pc) ==
  /\ At(c, "idle")
  /\ client' = [client EXCEPT ![c].op = op, ![c].arg = arg, ![c].pc = pc]
  /\ UNCHANGED <<active, union, holder, history>>

\* domain.New accepts two to ten distinct persons.  Identifiers are fresh: two creations make
\* two unions, and this module follows one.
BeginCreate(c) ==
  /\ union.status = "absent" /\ \A d \in Clients : ~ Doing(d, "create")
  /\ \E M \in SUBSET Persons :
       /\ Cardinality(M) \in MinMembers .. MaxMembers
       /\ Begin(c, "create", M, "persons")

BeginGet(c) == union.status # "absent" /\ Begin(c, "get", {}, "union")

\* A client names the version it knows.
BeginUpdate(c) == client[c].known.version > 0 /\ Begin(c, "update", {}, "union")
BeginDelete(c) == client[c].known.version > 0 /\ Begin(c, "delete", {}, "union")

BeginAdd(c) == union.status # "absent" /\ \E p \in Persons : Begin(c, "add", {p}, "lock")
BeginRemove(c) == union.status # "absent" /\ \E p \in Persons : Begin(c, "remove", {p}, "lock")

\* GetAccessible, its first statement: the row.
ReadUnion(c) ==
  /\ At(c, "union")
  /\ IF union.status = "active"
     THEN /\ client' = [client EXCEPT ![c].seen.version = union.version, ![c].pc = "members"]
          /\ UNCHANGED <<active, union, holder, history>>
     ELSE Fail(c)

\* GetAccessible, its second statement: the members, in no transaction with the first.  Get
\* answers; update and delete compare the version of the row with the one the client named.
ReadMembers(c) ==
  /\ At(c, "members")
  /\ LET view == [client[c].seen EXCEPT !.members = union.members]
     IN \/ /\ Doing(c, "get")
           /\ client' = [client EXCEPT ![c] =
                          [Ended(c) EXCEPT !.known = view, !.written = FALSE]]
           /\ UNCHANGED <<active, union, holder, history>>
        \/ /\ ~ Doing(c, "get") /\ client[c].known.version = view.version
           /\ client' = [client EXCEPT ![c].seen = view, ![c].pc = "write"]
           /\ UNCHANGED <<active, union, holder, history>>
        \/ /\ ~ Doing(c, "get") /\ client[c].known.version # view.version
           /\ Fail(c)

\* A plausible bug, never used here: the version is compared in the service only.
MatchesUnversioned(c) == union.status = "active"

\* The WHERE clause of the two conditional updates.
Matches(c) == union.status = "active" /\ union.version = client[c].seen.version

\* UpdateEditable writes the fields and the next version; the answer repeats the members that
\* were read before.
UpdateUnion(c) ==
  /\ At(c, "write") /\ Doing(c, "update") /\ holder = NoClient
  /\ IF Matches(c)
     THEN /\ union.version < MaxVersion
          /\ Commit(c, [union EXCEPT !.version = @ + 1],
                    [client[c].seen EXCEPT !.version = @ + 1])
     ELSE Fail(c)

\* SoftDeleteEditable: the row and an audit record.  Nothing but the status is answered.
DeleteUnion(c) ==
  /\ At(c, "write") /\ Doing(c, "delete") /\ holder = NoClient
  /\ IF Matches(c)
     THEN /\ union.version < MaxVersion
          /\ Commit(c, [union EXCEPT !.status = "deleted", !.version = @ + 1], client[c].known)
     ELSE Fail(c)

\* A plausible bug, never used here: the row is read without FOR UPDATE.
RowFreeUnlocked == TRUE

\* Whether the row lock can be had.
RowFree == holder = NoClient

\* loadUnionForUpdate
LockUnion(c) ==
  /\ At(c, "lock") /\ RowFree
  /\ IF union.status = "active"
     THEN /\ holder' = c
          /\ Goto(c, IF Doing(c, "add") THEN "persons" ELSE "count")
          /\ UNCHANGED <<active, union, history>>
     ELSE Fail(c)

\* requireActivePersons
CheckPersons(c) ==
  /\ At(c, "persons")
  /\ IF client[c].arg \subseteq active
     THEN /\ Goto(c, IF Doing(c, "create") THEN "insert" ELSE "count")
          /\ UNCHANGED <<active, union, holder, history>>
     ELSE Fail(c)

\* Whether another member fits, or one may go.
Allowed(c) ==
  IF Doing(c, "add") THEN Cardinality(union.members) < MaxMembers
                     ELSE /\ client[c].arg \subseteq union.members
                          /\ Cardinality(union.members) > MinMembers

CountMembers(c) ==
  /\ At(c, "count")
  /\ IF Allowed(c)
     THEN Goto(c, "insert") /\ UNCHANGED <<active, union, holder, history>>
     ELSE Fail(c)

\* CreateWithMembersEditable, its inserts and the commit.
CreateUnion(c) ==
  /\ At(c, "insert") /\ Doing(c, "create")
  /\ LET new == [status |-> "active", version |-> 1, members |-> client[c].arg]
     IN Commit(c, new, [version |-> 1, members |-> client[c].arg])

\* A plausible bug, never used here: a change of the members keeps the version.
BumpedNot == union.version

\* bumpUnionVersion
Bumped == union.version + 1

\* insertMember, bumpUnionVersion, loadMembers and the commit.  A member that is there already
\* violates the primary key.
AddMember(c) ==
  /\ At(c, "insert") /\ Doing(c, "add")
  /\ IF client[c].arg \cap union.members = {} /\ union.status = "active"
     THEN /\ union.version < MaxVersion
          /\ LET new == [union EXCEPT !.version = Bumped, !.members = @ \cup client[c].arg]
             IN Commit(c, new, [version |-> new.version, members |-> new.members])
     ELSE Fail(c)

\* The same for the removal, whose DELETE must have found the member.
RemoveMember(c) ==
  /\ At(c, "insert") /\ Doing(c, "remove")
  /\ IF client[c].arg \subseteq union.members /\ union.status = "active"
     THEN /\ union.version < MaxVersion
          /\ LET new == [union EXCEPT !.version = Bumped, !.members = @ \ client[c].arg]
             IN Commit(c, new, [version |-> new.version, members |-> new.members])
     ELSE Fail(c)

\* A request that is cancelled, or whose connection breaks, is rolled back.
Abort(c) == ~ At(c, "idle") /\ Fail(c)

----------------------------------------------------------------------------
(* The persons feature *)

DeletePerson(p) ==
  /\ p \in active /\ Cardinality(Persons \ active) < MaxDeleted
  /\ active' = active \ {p}
  /\ UNCHANGED <<union, holder, client, history>>

RestorePerson(p) ==
  /\ p \notin active
  /\ active' = active \cup {p}
  /\ UNCHANGED <<union, holder, client, history>>

Step(c) ==
  \/ BeginCreate(c) \/ BeginGet(c) \/ BeginUpdate(c) \/ BeginDelete(c)
  \/ BeginAdd(c) \/ BeginRemove(c)
  \/ ReadUnion(c) \/ ReadMembers(c) \/ UpdateUnion(c) \/ DeleteUnion(c)
  \/ LockUnion(c) \/ CheckPersons(c) \/ CountMembers(c)
  \/ CreateUnion(c) \/ AddMember(c) \/ RemoveMember(c) \/ Abort(c)

Next ==
  \/ \E c \in Clients : Step(c)
  \/ \E p \in Persons : DeletePerson(p) \/ RestorePerson(p)

Spec == Init /\ [][Next]_vars

----------------------------------------------------------------------------
(* Properties *)

\* A union has between MinMembers and MaxMembers members however additions and removals
\* interleave (the counts of AddMemberEditable and RemoveMemberEditable under FOR UPDATE).
SizeWithinLimits ==
  union.status # "absent" => Cardinality(union.members) \in MinMembers .. MaxMembers

\* Whoever updates or deletes a union knows its members as they are at that moment, although the
\* aggregate is read in two statements and additions compare no version: an answer of
\* GetAccessible that mixes two versions names one that is no longer current.
NoBlindChange ==
  [][\A c \in Clients :
       (UpdateUnion(c) \/ DeleteUnion(c)) /\ union' # union => client[c].known = Current]_vars

\* The aggregate in the answer to a change is the one of its version, also where UpdateEditable
\* repeats members it read before the transaction; a plain read may only show members that are
\* newer than the version beside them.
AnswersMatchHistory ==
  \A c \in Clients :
    LET k == client[c].known
    IN k.version > 0 =>
         IF client[c].written THEN history[k.version] = k.members
         ELSE \E v \in k.version .. union.version : history[v] = k.members

=============================================================================
