---------------------------- MODULE RecordProofs ----------------------------
(***************************************************************************)
(* Theorems about the records of a tree, for any persons, fields, limits   *)
(* and number of concurrent requests.  Each of the two parts has one       *)
(* inductive invariant.  Of the union it says what a request may rely on   *)
(* at each of its statements.  Of the other rows it says that a client     *)
(* that names the current version of a row knows its content, so that a    *)
(* conditional write never undoes what its sender had not seen, and that   *)
(* whoever is past the check of the tree when it is deleted is counted.    *)
(***************************************************************************)
EXTENDS Records, Sequences, FiniteSetTheorems, TLAPS

-----------------------------------------------------------------------------
(* The union *)

\* The statements between SELECT ... FOR UPDATE and the end of the transaction.
Locking(r) == r.op \in {"add", "remove"} /\ r.pc \in {"persons", "count", "insert"}

\* What an answer tells is so, or was.
Told(view, written) ==
  /\ view.version <= union.version
  /\ view.version > 0 =>
       IF written THEN history[view.version] = view.members
                  ELSE \E v \in view.version .. union.version : history[v] = view.members

\* Each statement belongs to some of the operations.
Placed(r) ==
  /\ r.pc = "idle" => r.op = "none"
  /\ r.pc \in {"union", "members"} => r.op \in {"get", "update", "delete"}
  /\ r.pc = "write" => r.op \in {"update", "delete"}
  /\ r.pc = "lock" => r.op \in {"add", "remove"}
  /\ r.pc = "persons" => r.op \in {"create", "add"}
  /\ r.pc = "count" => r.op \in {"add", "remove"}
  /\ r.pc = "insert" => r.op \in {"create", "add", "remove"}

\* What the request has found still holds.
Found(r) ==
  /\ r.op \in {"add", "remove"} => \E p \in Persons : r.arg = {p}
  /\ Locking(r) => union.status = "active"
  /\ r.pc = "insert" /\ r.op = "add" => Cardinality(union.members) < MaxMembers
  /\ r.pc = "insert" /\ r.op = "remove" =>
       r.arg \subseteq union.members /\ Cardinality(union.members) > MinMembers
  /\ r.op = "create" =>
       union.status = "absent" /\ Cardinality(r.arg) \in MinMembers .. MaxMembers

\* The aggregate it was given, and the one it is reading.
Informed(r) ==
  /\ Told(r.known, r.written)
  /\ r.pc \in {"members", "write"} => r.seen.version \in 1 .. union.version
  /\ r.pc = "write" => Told(r.seen, FALSE) /\ r.seen.version = r.known.version

Sound(r) == Placed(r) /\ Found(r) /\ Informed(r)

\* The union is at its version.
Recorded ==
  /\ union.status = "absent" <=> union.version = 0
  /\ union.version > 0 => history[union.version] = union.members

LockMeant == \A c \in Clients : holder = c <=> Locking(client[c])

OneCreation == \A c, d \in Clients : Doing(c, "create") /\ Doing(d, "create") => c = d

IInv ==
  /\ TypeOK /\ SizeWithinLimits /\ Recorded /\ LockMeant /\ OneCreation
  /\ \A c \in Clients : Sound(client[c])

----------------------------------------------------------------------------
(* Two kinds of steps *)

\* A step that leaves the union alone and takes client c to the request r.
LEMMA QuietStep ==
  ASSUME IInv, NEW c \in Clients, NEW r \in Request,
         client' = [client EXCEPT ![c] = r],
         UNCHANGED <<union, history>>,
         active' \subseteq Persons,
         holder' \in {holder, c, NoClient},
         holder \notin {c, NoClient} => holder' = holder,
         holder' = c <=> Locking(r),
         r.op = "create" => \A d \in Clients \ {c} : ~ Doing(d, "create"),
         Sound(r)
  PROVE  IInv'
<1> USE DEF IInv
<1>1. client' \in [Clients -> Request] /\ client'[c] = r
      /\ \A d \in Clients \ {c} : client'[d] = client[d]
  BY DEF TypeOK
<1>2. TypeOK'
  BY <1>1 DEF TypeOK
<1>3. (SizeWithinLimits /\ Recorded)'
  BY DEF SizeWithinLimits, Recorded
<1>4. LockMeant'
  BY <1>1, UnionAssumption DEF LockMeant
<1>5. OneCreation'
  BY <1>1 DEF OneCreation, Doing
<1>6. \A s \in Request : Sound(s) => Sound(s)'
  BY DEF Sound, Placed, Found, Informed, Told, Locking
<1>7. \A d \in Clients : Sound(client[d])'
  BY <1>1, <1>6 DEF TypeOK
<1> QED
  BY <1>2, <1>3, <1>4, <1>5, <1>7

\* The past of the union stays as it was.
LEMMA ToldStays ==
  ASSUME union.version \in Nat, union'.version \in 1 .. MaxVersion,
         union'.version = union.version + 1,
         history \in [1 .. MaxVersion -> SUBSET Persons],
         history' = [history EXCEPT ![union'.version] = union'.members]
  PROVE  \A view \in View, w \in BOOLEAN : Told(view, w) => Told(view, w)'
<1>1. \A v \in 1 .. union.version : history'[v] = history[v]
  OBVIOUS
<1> SUFFICES ASSUME NEW view \in View, NEW w \in BOOLEAN, Told(view, w) PROVE Told(view, w)'
  OBVIOUS
<1>2. view.version \in Nat /\ view.version <= union.version /\ view.version <= union'.version
  BY DEF Told, View
<1>3. CASE view.version = 0
  BY <1>2, <1>3 DEF Told
<1>4. CASE view.version > 0 /\ w
  BY <1>1, <1>2, <1>4 DEF Told
<1>5. CASE view.version > 0 /\ ~ w
  <2>1. PICK v \in view.version .. union.version : history[v] = view.members
    BY <1>5 DEF Told
  <2>2. v \in view.version .. union'.version /\ history'[v] = view.members
    BY <2>1, <1>1, <1>2, <1>5
  <2> QED
    BY <2>2, <1>2, <1>5 DEF Told
<1> QED
  BY <1>2, <1>3, <1>4, <1>5

\* A commit of c, which holds the row lock unless nobody does.
LEMMA CommitStep ==
  ASSUME IInv, NEW c \in Clients, NEW r \in Request,
         client' = [client EXCEPT ![c] = r],
         active' = active,
         union' \in Union, union'.status # "absent",
         union'.version = union.version + 1,
         history' = [history EXCEPT ![union'.version] = union'.members],
         Cardinality(union'.members) \in MinMembers .. MaxMembers,
         holder \in {c, NoClient}, holder' = NoClient,
         \A d \in Clients \ {c} : ~ Doing(d, "create"),
         r.op = "none", r.pc = "idle", Told(r.known, r.written)'
  PROVE  IInv'
<1> USE DEF IInv
<1>0. union.version \in Nat /\ union'.version \in 1 .. MaxVersion
      /\ history \in [1 .. MaxVersion -> SUBSET Persons]
  BY DEF TypeOK, Union
<1>1. client' \in [Clients -> Request] /\ client'[c] = r
      /\ \A d \in Clients \ {c} : client'[d] = client[d]
  BY DEF TypeOK
<1>2. TypeOK'
  BY <1>0, <1>1 DEF TypeOK, Union
<1>3. SizeWithinLimits'
  BY DEF SizeWithinLimits
<1>4. Recorded'
  BY <1>0 DEF Recorded
<1>5. \A d \in Clients \ {c} : ~ Locking(client[d])
  BY UnionAssumption DEF LockMeant
<1>6. LockMeant'
  BY <1>1, <1>5, UnionAssumption DEF LockMeant, Locking
<1>7. OneCreation'
  BY <1>1 DEF OneCreation, Doing
<1>9. \A view \in View, w \in BOOLEAN : Told(view, w) => Told(view, w)'
  BY <1>0, ToldStays
<1>10. \A d \in Clients \ {c} : Sound(client[d])'
  <2> SUFFICES ASSUME NEW d \in Clients \ {c} PROVE Sound(client[d])'
    OBVIOUS
  <2>1. client'[d] = client[d] /\ Sound(client[d]) /\ client[d] \in Request
    BY <1>1 DEF TypeOK
  <2>2. Placed(client[d])'
    BY <2>1 DEF Sound, Placed
  <2>3. Found(client[d])'
    BY <2>1, <1>5 DEF Sound, Found, Placed, Locking, Doing
  <2>4. Informed(client[d])'
    <3>1. client[d].known \in View /\ client[d].seen \in View /\ client[d].written \in BOOLEAN
          /\ FALSE \in BOOLEAN
      BY <2>1 DEF Request
    <3>2. Told(client[d].known, client[d].written)'
      <4>1. Told(client[d].known, client[d].written)
        BY <2>1 DEF Sound, Informed
      <4> QED
        BY <4>1, <3>1, <1>9, <2>1
    <3>3. client[d].pc = "write" => Told(client[d].seen, FALSE)'
      <4>1. client[d].pc = "write" => Told(client[d].seen, FALSE)
        BY <2>1 DEF Sound, Informed
      <4> QED
        BY <4>1, <3>1, <1>9, <2>1
    <3>4. client[d].pc \in {"members", "write"} => client[d].seen.version \in 1 .. union'.version
      BY <2>1, <1>0 DEF Sound, Informed
    <3> QED
      BY <2>1, <3>2, <3>3, <3>4 DEF Sound, Informed
  <2> QED
    BY <2>2, <2>3, <2>4 DEF Sound
<1>11. Sound(client[c])'
  BY <1>1 DEF Sound, Placed, Found, Informed, Locking
<1> QED
  BY <1>2, <1>3, <1>4, <1>6, <1>7, <1>10, <1>11

----------------------------------------------------------------------------
(* The inductive invariant *)

LEMMA InitIInv == Init => IInv
<1> SUFFICES ASSUME Init PROVE IInv
  OBVIOUS
<1>1. TypeOK
  BY UnionAssumption DEF Init, TypeOK, Union, Request, View, Unseen
<1> QED
  BY <1>1, UnionAssumption
     DEF Init, IInv, SizeWithinLimits, Recorded, LockMeant, OneCreation, Doing, Locking,
         Sound, Placed, Found, Informed, Told, Unseen

\* What is left of a request is the answer to the last one.
LEMMA EndedIs ==
  ASSUME NEW c \in Clients, client[c] \in Request
  PROVE  /\ Ended(c) \in Request
         /\ Ended(c).op = "none" /\ Ended(c).pc = "idle"
         /\ Ended(c).known = client[c].known /\ Ended(c).written = client[c].written
<1>1. Unseen \in View
  BY UnionAssumption DEF Unseen, View
<1> QED
  BY <1>1 DEF Ended, Request

\* A request that ends without a change.
LEMMA FailQuiet ==
  ASSUME IInv, NEW c \in Clients, Fail(c)
  PROVE  IInv'
<1>1. client[c] \in Request /\ Sound(client[c]) /\ LockMeant
  BY DEF IInv, TypeOK
<1>2. Ended(c) \in Request /\ Sound(Ended(c)) /\ ~ Locking(Ended(c)) /\ Ended(c).op = "none"
  BY <1>1, EndedIs DEF Sound, Placed, Found, Informed, Locking
<1>3. active \subseteq Persons
  BY DEF IInv, TypeOK
<1> QED
  BY <1>2, <1>3, QuietStep, UnionAssumption DEF Fail, Unlocked

\* A request begins.
LEMMA BeginQuiet ==
  ASSUME IInv, NEW c \in Clients,
         NEW op \in {"create", "get", "update", "delete", "add", "remove"},
         NEW arg \in SUBSET Persons,
         NEW pc \in {"union", "lock", "persons"},
         Begin(c, op, arg, pc),
         pc = "union" => op \in {"get", "update", "delete"},
         pc = "lock" => op \in {"add", "remove"} /\ \E p \in Persons : arg = {p},
         pc = "persons" => /\ op = "create" /\ union.status = "absent"
                           /\ \A d \in Clients : ~ Doing(d, "create")
                           /\ Cardinality(arg) \in MinMembers .. MaxMembers
  PROVE  IInv'
<1> DEFINE r == [client[c] EXCEPT !.op = op, !.arg = arg, !.pc = pc]
<1>1. client[c] \in Request /\ Sound(client[c]) /\ LockMeant /\ client[c].pc = "idle"
  BY DEF IInv, TypeOK, Begin, At
<1>2. r \in Request /\ ~ Locking(r) /\ (r.op = "create" => pc = "persons")
  BY <1>1 DEF Request, Locking
<1>3. Sound(r)
  BY <1>1 DEF Request, Sound, Placed, Found, Informed, Locking
<1>4. client' = [client EXCEPT ![c] = r]
  BY DEF Begin
<1>5. active \subseteq Persons /\ ~ Locking(client[c])
  BY <1>1 DEF IInv, TypeOK, Locking
<1> HIDE DEF r
<1> QED
  BY <1>1, <1>2, <1>3, <1>4, <1>5, QuietStep DEF Begin, LockMeant

----------------------------------------------------------------------------
(* Statements that only read or lock *)

\* The request goes on to another statement and the row lock stays where it is.
LEMMA GotoQuiet ==
  ASSUME IInv, NEW c \in Clients, NEW pc \in {"members", "write", "persons", "count", "insert"},
         Goto(c, pc), UNCHANGED <<active, union, history>>,
         holder' \in {holder, c}, holder' = c <=> Locking([client[c] EXCEPT !.pc = pc]),
         holder = c \/ holder = NoClient \/ holder' = holder,
         Placed([client[c] EXCEPT !.pc = pc]), Found([client[c] EXCEPT !.pc = pc]),
         Informed([client[c] EXCEPT !.pc = pc])
  PROVE  IInv'
<1> DEFINE r == [client[c] EXCEPT !.pc = pc]
<1>1. client[c] \in Request /\ active \subseteq Persons /\ OneCreation
  BY DEF IInv, TypeOK
<1>2. r \in Request /\ r.op = client[c].op
  BY <1>1 DEF Request
<1>3. r.op = "create" => \A d \in Clients \ {c} : ~ Doing(d, "create")
  BY <1>1, <1>2 DEF OneCreation, Doing
<1>4. Sound(r) /\ client' = [client EXCEPT ![c] = r]
  BY DEF Sound, Goto
<1> HIDE DEF r
<1> QED
  BY <1>1, <1>2, <1>3, <1>4, QuietStep DEF r

LEMMA ReadUnionQuiet == ASSUME IInv, NEW c \in Clients, ReadUnion(c) PROVE IInv'
<1>1. CASE Fail(c)
  BY <1>1, FailQuiet
<1>2. CASE ~ Fail(c)
  <2> DEFINE r == [client[c] EXCEPT !.seen.version = union.version, !.pc = "members"]
  <2>1. /\ client[c] \in Request /\ Sound(client[c]) /\ active \subseteq Persons
        /\ union \in Union /\ Recorded /\ LockMeant /\ client[c].pc = "union"
    BY DEF IInv, TypeOK, ReadUnion, At
  <2>2. union.status = "active" /\ UNCHANGED <<active, union, holder, history>>
    BY <1>2 DEF ReadUnion
  <2>3. client' = [client EXCEPT ![c] = r]
    BY <1>2, <2>1 DEF ReadUnion, Request
  <2>4. r.seen = [client[c].seen EXCEPT !.version = union.version] /\ r.pc = "members"
        /\ r.op = client[c].op /\ r.arg = client[c].arg /\ r.known = client[c].known
        /\ r.written = client[c].written /\ r \in Request /\ r.seen.version = union.version
    BY <2>1 DEF Request, View, Union
  <2>5. Placed(r) /\ Found(r) /\ r.op # "create" /\ ~ Locking(r) /\ ~ Locking(client[c])
    BY <2>1, <2>4 DEF Sound, Placed, Found, Locking
  <2>6. Informed(r)
    BY <2>1, <2>2, <2>4 DEF Sound, Informed, Recorded, Union
  <2> HIDE DEF r
  <2> QED
    BY <2>1, <2>2, <2>3, <2>4, <2>5, <2>6, QuietStep DEF Sound, LockMeant
<1> QED
  BY <1>1, <1>2

LEMMA ReadMembersQuiet == ASSUME IInv, NEW c \in Clients, ReadMembers(c) PROVE IInv'
<1> DEFINE view == [client[c].seen EXCEPT !.members = union.members]
<1>1. /\ client[c] \in Request /\ Sound(client[c]) /\ active \subseteq Persons
      /\ union \in Union /\ Recorded /\ LockMeant /\ client[c].pc = "members"
  BY DEF IInv, TypeOK, ReadMembers, At
<1>2. /\ view \in View /\ view.version = client[c].seen.version
      /\ view.members = union.members /\ view.version \in 1 .. union.version
  BY <1>1 DEF Request, View, Union, Sound, Informed
<1>3. Told(view, FALSE)
  BY <1>1, <1>2 DEF Told, Recorded, Union
<1>4. CASE /\ client' = [client EXCEPT ![c] = [Ended(c) EXCEPT !.known = view, !.written = FALSE]]
           /\ UNCHANGED <<active, union, holder, history>>
  <2> DEFINE r == [Ended(c) EXCEPT !.known = view, !.written = FALSE]
  <2>1. r \in Request /\ r.known = view /\ r.written = FALSE /\ r.op = "none" /\ r.pc = "idle"
    BY <1>1, <1>2, EndedIs DEF Request
  <2> HIDE DEF r, view
  <2>2. Sound(r) /\ ~ Locking(r) /\ ~ Locking(client[c])
    BY <1>1, <1>3, <2>1 DEF Sound, Placed, Found, Informed, Locking
  <2> QED
    BY <1>1, <1>4, <2>1, <2>2, QuietStep DEF r, LockMeant
<1>5. CASE /\ ~ Doing(c, "get") /\ client[c].known.version = view.version
           /\ client' = [client EXCEPT ![c].seen = view, ![c].pc = "write"]
           /\ UNCHANGED <<active, union, holder, history>>
  <2> DEFINE r == [client[c] EXCEPT !.seen = view, !.pc = "write"]
  <2>1. /\ r \in Request /\ r.known = client[c].known /\ r.written = client[c].written
        /\ r.op = client[c].op /\ r.pc = "write" /\ r.seen = view /\ r.arg = client[c].arg
    BY <1>1, <1>2 DEF Request
  <2>2. client' = [client EXCEPT ![c] = r]
    BY <1>1, <1>5 DEF Request
  <2> HIDE DEF r, view
  <2>3. Placed(r) /\ Found(r) /\ ~ Locking(r) /\ ~ Locking(client[c]) /\ r.op # "create"
    BY <1>1, <1>5, <2>1 DEF Sound, Placed, Found, Locking, Doing
  <2>4. Informed(r)
    BY <1>1, <1>2, <1>3, <1>5, <2>1 DEF Sound, Informed
  <2> QED
    BY <1>1, <1>5, <2>1, <2>2, <2>3, <2>4, QuietStep DEF LockMeant, Sound
<1>6. CASE Fail(c)
  BY <1>6, FailQuiet
<1> QED
  BY <1>4, <1>5, <1>6 DEF ReadMembers

LEMMA LockUnionQuiet == ASSUME IInv, NEW c \in Clients, LockUnion(c) PROVE IInv'
<1>1. CASE Fail(c)
  BY <1>1, FailQuiet
<1>2. CASE ~ Fail(c)
  <2> DEFINE pc == IF Doing(c, "add") THEN "persons" ELSE "count"
             r == [client[c] EXCEPT !.pc = pc]
  <2>1. /\ client[c] \in Request /\ Sound(client[c]) /\ client[c].pc = "lock"
        /\ union.status = "active" /\ holder = NoClient /\ holder' = c /\ Goto(c, pc)
        /\ UNCHANGED <<active, union, history>>
    BY <1>2 DEF IInv, TypeOK, LockUnion, At, RowFree
  <2>2. /\ r.pc = pc /\ r.op = client[c].op /\ r.arg = client[c].arg
        /\ r.known = client[c].known /\ r.written = client[c].written
    BY <2>1 DEF Request
  <2>3. Locking(r) /\ Placed(r) /\ Found(r) /\ Informed(r)
    BY <2>1, <2>2 DEF Sound, Placed, Found, Informed, Locking, Doing
  <2>4. pc \in {"persons", "count"}
    OBVIOUS
  <2> HIDE DEF pc
  <2> QED
    BY <2>1, <2>3, <2>4, GotoQuiet
<1> QED
  BY <1>1, <1>2

LEMMA CheckPersonsQuiet == ASSUME IInv, NEW c \in Clients, CheckPersons(c) PROVE IInv'
<1>1. CASE Fail(c)
  BY <1>1, FailQuiet
<1>2. CASE ~ Fail(c)
  <2> DEFINE pc == IF Doing(c, "create") THEN "insert" ELSE "count"
             r == [client[c] EXCEPT !.pc = pc]
  <2>1. /\ client[c] \in Request /\ Sound(client[c]) /\ client[c].pc = "persons" /\ LockMeant
        /\ Goto(c, pc) /\ UNCHANGED <<active, union, holder, history>>
    BY <1>2 DEF IInv, TypeOK, CheckPersons, At
  <2>2. /\ r.pc = pc /\ r.op = client[c].op /\ r.arg = client[c].arg
        /\ r.known = client[c].known /\ r.written = client[c].written
    BY <2>1 DEF Request
  <2>3. (Locking(r) <=> Locking(client[c])) /\ Placed(r) /\ Found(r) /\ Informed(r)
    BY <2>1, <2>2 DEF Sound, Placed, Found, Informed, Locking, Doing
  <2>4. pc \in {"insert", "count"}
    OBVIOUS
  <2> HIDE DEF pc
  <2> QED
    BY <2>1, <2>3, <2>4, GotoQuiet DEF LockMeant
<1> QED
  BY <1>1, <1>2

LEMMA CountMembersQuiet == ASSUME IInv, NEW c \in Clients, CountMembers(c) PROVE IInv'
<1>1. CASE Fail(c)
  BY <1>1, FailQuiet
<1>2. CASE ~ Fail(c)
  <2> DEFINE r == [client[c] EXCEPT !.pc = "insert"]
  <2>1. /\ client[c] \in Request /\ Sound(client[c]) /\ client[c].pc = "count" /\ LockMeant
        /\ Goto(c, "insert") /\ UNCHANGED <<active, union, holder, history>> /\ Allowed(c)
    BY <1>2 DEF IInv, TypeOK, CountMembers, At
  <2>2. /\ r.pc = "insert" /\ r.op = client[c].op /\ r.arg = client[c].arg
        /\ r.known = client[c].known /\ r.written = client[c].written
    BY <2>1 DEF Request
  <2>3. (Locking(r) <=> Locking(client[c])) /\ Placed(r) /\ Found(r) /\ Informed(r)
    BY <2>1, <2>2 DEF Sound, Placed, Found, Informed, Locking, Allowed, Doing
  <2> QED
    BY <2>1, <2>3, GotoQuiet DEF LockMeant
<1> QED
  BY <1>1, <1>2

----------------------------------------------------------------------------
(* Commits *)

\* Commit with its answer, given or lost.
LEMMA CommitKeeps ==
  ASSUME IInv, NEW c \in Clients, NEW new \in Union, NEW view \in View,
         Commit(c, new, view),
         new.status # "absent", new.version = union.version + 1,
         Cardinality(new.members) \in MinMembers .. MaxMembers,
         holder \in {c, NoClient},
         \A d \in Clients \ {c} : ~ Doing(d, "create"),
         view.version <= new.version,
         view.version > 0 => history'[view.version] = view.members
  PROVE  IInv'
<1>1. /\ client[c] \in Request /\ Sound(client[c]) /\ union.version \in Nat
      /\ history \in [1 .. MaxVersion -> SUBSET Persons]
  BY DEF IInv, TypeOK, Union
<1>2. /\ union' = new /\ history' = [history EXCEPT ![union'.version] = union'.members]
      /\ active' = active /\ holder' = NoClient /\ union'.version \in 1 .. MaxVersion
  BY <1>1, UnionAssumption DEF Commit, Unlocked, Union
<1>3. PICK r \in Request :
        /\ client' = [client EXCEPT ![c] = r] /\ r.op = "none" /\ r.pc = "idle"
        /\ \/ r.known = client[c].known /\ r.written = client[c].written
           \/ r.known = view /\ r.written = TRUE
  <2>1. CASE client' = [client EXCEPT ![c] = Ended(c)]
    BY <1>1, <2>1, EndedIs
  <2>2. CASE client' = [client EXCEPT ![c] = [Ended(c) EXCEPT !.known = view, !.written = TRUE]]
    <3> DEFINE r == [Ended(c) EXCEPT !.known = view, !.written = TRUE]
    <3>1. r \in Request /\ r.op = "none" /\ r.pc = "idle" /\ r.known = view /\ r.written = TRUE
      BY <1>1, EndedIs DEF Request
    <3> QED
      BY <2>2, <3>1
  <2> QED
    BY <2>1, <2>2 DEF Commit
<1>4. r.known \in View /\ r.written \in BOOLEAN
  BY DEF Request
<1>5. Told(r.known, r.written)'
  <2>1. CASE r.known = client[c].known /\ r.written = client[c].written
    <3>1. Told(r.known, r.written)
      BY <1>1, <2>1 DEF Sound, Informed
    <3> QED
      BY <1>1, <1>2, <1>4, <3>1, ToldStays
  <2>2. CASE r.known = view /\ r.written = TRUE
    BY <1>2, <2>2 DEF Told
  <2> QED
    BY <1>3, <2>1, <2>2
<1> QED
  BY <1>2, <1>3, <1>5, CommitStep

LEMMA NobodyElseCreates ==
  ASSUME IInv, NEW c \in Clients, union.status # "absent" \/ Doing(c, "create")
  PROVE  \A d \in Clients \ {c} : ~ Doing(d, "create")
BY DEF IInv, OneCreation, Doing, Sound, Found

LEMMA CreateUnionKeeps == ASSUME IInv, NEW c \in Clients, CreateUnion(c) PROVE IInv'
<1> DEFINE new == [status |-> "active", version |-> 1, members |-> client[c].arg]
           view == [version |-> 1, members |-> client[c].arg]
<1>1. /\ client[c] \in Request /\ Sound(client[c]) /\ LockMeant /\ Recorded
      /\ Doing(c, "create") /\ Commit(c, new, view) /\ holder \in Clients \cup {NoClient}
      /\ history \in [1 .. MaxVersion -> SUBSET Persons]
  BY DEF IInv, TypeOK, CreateUnion
<1>2. new \in Union /\ view \in View /\ 1 \in 1 .. MaxVersion
  BY <1>1, UnionAssumption DEF Union, View, Request
<1>3. union.status = "absent" /\ union.version = 0 /\ Cardinality(new.members) \in MinMembers .. MaxMembers
  BY <1>1 DEF Sound, Found, Recorded, Doing
<1>4. holder \in {c, NoClient}
  BY <1>1, <1>3 DEF LockMeant, IInv, Sound, Found
<1>5. history' = [history EXCEPT ![1] = client[c].arg]
  BY <1>1 DEF Commit
<1> HIDE DEF new, view
<1>6. new.status # "absent" /\ new.version = union.version + 1
  BY <1>3 DEF new
<1>7. view.version <= new.version /\ history'[view.version] = view.members
  BY <1>1, <1>2, <1>5 DEF new, view
<1> QED
  BY <1>1, <1>2, <1>3, <1>4, <1>6, <1>7, NobodyElseCreates, CommitKeeps

\* What update and delete rely on: the client knows the union as it is.
LEMMA KnownIsCurrent ==
  ASSUME IInv, NEW c \in Clients, At(c, "write"), Matches(c)
  PROVE  client[c].known = Current /\ client[c].seen = Current
<1>1. /\ client[c] \in Request /\ Sound(client[c]) /\ Recorded /\ union \in Union
      /\ union.status = "active" /\ union.version = client[c].seen.version
      /\ client[c].known \in View /\ client[c].seen \in View
  BY DEF IInv, TypeOK, Matches, Request
<1>2. /\ Told(client[c].seen, FALSE) /\ Told(client[c].known, client[c].written)
      /\ client[c].seen.version \in 1 .. union.version
      /\ client[c].known.version = union.version
  BY <1>1 DEF Sound, Informed, At
<1>3. client[c].seen.members = union.members /\ client[c].known.members = union.members
  BY <1>1, <1>2 DEF Told, Recorded, Union
<1> QED
  BY <1>1, <1>2, <1>3 DEF Current, View

LEMMA UpdateUnionKeeps == ASSUME IInv, NEW c \in Clients, UpdateUnion(c) PROVE IInv'
<1>1. CASE Fail(c)
  BY <1>1, FailQuiet
<1>2. CASE ~ Fail(c)
  <2> DEFINE new == [union EXCEPT !.version = @ + 1]
             view == [client[c].seen EXCEPT !.version = @ + 1]
  <2>1. /\ union \in Union /\ union.status = "active" /\ union.version < MaxVersion
        /\ holder = NoClient /\ Commit(c, new, view) /\ SizeWithinLimits
        /\ history \in [1 .. MaxVersion -> SUBSET Persons]
    BY <1>2 DEF IInv, TypeOK, UpdateUnion, Matches
  <2>2. client[c].seen = Current
    BY <1>2, KnownIsCurrent DEF UpdateUnion
  <2>3. /\ new \in Union /\ new.version = union.version + 1 /\ new.status = union.status
        /\ new.members = union.members /\ union.version + 1 \in 1 .. MaxVersion
    BY <2>1, UnionAssumption DEF Union
  <2>4. view \in View /\ view.version = union.version + 1 /\ view.members = union.members
    BY <2>1, <2>2, <2>3 DEF Union, View, Current
  <2> HIDE DEF new, view
  <2>5. history' = [history EXCEPT ![new.version] = new.members]
    BY <2>1 DEF Commit
  <2> QED
    BY <2>1, <2>3, <2>4, <2>5, NobodyElseCreates, CommitKeeps DEF SizeWithinLimits, View
<1> QED
  BY <1>1, <1>2

LEMMA DeleteUnionKeeps == ASSUME IInv, NEW c \in Clients, DeleteUnion(c) PROVE IInv'
<1>1. CASE Fail(c)
  BY <1>1, FailQuiet
<1>2. CASE ~ Fail(c)
  <2> DEFINE new == [union EXCEPT !.status = "deleted", !.version = @ + 1]
             view == client[c].known
  <2>1. /\ union \in Union /\ union.status = "active" /\ union.version < MaxVersion
        /\ holder = NoClient /\ Commit(c, new, view) /\ SizeWithinLimits /\ Recorded
        /\ history \in [1 .. MaxVersion -> SUBSET Persons]
    BY <1>2 DEF IInv, TypeOK, DeleteUnion, Matches
  <2>2. view = Current
    BY <1>2, KnownIsCurrent DEF DeleteUnion
  <2>3. /\ new \in Union /\ new.version = union.version + 1 /\ new.status = "deleted"
        /\ new.members = union.members /\ union.version \in 1 .. MaxVersion
    <3>1. union.version \in 1 .. MaxVersion /\ union.version + 1 \in 0 .. MaxVersion
      BY <2>1, UnionAssumption DEF Union, Recorded
    <3> QED
      BY <2>1, <3>1 DEF Union
  <2>4. view \in View /\ view.version = union.version /\ view.members = union.members
    BY <2>1, <2>2, <2>3 DEF Union, View, Current
  <2> HIDE DEF new, view
  <2>5. history' = [history EXCEPT ![new.version] = new.members]
    BY <2>1 DEF Commit
  <2>6. history'[view.version] = view.members
    BY <2>1, <2>3, <2>4, <2>5 DEF Recorded
  <2>7. view.version <= new.version
    BY <2>3, <2>4
  <2> QED
    BY <2>1, <2>3, <2>4, <2>6, <2>7, NobodyElseCreates, CommitKeeps DEF SizeWithinLimits
<1> QED
  BY <1>1, <1>2

\* A member more or less.
LEMMA SizeChanges ==
  ASSUME NEW M \in SUBSET Persons, NEW p \in Persons
  PROVE  /\ Cardinality(M) \in Nat
         /\ p \notin M => Cardinality(M \cup {p}) = Cardinality(M) + 1
         /\ p \in M => Cardinality(M \ {p}) = Cardinality(M) - 1
<1>1. IsFiniteSet(M)
  BY UnionAssumption, FS_Subset
<1> QED
  BY <1>1, FS_CardinalityType, FS_AddElement, FS_RemoveElement

LEMMA AddMemberKeeps == ASSUME IInv, NEW c \in Clients, AddMember(c) PROVE IInv'
<1>1. CASE Fail(c)
  BY <1>1, FailQuiet
<1>2. CASE ~ Fail(c)
  <2> DEFINE new == [union EXCEPT !.version = Bumped, !.members = @ \cup client[c].arg]
             view == [version |-> new.version, members |-> new.members]
  <2>1. /\ union \in Union /\ union.status = "active" /\ union.version < MaxVersion
        /\ client[c].arg \cap union.members = {} /\ Commit(c, new, view)
        /\ SizeWithinLimits /\ LockMeant /\ Sound(client[c])
        /\ client[c].pc = "insert" /\ client[c].op = "add"
        /\ history \in [1 .. MaxVersion -> SUBSET Persons]
    BY <1>2 DEF IInv, TypeOK, AddMember, At, Doing
  <2>2. holder = c /\ Cardinality(union.members) < MaxMembers
    BY <2>1 DEF LockMeant, Locking, Sound, Found
  <2>3. PICK p \in Persons : client[c].arg = {p}
    BY <2>1 DEF Sound, Found
  <2>4. /\ new \in Union /\ new.version = union.version + 1 /\ new.status = union.status
        /\ new.members = union.members \cup {p} /\ union.version + 1 \in 1 .. MaxVersion
    <3>1. union.version \in Nat /\ union.version + 1 \in 1 .. MaxVersion
      BY <2>1, UnionAssumption DEF Union
    <3>2. union.members \cup {p} \in SUBSET Persons /\ Bumped \in 0 .. MaxVersion
      BY <2>1, <3>1 DEF Union, Bumped
    <3> QED
      BY <2>1, <2>3, <3>1, <3>2 DEF Union, Bumped
  <2>5. Cardinality(new.members) \in MinMembers .. MaxMembers
    <3>1. union.members \in SUBSET Persons /\ p \notin union.members
      BY <2>1, <2>3 DEF Union
    <3> QED
      BY <3>1, <2>1, <2>2, <2>4, SizeChanges, UnionAssumption DEF SizeWithinLimits
  <2> HIDE DEF new
  <2>6. view \in View /\ view.version = new.version /\ view.members = new.members
    BY <2>4 DEF Union, View
  <2> HIDE DEF view
  <2>7. history' = [history EXCEPT ![new.version] = new.members]
    BY <2>1 DEF Commit
  <2>8. view.version <= new.version /\ history'[view.version] = view.members
    BY <2>1, <2>4, <2>6, <2>7
  <2>9. new.status # "absent" /\ holder \in {c, NoClient}
    BY <2>1, <2>2, <2>4
  <2>10. \A d \in Clients \ {c} : ~ Doing(d, "create")
    BY <2>1, NobodyElseCreates
  <2> QED
    BY <2>1, <2>4, <2>5, <2>6, <2>8, <2>9, <2>10, CommitKeeps
<1> QED
  BY <1>1, <1>2

LEMMA RemoveMemberKeeps == ASSUME IInv, NEW c \in Clients, RemoveMember(c) PROVE IInv'
<1>1. CASE Fail(c)
  BY <1>1, FailQuiet
<1>2. CASE ~ Fail(c)
  <2> DEFINE new == [union EXCEPT !.version = Bumped, !.members = @ \ client[c].arg]
             view == [version |-> new.version, members |-> new.members]
  <2>1. /\ union \in Union /\ union.status = "active" /\ union.version < MaxVersion
        /\ client[c].arg \subseteq union.members /\ Commit(c, new, view)
        /\ SizeWithinLimits /\ LockMeant /\ Sound(client[c])
        /\ client[c].pc = "insert" /\ client[c].op = "remove"
        /\ history \in [1 .. MaxVersion -> SUBSET Persons]
    BY <1>2 DEF IInv, TypeOK, RemoveMember, At, Doing
  <2>2. holder = c /\ Cardinality(union.members) > MinMembers
    BY <2>1 DEF LockMeant, Locking, Sound, Found
  <2>3. PICK p \in Persons : client[c].arg = {p}
    BY <2>1 DEF Sound, Found
  <2>4. /\ new \in Union /\ new.version = union.version + 1 /\ new.status = union.status
        /\ new.members = union.members \ {p} /\ union.version + 1 \in 1 .. MaxVersion
    <3>1. union.version \in Nat /\ union.version + 1 \in 1 .. MaxVersion
      BY <2>1, UnionAssumption DEF Union
    <3>2. union.members \ {p} \in SUBSET Persons /\ Bumped \in 0 .. MaxVersion
      BY <2>1, <3>1 DEF Union, Bumped
    <3> QED
      BY <2>1, <2>3, <3>1, <3>2 DEF Union, Bumped
  <2>5. Cardinality(new.members) \in MinMembers .. MaxMembers
    <3>1. union.members \in SUBSET Persons /\ p \in union.members
      BY <2>1, <2>3 DEF Union
    <3> QED
      BY <3>1, <2>1, <2>2, <2>4, SizeChanges, UnionAssumption DEF SizeWithinLimits
  <2> HIDE DEF new
  <2>6. view \in View /\ view.version = new.version /\ view.members = new.members
    BY <2>4 DEF Union, View
  <2> HIDE DEF view
  <2>7. history' = [history EXCEPT ![new.version] = new.members]
    BY <2>1 DEF Commit
  <2>8. view.version <= new.version /\ history'[view.version] = view.members
    BY <2>1, <2>4, <2>6, <2>7
  <2>9. new.status # "absent" /\ holder \in {c, NoClient}
    BY <2>1, <2>2, <2>4
  <2>10. \A d \in Clients \ {c} : ~ Doing(d, "create")
    BY <2>1, NobodyElseCreates
  <2> QED
    BY <2>1, <2>4, <2>5, <2>6, <2>8, <2>9, <2>10, CommitKeeps
<1> QED
  BY <1>1, <1>2

----------------------------------------------------------------------------
(* Theorems *)

LEMMA PersonsKeep ==
  ASSUME IInv, active' \subseteq Persons, UNCHANGED <<union, holder, client, history>>
  PROVE  IInv'
BY DEF IInv, TypeOK, SizeWithinLimits, Recorded, LockMeant, OneCreation, Doing,
       Sound, Placed, Found, Informed, Told, Locking

LEMMA StepIInv == IInv /\ [Next]_vars => IInv'
<1> SUFFICES ASSUME IInv, [Next]_vars PROVE IInv'
  OBVIOUS
<1>1. ASSUME NEW c \in Clients, Step(c) PROVE IInv'
  <2>1. CASE BeginCreate(c)
    <3>1. PICK M \in SUBSET Persons :
            Cardinality(M) \in MinMembers .. MaxMembers /\ Begin(c, "create", M, "persons")
      BY <2>1 DEF BeginCreate
    <3> QED
      BY <2>1, <3>1, BeginQuiet DEF BeginCreate
  <2>2. CASE BeginGet(c) \/ BeginUpdate(c) \/ BeginDelete(c)
    BY <2>2, BeginQuiet DEF BeginGet, BeginUpdate, BeginDelete
  <2>3. CASE BeginAdd(c) \/ BeginRemove(c)
    BY <2>3, BeginQuiet DEF BeginAdd, BeginRemove
  <2>4. CASE ReadUnion(c) \/ ReadMembers(c)
    BY <2>4, ReadUnionQuiet, ReadMembersQuiet
  <2>5. CASE UpdateUnion(c) \/ DeleteUnion(c)
    BY <2>5, UpdateUnionKeeps, DeleteUnionKeeps
  <2>6. CASE LockUnion(c) \/ CheckPersons(c) \/ CountMembers(c)
    BY <2>6, LockUnionQuiet, CheckPersonsQuiet, CountMembersQuiet
  <2>7. CASE CreateUnion(c) \/ AddMember(c) \/ RemoveMember(c)
    BY <2>7, CreateUnionKeeps, AddMemberKeeps, RemoveMemberKeeps
  <2>8. CASE Abort(c)
    BY <2>8, FailQuiet DEF Abort
  <2> QED
    BY <1>1, <2>1, <2>2, <2>3, <2>4, <2>5, <2>6, <2>7, <2>8 DEF Step
<1>2. ASSUME NEW p \in Persons, DeletePerson(p) \/ RestorePerson(p) PROVE IInv'
  BY <1>2, PersonsKeep DEF DeletePerson, RestorePerson, IInv, TypeOK
<1>3. CASE UNCHANGED vars
  BY <1>3, PersonsKeep DEF vars, IInv, TypeOK
<1> QED
  BY <1>1, <1>2, <1>3 DEF Next

LEMMA InvariantHolds == Spec => []IInv
BY InitIInv, StepIInv, PTL DEF Spec

\* Type correctness of the union, the row lock and the requests.
THEOREM UnionTypeCorrect == Spec => []TypeOK
<1>1. IInv => TypeOK
  BY DEF IInv
<1> QED
  BY <1>1, InvariantHolds, PTL

\* For any limits and any number of concurrent requests: a union never has too few or too many
\* members.
THEOREM SizeWithinLimitsHolds == Spec => []SizeWithinLimits
<1>1. IInv => SizeWithinLimits
  BY DEF IInv
<1> QED
  BY <1>1, InvariantHolds, PTL

\* What a client was told about the union is true of the version it names, or of a later one if it
\* only read.
THEOREM AnswersMatchHistoryHolds == Spec => []AnswersMatchHistory
<1>1. IInv => AnswersMatchHistory
  <2> SUFFICES ASSUME IInv, NEW c \in Clients PROVE Told(client[c].known, client[c].written)
    BY DEF AnswersMatchHistory, Told
  <2> QED
    BY DEF IInv, Sound, Informed
<1> QED
  BY <1>1, InvariantHolds, PTL

\* An update or a deletion happens only to a union that the client knows as it is.
THEOREM NoBlindChangeHolds == Spec => NoBlindChange
<1> DEFINE Informedly == \A c \in Clients :
             (UpdateUnion(c) \/ DeleteUnion(c)) /\ union' # union => client[c].known = Current
<1>1. IInv /\ [Next]_vars => [Informedly]_vars
  <2> SUFFICES ASSUME IInv, NEW c \in Clients, UpdateUnion(c) \/ DeleteUnion(c), union' # union
               PROVE  client[c].known = Current
    OBVIOUS
  <2>1. At(c, "write") /\ Matches(c)
    BY DEF UpdateUnion, DeleteUnion, Fail
  <2> QED
    BY <2>1, KnownIsCurrent
<1> QED
  BY <1>1, InvariantHolds, PTL DEF Spec, NoBlindChange

-----------------------------------------------------------------------------
(* The other rows *)

\* The instance has the same finite sets.
LEMMA RowsFinite ==
  ASSUME NEW S
  PROVE  (R!IsFiniteSet(S) <=> IsFiniteSet(S)) /\ R!Cardinality(S) = Cardinality(S)
<1>1. R!IsFiniteSet(S) <=> IsFiniteSet(S)
  BY DEF R!IsFiniteSet, IsFiniteSet
<1>2. R!Cardinality(S) = Cardinality(S)
  BY DEF R!Cardinality, Cardinality
<1> QED  BY <1>1, <1>2

RowRecord == [version : 0 .. MaxRowVersion, deleted : BOOLEAN, swept : BOOLEAN,
              content : R!Content]
AuditRecord == [op : {"delete", "restore"}, version : 1 .. MaxRowVersion]

\* How far a request x has come, and what it has read: what the client knows.
RowPlaced(x) ==
  /\ x.pc # "idle" => x.on \in R!Objects
  /\ x.pc = "idle" <=> x.op = "none"
  /\ x.op \in {"update", "delete", "restore"} => x.on = x.known.on
  /\ x.op = "create" => x.pc \in {"check", "write"}
  /\ x.pc \in {"check", "write"} /\ x.op # "create" => x.read = x.known.content

\* What the client of request x was told of a row is so while the version is the same, and a row
\* that is being created is not there yet.
RowInformed(x, w) ==
  /\ x.known.on # Nothing =>
       /\ x.known.version \in 1 .. w[x.known.on].version
       /\ x.known.version = w[x.known.on].version => x.known.content = w[x.known.on].content
  /\ x.op = "create" => w[x.on].version = 0

\* Nobody creates what another client creates.
OneRowCreation ==
  \A c, d \in Clients :
    reader[c].op = "create" /\ reader[d].op = "create" /\ reader[c].on = reader[d].on => c = d

\* The last of the audit records a tells a deletion.
DeletionTold(a) == a # <<>> /\ a[Len(a)].op = "delete"

\* The audit records a of row r.
Audited(a, r) ==
  /\ DeletionTold(a) => r.deleted
  /\ r.deleted => DeletionTold(a) \/ r.swept
  /\ r.swept => r.deleted
  /\ a # <<>> => a[Len(a)].version < r.version
  /\ \A i \in 1 .. Len(a) - 1 : a[i].op # a[i + 1].op /\ a[i].version < a[i + 1].version

\* Only files are swept, and no file is restored.
SweptMeant ==
  /\ \A o \in R!Objects : row[o].swept => o = Row /\ kind = "media"
  /\ \A c \in Clients : reader[c].op = "restore" /\ reader[c].on = Row => kind = "person"

\* The clients who may still change the row without another look at the tree.
Ready == {c \in Clients : reader[c].pc = "write" /\ reader[c].on = Row}

Counted ==
  IF row[Tree].deleted THEN late + Cardinality(Ready) < Cardinality(Clients) ELSE late = 0

RowsInv ==
  /\ R!TypeOK
  /\ \A c \in Clients : RowPlaced(reader[c]) /\ RowInformed(reader[c], row)
  /\ OneRowCreation
  /\ \A o \in R!Objects : Audited(audit[o], row[o])
  /\ SweptMeant /\ Counted

-----------------------------------------------------------------------------
(* Lemmas *)

LEMMA EndedMeant ==
  ASSUME R!RowsAssumption, NEW c \in Clients, reader[c] \in R!Client, RowInformed(reader[c], row)
  PROVE  /\ R!Ended(c) \in R!Client
         /\ R!Ended(c).known = reader[c].known /\ R!Ended(c).pc = "idle" /\ R!Ended(c).op = "none"
         /\ RowPlaced(R!Ended(c)) /\ RowInformed(R!Ended(c), row)
<1>1. R!Blank \in R!Content
  BY DEF R!Content, R!Blank, R!RowsAssumption
<1>2. R!Ended(c) \in R!Client /\ R!Ended(c).known = reader[c].known
      /\ R!Ended(c).pc = "idle" /\ R!Ended(c).op = "none"
  BY <1>1 DEF R!Ended, R!Client
<1> QED  BY <1>2 DEF RowPlaced, RowInformed

\* A step of a client that leaves the rows alone.
LEMMA QuietRowStep ==
  ASSUME R!RowsAssumption, RowsInv,
         NEW c \in Clients, NEW x \in R!Client, reader' = [reader EXCEPT ![c] = x],
         UNCHANGED <<kind, row, audit, late>>,
         RowPlaced(x), RowInformed(x, row),
         x.op = "create" =>
           \/ reader[c].op = "create" /\ reader[c].on = x.on
           \/ \A d \in Clients : ~ (reader[d].op = "create" /\ reader[d].on = x.on),
         x.op = "restore" /\ x.on = Row => kind = "person",
         x.pc = "write" /\ x.on = Row => ~ row[Tree].deleted
  PROVE  RowsInv'
<1>1. reader' \in [Clients -> R!Client] /\ reader'[c] = x
      /\ \A d \in Clients : d # c => reader'[d] = reader[d]
  BY DEF RowsInv, R!TypeOK
<1>2. R!TypeOK'
  BY <1>1 DEF RowsInv, R!TypeOK
<1>3. \A d \in Clients : RowPlaced(reader'[d]) /\ RowInformed(reader'[d], row')
  BY <1>1 DEF RowsInv
<1>4. OneRowCreation'
  BY <1>1 DEF RowsInv, OneRowCreation
<1>5. Counted'
  <2>1. CASE row[Tree].deleted
    <3>1. Ready' \subseteq Ready
      BY <2>1, <1>1 DEF Ready
    <3>2. Ready \subseteq Clients /\ IsFiniteSet(Clients)
      BY RowsFinite DEF Ready, R!RowsAssumption
    <3>3. Cardinality(Ready') <= Cardinality(Ready) /\ Cardinality(Ready') \in Nat
          /\ Cardinality(Ready) \in Nat /\ Cardinality(Clients) \in Nat
      BY <3>1, <3>2, FS_Subset, FS_CardinalityType
    <3> QED  BY <3>3, <2>1 DEF RowsInv, Counted, R!TypeOK
  <2>2. CASE ~ row[Tree].deleted
    BY <2>2 DEF RowsInv, Counted
  <2> QED  BY <2>1, <2>2
<1>6. SweptMeant'
  BY <1>1 DEF RowsInv, SweptMeant
<1> QED  BY <1>2, <1>3, <1>4, <1>5, <1>6 DEF RowsInv

LEMMA FailStep ==
  ASSUME R!RowsAssumption, RowsInv, NEW c \in Clients, R!Fail(c)
  PROVE  RowsInv'
<1>1. reader[c] \in R!Client /\ RowInformed(reader[c], row)
  BY DEF RowsInv, R!TypeOK
<1>2. R!Ended(c) \in R!Client /\ R!Ended(c).pc = "idle" /\ R!Ended(c).op = "none"
      /\ RowPlaced(R!Ended(c)) /\ RowInformed(R!Ended(c), row)
  BY <1>1, EndedMeant
<1> HIDE DEF R!Ended
<1> QED  BY <1>2, QuietRowStep DEF R!Fail

\* A row that moves to another version leaves what was told of it true: it is about an older one.
LEMMA InformedStays ==
  ASSUME R!RowsAssumption, row \in [R!Objects -> RowRecord],
         NEW o \in R!Objects, NEW r \in RowRecord, r.version = row[o].version + 1,
         NEW w, w = [row EXCEPT ![o] = r],
         NEW x \in R!Client, RowInformed(x, row), x.op = "create" => x.on # o
  PROVE  RowInformed(x, w)
<1>1. w[o] = r /\ \A p \in R!Objects : p # o => w[p] = row[p]
  OBVIOUS
<1>2. row[o].version \in Nat /\ r.version \in Nat
  BY DEF RowRecord, R!RowsAssumption
<1>3. x.known.on \in R!Objects \cup {Nothing} /\ x.known.version \in Nat
  BY DEF R!Client, R!RowsAssumption
<1>4. CASE x.known.on = o
  <2>1. x.known.on # Nothing
    BY <1>4 DEF R!Objects, R!RowsAssumption
  <2>2. x.known.version \in 1 .. row[o].version
    BY <2>1, <1>4 DEF RowInformed
  <2>3. x.known.version \in 1 .. r.version /\ x.known.version # r.version
    BY <2>2, <1>2
  <2>4. x.op = "create" => w[x.on].version = 0
    BY <1>1 DEF RowInformed
  <2> QED  BY <2>3, <2>4, <1>1, <1>4 DEF RowInformed
<1>5. CASE x.known.on # o
  <2>1. x.known.on # Nothing => w[x.known.on] = row[x.known.on]
    BY <1>1, <1>3, <1>5
  <2>2. x.op = "create" => w[x.on].version = 0
    BY <1>1 DEF RowInformed
  <2> QED  BY <2>1, <2>2 DEF RowInformed
<1> QED  BY <1>4, <1>5

\* The clients who are ready when one of them, or one at the tree, has committed.
LEMMA ReadyAfterCommit ==
  ASSUME R!RowsAssumption, RowsInv,
         NEW c \in Clients, R!At(c, "write"), reader'[c].pc = "idle",
         \A d \in Clients : d # c => reader'[d] = reader[d]
  PROVE  /\ Cardinality(Ready) \in Nat /\ Cardinality(Ready') \in Nat
         /\ reader[c].on = Row => Cardinality(Ready') + 1 = Cardinality(Ready)
         /\ reader[c].on = Tree => Cardinality(Ready') < Cardinality(Clients)
<1>1. IsFiniteSet(Clients) /\ Ready \subseteq Clients /\ Ready' \subseteq Clients
  BY RowsFinite DEF Ready, R!RowsAssumption
<1>2. IsFiniteSet(Ready) /\ IsFiniteSet(Ready')
  BY <1>1, FS_Subset
<1>3. Ready' = Ready \ {c}
  BY DEF Ready
<1>4. ASSUME reader[c].on = Row  PROVE Cardinality(Ready') + 1 = Cardinality(Ready)
  <2>1. c \in Ready
    BY <1>4 DEF Ready, R!At
  <2>2. Cardinality(Ready \ {c}) = Cardinality(Ready) - 1
    BY <2>1, <1>2, FS_RemoveElement
  <2>3. Cardinality(Ready) \in Nat
    BY <1>2, FS_CardinalityType
  <2> QED  BY <2>2, <2>3, <1>3
<1>5. ASSUME reader[c].on = Tree  PROVE Cardinality(Ready') < Cardinality(Clients)
  <2>1. Ready' \subseteq Clients \ {c} /\ IsFiniteSet(Clients \ {c})
    BY <1>1, <1>3, FS_Subset
  <2>2. Cardinality(Ready') <= Cardinality(Clients \ {c})
    BY <2>1, FS_Subset
  <2>3. Cardinality(Clients \ {c}) = Cardinality(Clients) - 1
    BY <1>1, FS_RemoveElement
  <2>4. Cardinality(Clients) \in Nat /\ Cardinality(Ready') \in Nat
    BY <1>1, <1>2, FS_CardinalityType
  <2> QED  BY <2>2, <2>3, <2>4
<1> QED  BY <1>2, <1>4, <1>5, FS_CardinalityType

\* A commit that tells its client the content of the row as it is now, and records in the audit log
\* what it has done.
LEMMA RowCommitStep ==
  ASSUME R!RowsAssumption, RowsInv,
         NEW c \in Clients, R!At(c, "write"),
         NEW o \in R!Objects, o = reader[c].on,
         reader[c].op = "create" \/ row[o].version > 0,
         NEW r \in RowRecord, r.version = row[o].version + 1,
         R!Commit(c, r, r.content),
         audit' \in [R!Objects -> Seq(AuditRecord)],
         \A p \in R!Objects : p # o => audit'[p] = audit[p],
         Audited(audit'[o], r), r.swept => row[o].swept
  PROVE  RowsInv'
<1>1. reader[c] \in R!Client /\ RowInformed(reader[c], row) /\ row \in [R!Objects -> RowRecord]
  BY DEF RowsInv, R!TypeOK, RowRecord
<1>2. row' = [row EXCEPT ![o] = r] /\ row' \in [R!Objects -> RowRecord] /\ row'[o] = r
      /\ (\A p \in R!Objects : p # o => row'[p] = row[p]) /\ kind' = kind
      /\ late' = (IF o = Tree THEN 0 ELSE IF row[Tree].deleted THEN late + 1 ELSE late)
  BY <1>1 DEF R!Commit
<1>3. ASSUME NEW d \in Clients, d # c  PROVE RowInformed(reader[d], row')
  <2>1. reader[d] \in R!Client /\ RowInformed(reader[d], row) /\ RowPlaced(reader[d])
    BY DEF RowsInv, R!TypeOK
  <2>2. reader[d].op = "create" => reader[d].on # o
    <3>1. CASE reader[c].op = "create"
      BY <1>3, <3>1 DEF RowsInv, OneRowCreation
    <3>2. CASE row[o].version > 0
      BY <2>1, <3>2 DEF RowInformed
    <3> QED  BY <3>1, <3>2
  <2> QED  BY <1>1, <1>2, <2>1, <2>2, InformedStays
<1>4. R!Ended(c) \in R!Client /\ R!Ended(c).known = reader[c].known
      /\ R!Ended(c).pc = "idle" /\ R!Ended(c).op = "none"
  BY <1>1, EndedMeant
<1>5. PICK y \in R!Client :
        /\ reader' = [reader EXCEPT ![c] = y]
        /\ y.pc = "idle" /\ y.op = "none"
        /\ \/ y.known = reader[c].known
           \/ y.known = [on |-> o, version |-> r.version, content |-> r.content]
  <2> DEFINE told == [on |-> o, version |-> r.version, content |-> r.content]
  <2>1. told \in [on : R!Objects \cup {Nothing}, version : 0 .. MaxRowVersion, content : R!Content]
    BY DEF RowRecord
  <2>2. [R!Ended(c) EXCEPT !.known = told] \in R!Client
        /\ [R!Ended(c) EXCEPT !.known = told].known = told
        /\ [R!Ended(c) EXCEPT !.known = told].pc = "idle"
        /\ [R!Ended(c) EXCEPT !.known = told].op = "none"
    <3> HIDE DEF told, R!Ended
    <3> QED  BY <1>4, <2>1 DEF R!Client
  <2>3. PICK answered \in BOOLEAN :
          reader' = [reader EXCEPT ![c] =
            IF answered THEN [R!Ended(c) EXCEPT !.known = told] ELSE R!Ended(c)]
    BY DEF R!Commit
  <2> HIDE DEF told, R!Ended
  <2>4. CASE answered
    BY <2>2, <2>3, <2>4 DEF told
  <2>5. CASE ~ answered
    BY <1>4, <2>3, <2>5
  <2> QED  BY <2>4, <2>5
<1>6. reader' \in [Clients -> R!Client] /\ reader'[c] = y
      /\ \A d \in Clients : d # c => reader'[d] = reader[d]
  BY <1>5 DEF RowsInv, R!TypeOK
<1>7. r.version \in Nat /\ row[o].version \in Nat /\ r.version \in 1 .. r.version
  BY <1>1 DEF RowRecord, R!RowsAssumption
<1>8. RowPlaced(y) /\ RowInformed(y, row')
  <2>1. RowPlaced(y)
    BY <1>5 DEF RowPlaced
  <2>2. CASE y.known = reader[c].known
    <3>1. RowInformed(y, row)
      BY <1>1, <1>5, <2>2 DEF RowInformed
    <3> QED  BY <2>1, <3>1, <1>1, <1>2, <1>5, InformedStays
  <2>3. CASE y.known = [on |-> o, version |-> r.version, content |-> r.content]
    BY <2>1, <2>3, <1>2, <1>5, <1>7 DEF RowInformed
  <2> QED  BY <1>5, <2>1, <2>2, <2>3
<1>9. late' \in Nat
  BY <1>2 DEF RowsInv, R!TypeOK
<1>10. R!TypeOK'
  BY <1>2, <1>6, <1>9 DEF RowsInv, R!TypeOK, RowRecord, AuditRecord
<1>11. \A d \in Clients : RowPlaced(reader'[d]) /\ RowInformed(reader'[d], row')
  BY <1>3, <1>6, <1>8 DEF RowsInv
<1>12. OneRowCreation'
  BY <1>5, <1>6 DEF RowsInv, OneRowCreation
<1>13. \A p \in R!Objects : Audited(audit'[p], row'[p])
  BY <1>2 DEF RowsInv
<1>14. Counted'
  <2>1. /\ Cardinality(Ready) \in Nat /\ Cardinality(Ready') \in Nat
        /\ reader[c].on = Row => Cardinality(Ready') + 1 = Cardinality(Ready)
        /\ reader[c].on = Tree => Cardinality(Ready') < Cardinality(Clients)
    BY <1>5, <1>6, ReadyAfterCommit
  <2>2. Cardinality(Clients) \in Nat /\ late \in Nat
    BY RowsFinite, FS_CardinalityType DEF R!RowsAssumption, RowsInv, R!TypeOK
  <2>3. CASE o = Tree
    BY <2>1, <2>2, <2>3, <1>2 DEF Counted
  <2>4. CASE o = Row
    <3>1. row'[Tree] = row[Tree] /\ o # Tree
      BY <2>4, <1>2 DEF R!Objects, R!RowsAssumption
    <3> QED  BY <3>1, <2>1, <2>2, <2>4, <1>2 DEF Counted, RowsInv
  <2> QED  BY <2>3, <2>4 DEF R!Objects
<1>15. SweptMeant'
  BY <1>2, <1>5, <1>6 DEF RowsInv, SweptMeant
<1> QED  BY <1>10, <1>11, <1>12, <1>13, <1>14, <1>15 DEF RowsInv

-----------------------------------------------------------------------------
(* The steps of a request *)

LEMMA GetStep ==
  ASSUME R!RowsAssumption, RowsInv, NEW c \in Clients, NEW o \in R!Objects, R!Get(c, o)
  PROVE  RowsInv'
<1> DEFINE told == [on |-> o, version |-> row[o].version, content |-> row[o].content]
           x == [reader[c] EXCEPT !.known = told]
<1>1. reader[c] \in R!Client /\ row[o] \in RowRecord /\ row[o].version \in 1 .. row[o].version
      /\ RowPlaced(reader[c]) /\ reader[c].pc = "idle"
  BY DEF RowsInv, R!TypeOK, RowRecord, R!Get, R!At
<1>2. told \in [on : R!Objects \cup {Nothing}, version : 0 .. MaxRowVersion, content : R!Content]
      /\ told.on = o /\ told.version = row[o].version /\ told.content = row[o].content
  BY <1>1 DEF RowRecord
<1>3. reader' = [reader EXCEPT ![c] = x] /\ UNCHANGED <<kind, row, audit, late>>
  BY DEF R!Get
<1> HIDE DEF told
<1>4. x \in R!Client /\ x.known = told /\ x.pc = "idle" /\ x.op = "none"
  BY <1>1, <1>2 DEF R!Client, RowPlaced
<1> HIDE DEF x
<1>5. RowPlaced(x) /\ RowInformed(x, row)
  BY <1>1, <1>2, <1>4 DEF RowPlaced, RowInformed
<1> QED  BY <1>3, <1>4, <1>5, QuietRowStep

LEMMA BeginCreateStep ==
  ASSUME R!RowsAssumption, RowsInv, NEW c \in Clients,
         NEW o \in R!Objects, NEW pc \in {"check", "write"}, pc = "write" => o = Tree,
         R!BeginCreate(c, o, pc)
  PROVE  RowsInv'
<1> DEFINE x == [reader[c] EXCEPT !.op = "create", !.on = o, !.pc = pc]
<1>1. reader[c] \in R!Client /\ RowPlaced(reader[c]) /\ RowInformed(reader[c], row)
  BY DEF RowsInv, R!TypeOK
<1>2. reader' = [reader EXCEPT ![c] = x] /\ UNCHANGED <<kind, row, audit, late>>
  BY DEF R!BeginCreate
<1>3. x \in R!Client /\ x.known = reader[c].known /\ x.op = "create" /\ x.on = o /\ x.pc = pc
  BY <1>1 DEF R!Client
<1> HIDE DEF x
<1>4. RowPlaced(x) /\ RowInformed(x, row)
  BY <1>1, <1>3 DEF RowPlaced, RowInformed, R!BeginCreate
<1>5. \A d \in Clients : ~ (reader[d].op = "create" /\ reader[d].on = x.on)
  BY <1>3 DEF R!BeginCreate, R!Doing
<1>6. ~ (x.pc = "write" /\ x.on = Row)
  BY <1>3 DEF R!RowsAssumption
<1> QED  BY <1>2, <1>3, <1>4, <1>5, <1>6, QuietRowStep

LEMMA BeginStep ==
  ASSUME R!RowsAssumption, RowsInv, NEW c \in Clients,
         NEW op \in {"update", "delete", "restore"}, NEW named \in SUBSET Fields,
         op = "restore" /\ reader[c].known.on = Row => kind = "person",
         R!Begin(c, op, named)
  PROVE  RowsInv'
<1> DEFINE x == [reader[c] EXCEPT !.op = op, !.on = reader[c].known.on,
                                  !.named = named, !.pc = "read"]
<1>1. reader[c] \in R!Client /\ RowInformed(reader[c], row)
      /\ reader[c].known.on \in R!Objects \cup {Nothing}
  BY DEF RowsInv, R!TypeOK, R!Client
<1>2. reader' = [reader EXCEPT ![c] = x] /\ UNCHANGED <<kind, row, audit, late>>
      /\ reader[c].known.on # Nothing
  BY DEF R!Begin
<1>3. x \in R!Client /\ x.known = reader[c].known /\ x.op = op /\ x.on = reader[c].known.on
      /\ x.pc = "read"
  BY <1>1 DEF R!Client
<1> HIDE DEF x
<1>4. RowPlaced(x) /\ RowInformed(x, row)
  BY <1>1, <1>2, <1>3 DEF RowPlaced, RowInformed
<1> QED  BY <1>2, <1>3, <1>4, QuietRowStep

LEMMA ReadStep ==
  ASSUME R!RowsAssumption, RowsInv, NEW c \in Clients, NEW found \in BOOLEAN,
         NEW pc \in {"check", "write"}, pc = "write" => reader[c].on = Tree,
         R!Read(c, found, pc)
  PROVE  RowsInv'
<1>1. CASE R!Fail(c)
  BY <1>1, FailStep
<1>2. CASE ~ R!Fail(c)
  <2> DEFINE r == row[reader[c].on]
             x == [reader[c] EXCEPT !.read = r.content, !.pc = pc]
  <2>1. reader[c] \in R!Client /\ RowPlaced(reader[c]) /\ RowInformed(reader[c], row)
        /\ reader[c].pc = "read"
    BY DEF RowsInv, R!TypeOK, R!Read, R!At
  <2>2. reader' = [reader EXCEPT ![c] = x] /\ UNCHANGED <<kind, row, audit, late>>
        /\ r.version = reader[c].known.version
    BY <1>2 DEF R!Read
  <2>3. reader[c].op \in {"update", "delete", "restore"} /\ reader[c].on \in R!Objects
        /\ reader[c].on = reader[c].known.on /\ reader[c].on # Nothing
    BY <2>1 DEF RowPlaced, R!Client, R!Objects, R!RowsAssumption
  <2>4. r \in RowRecord /\ r.content \in R!Content
    BY <2>3 DEF RowsInv, R!TypeOK, RowRecord
  <2>5. r.content = reader[c].known.content
    BY <2>1, <2>2, <2>3 DEF RowInformed
  <2> HIDE DEF r
  <2>6. x \in R!Client /\ x.known = reader[c].known /\ x.op = reader[c].op /\ x.on = reader[c].on
        /\ x.pc = pc /\ x.read = r.content
    BY <2>1, <2>4 DEF R!Client
  <2> HIDE DEF x
  <2>7. RowPlaced(x) /\ RowInformed(x, row)
    BY <2>1, <2>3, <2>5, <2>6 DEF RowPlaced, RowInformed
  <2>8. ~ (x.pc = "write" /\ x.on = Row)
    BY <2>6 DEF R!RowsAssumption
  <2>9. x.op # "create" /\ (x.op = "restore" /\ x.on = Row => kind = "person")
    BY <2>3, <2>6 DEF RowsInv, SweptMeant
  <2> QED  BY <2>2, <2>6, <2>7, <2>8, <2>9, QuietRowStep
<1> QED  BY <1>1, <1>2

LEMMA CheckTreeStep ==
  ASSUME R!RowsAssumption, RowsInv, NEW c \in Clients, R!CheckTree(c)
  PROVE  RowsInv'
<1>1. CASE R!Fail(c)
  BY <1>1, FailStep
<1>2. CASE ~ R!Fail(c)
  <2> DEFINE x == [reader[c] EXCEPT !.pc = "write"]
  <2>1. reader[c] \in R!Client /\ RowPlaced(reader[c]) /\ RowInformed(reader[c], row)
        /\ reader[c].pc = "check"
    BY DEF RowsInv, R!TypeOK, R!CheckTree, R!At
  <2>2. reader' = [reader EXCEPT ![c] = x] /\ UNCHANGED <<kind, row, audit, late>>
        /\ ~ row[Tree].deleted
    BY <1>2 DEF R!CheckTree, R!Goto, R!TreeLive
  <2>3. x \in R!Client /\ x.known = reader[c].known /\ x.op = reader[c].op /\ x.on = reader[c].on
        /\ x.pc = "write" /\ x.read = reader[c].read
    BY <2>1 DEF R!Client
  <2> HIDE DEF x
  <2>4. RowPlaced(x) /\ RowInformed(x, row)
    BY <2>1, <2>3 DEF RowPlaced, RowInformed
  <2>5. x.op = "restore" /\ x.on = Row => kind = "person"
    BY <2>3 DEF RowsInv, SweptMeant
  <2> QED  BY <2>2, <2>3, <2>4, <2>5, QuietRowStep
<1> QED  BY <1>1, <1>2

-----------------------------------------------------------------------------
(* The steps that write *)

\* Who is about to write knows the row: whatever matches the version is what was told.
LEMMA WriterKnows ==
  ASSUME R!RowsAssumption, RowsInv, NEW c \in Clients,
         R!At(c, "write"), reader[c].op \in {"update", "delete", "restore"}, R!Matches(c)
  PROVE  /\ reader[c].on \in R!Objects
         /\ row[reader[c].on].version > 0
         /\ reader[c].read = row[reader[c].on].content
         /\ reader[c].known.content = row[reader[c].on].content
<1>1. reader[c] \in R!Client /\ RowPlaced(reader[c]) /\ RowInformed(reader[c], row)
  BY DEF RowsInv, R!TypeOK
<1>2. reader[c].on \in R!Objects /\ reader[c].on = reader[c].known.on /\ reader[c].on # Nothing
      /\ reader[c].read = reader[c].known.content
  BY <1>1 DEF RowPlaced, R!At, R!Objects, R!RowsAssumption
<1>3. reader[c].known.version = row[reader[c].on].version
  BY DEF R!Matches
<1>4. row[reader[c].on].version \in Nat
  BY <1>2 DEF RowsInv, R!TypeOK, R!RowsAssumption
<1>5. row[reader[c].on].version > 0
  BY <1>1, <1>2, <1>3, <1>4 DEF RowInformed
<1> QED  BY <1>1, <1>2, <1>3, <1>5 DEF RowInformed

LEMMA CreateStep ==
  ASSUME R!RowsAssumption, RowsInv, NEW c \in Clients, R!Create(c)
  PROVE  RowsInv'
<1> DEFINE o == reader[c].on
           written == [f \in DOMAIN R!Blank |-> IF f = Aside THEN 0 ELSE 1]
           r == [version |-> 1, deleted |-> FALSE, swept |-> FALSE, content |-> written]
<1>1. reader[c] \in R!Client /\ RowPlaced(reader[c]) /\ RowInformed(reader[c], row)
      /\ R!At(c, "write") /\ reader[c].op = "create" /\ UNCHANGED audit
  BY DEF RowsInv, R!TypeOK, R!Create, R!Doing
<1>2. o \in R!Objects /\ row[o].version = 0
  BY <1>1 DEF RowPlaced, RowInformed, R!At
<1>3. written \in R!Content
  BY DEF R!Blank, R!Content, R!RowsAssumption
<1>4. R!Commit(c, r, written)
  BY DEF R!Create
<1> HIDE DEF written
<1>5. r \in RowRecord /\ r.version = 1 /\ r.content = written /\ ~ r.deleted /\ ~ r.swept
  BY <1>3 DEF RowRecord, R!RowsAssumption
<1>6. Audited(audit[o], row[o]) /\ audit[o] \in Seq(AuditRecord)
      /\ audit \in [R!Objects -> Seq(AuditRecord)]
  BY <1>2 DEF RowsInv, R!TypeOK, AuditRecord
<1>7. audit[o] = <<>>
  <2> SUFFICES ASSUME audit[o] # <<>>  PROVE FALSE
    OBVIOUS
  <2>1. Len(audit[o]) \in 1 .. Len(audit[o]) /\ audit[o][Len(audit[o])] \in AuditRecord
    BY <1>6
  <2>2. audit[o][Len(audit[o])].version \in Nat /\ audit[o][Len(audit[o])].version >= 1
    BY <2>1 DEF AuditRecord, R!RowsAssumption
  <2>3. audit[o][Len(audit[o])].version < row[o].version
    BY <1>6 DEF Audited
  <2> QED  BY <2>2, <2>3, <1>2
<1> HIDE DEF r
<1>8. Audited(audit[o], r)
  BY <1>5, <1>7 DEF Audited, DeletionTold
<1>9. r.version = row[o].version + 1
  BY <1>2, <1>5
<1> HIDE DEF o
<1>10. o = reader[c].on
  BY DEF o
<1> QED  BY <1>1, <1>2, <1>4, <1>5, <1>6, <1>8, <1>9, <1>10, RowCommitStep

LEMMA UpdateRowStep ==
  ASSUME R!RowsAssumption, RowsInv, NEW c \in Clients, R!UpdateRow(c)
  PROVE  RowsInv'
<1>1. CASE ~ R!Matches(c)
  BY <1>1, FailStep DEF R!UpdateRow
<1>2. CASE R!Matches(c)
  <2> DEFINE o == reader[c].on
             v == row[o].version + 1
             merged == [f \in DOMAIN R!Blank |->
                          IF f \in reader[c].named THEN v ELSE reader[c].read[f]]
             written == [merged EXCEPT ![Aside] = row[o].content[Aside]]
             r == [row[o] EXCEPT !.version = v, !.content = written]
  <2>1. reader[c] \in R!Client /\ reader[c].named \in SUBSET Fields
        /\ R!At(c, "write") /\ reader[c].op = "update"
    BY DEF RowsInv, R!TypeOK, R!UpdateRow, R!Doing, R!Client
  <2>2. o \in R!Objects /\ row[o].version > 0 /\ reader[c].read = row[o].content
    BY <1>2, <2>1, WriterKnows
  <2>3. row[o].version < MaxRowVersion /\ R!Commit(c, r, merged) /\ UNCHANGED audit
    BY <1>2 DEF R!UpdateRow
  <2>4. row[o] \in RowRecord /\ row[o].content \in R!Content /\ row[o].version \in Nat
        /\ v \in 0 .. MaxRowVersion
    BY <2>2, <2>3 DEF RowsInv, R!TypeOK, RowRecord, R!RowsAssumption
  <2>5. merged \in R!Content
    BY <2>2, <2>4 DEF R!Content, R!Blank
  <2>6. written = merged
    <3>1. merged[Aside] = row[o].content[Aside]
      BY <2>1, <2>2 DEF R!Blank, R!RowsAssumption
    <3> HIDE DEF merged
    <3> QED  BY <3>1, <2>5 DEF R!Content
  <2>7. Audited(audit[o], row[o]) /\ audit \in [R!Objects -> Seq(AuditRecord)] /\ ~ row[o].deleted
    BY <1>2, <2>1, <2>2 DEF RowsInv, R!TypeOK, AuditRecord, R!Matches, R!Doing
  <2> HIDE DEF merged, written
  <2>8. r \in RowRecord /\ r.version = row[o].version + 1 /\ r.content = merged
        /\ r.deleted = row[o].deleted /\ r.swept = row[o].swept
    BY <2>4, <2>5, <2>6 DEF RowRecord
  <2> HIDE DEF r
  <2>9. Audited(audit[o], r)
    <3>1. audit[o] \in Seq(AuditRecord)
      BY <2>2, <2>7
    <3>2. audit[o] # <<>> => audit[o][Len(audit[o])] \in AuditRecord
      BY <3>1
    <3>3. audit[o] # <<>> => audit[o][Len(audit[o])].version \in Nat
      BY <3>2 DEF AuditRecord
    <3> QED  BY <3>3, <2>4, <2>7, <2>8 DEF Audited, DeletionTold
  <2>10. o = reader[c].on /\ R!Commit(c, r, r.content)
    BY <2>3, <2>8
  <2> HIDE DEF o
  <2> QED  BY <2>1, <2>2, <2>3, <2>7, <2>8, <2>9, <2>10, RowCommitStep
<1> QED  BY <1>1, <1>2

\* A deletion or a restore, when the version matches, is recorded with the version it was made of.
LEMMA RecordedMeant ==
  ASSUME R!RowsAssumption,
         NEW a \in Seq(AuditRecord), NEW r \in RowRecord, NEW s \in RowRecord, Audited(a, r),
         NEW op \in {"delete", "restore"}, r.deleted <=> op = "restore",
         op = "restore" => ~ r.swept, s.swept => r.swept,
         s.version = r.version + 1, s.deleted <=> op = "delete", r.version > 0,
         NEW b, b = Append(a, [op |-> op, version |-> r.version])
  PROVE  b \in Seq(AuditRecord) /\ Audited(b, s)
<1> DEFINE new == [op |-> op, version |-> r.version]
<1>1. r.version \in Nat /\ r.version \in 1 .. MaxRowVersion
  BY DEF RowRecord, R!RowsAssumption
<1>2. new \in AuditRecord /\ new.op = op /\ new.version = r.version
  BY <1>1 DEF AuditRecord
<1> HIDE DEF new
<1>3. /\ b \in Seq(AuditRecord) /\ Len(b) = Len(a) + 1 /\ b # <<>> /\ b[Len(b)] = new
      /\ \A i \in 1 .. Len(a) : b[i] = a[i]
  BY <1>2 DEF new
<1>4. Len(a) \in Nat /\ (a # <<>> => Len(a) \in 1 .. Len(a))
  OBVIOUS
<1>5. ASSUME NEW i \in 1 .. Len(b) - 1
      PROVE  b[i].op # b[i + 1].op /\ b[i].version < b[i + 1].version
  <2>1. CASE i = Len(a)
    <3>1. a # <<>> /\ b[i] = a[Len(a)] /\ b[i + 1] = new
      BY <1>3, <1>4, <2>1
    <3>2. a[Len(a)] \in AuditRecord
      BY <3>1, <1>4
    <3>3. a[Len(a)].op = "delete" <=> r.deleted
      BY <3>1 DEF Audited, DeletionTold
    <3>4. a[Len(a)].op # op
      BY <3>2, <3>3 DEF AuditRecord
    <3>5. a[Len(a)].version < r.version
      BY <3>1 DEF Audited
    <3> QED  BY <3>1, <3>4, <3>5, <1>2
  <2>2. CASE i # Len(a)
    <3>1. i \in 1 .. Len(a) - 1 /\ b[i] = a[i] /\ b[i + 1] = a[i + 1]
      BY <1>3, <1>4, <2>2
    <3> QED  BY <3>1 DEF Audited
  <2> QED  BY <2>1, <2>2
<1>6. b[Len(b)].version < s.version
  BY <1>1, <1>2, <1>3
<1>7. s.deleted <=> DeletionTold(b)
  BY <1>2, <1>3 DEF DeletionTold
<1>8. ~ s.swept
  BY DEF Audited
<1> QED  BY <1>3, <1>5, <1>6, <1>7, <1>8 DEF Audited

LEMMA MutateDeletionStep ==
  ASSUME R!RowsAssumption, RowsInv, NEW c \in Clients, R!MutateDeletion(c)
  PROVE  RowsInv'
<1>1. CASE ~ R!Matches(c)
  BY <1>1, FailStep DEF R!MutateDeletion, R!Recorded, R!Fail
<1>2. CASE R!Matches(c)
  <2> DEFINE o == reader[c].on
             s == [row[o] EXCEPT !.version = @ + 1, !.deleted = R!Doing(c, "delete")]
             new == [op |-> reader[c].op, version |-> row[o].version]
  <2>1. reader[c] \in R!Client /\ R!At(c, "write") /\ reader[c].op \in {"delete", "restore"}
    BY DEF RowsInv, R!TypeOK, R!MutateDeletion
  <2>2. o \in R!Objects /\ row[o].version > 0 /\ reader[c].read = row[o].content
    BY <1>2, <2>1, WriterKnows
  <2>3. row[o].version < MaxRowVersion /\ R!Commit(c, s, reader[c].read)
        /\ audit' = [audit EXCEPT ![o] = Append(@, new)]
    BY <1>2 DEF R!MutateDeletion, R!Recorded
  <2>4. row[o] \in RowRecord /\ Audited(audit[o], row[o])
        /\ audit \in [R!Objects -> Seq(AuditRecord)]
    BY <2>2 DEF RowsInv, R!TypeOK, RowRecord, AuditRecord
  <2>5. row[o].deleted <=> reader[c].op = "restore"
    BY <1>2 DEF R!Matches, R!Doing
  <2>6. s \in RowRecord /\ s.version = row[o].version + 1 /\ s.content = row[o].content
        /\ s.deleted = R!Doing(c, "delete") /\ s.swept = row[o].swept
    <3>1. row[o].version + 1 \in 0 .. MaxRowVersion
      BY <2>3, <2>4 DEF RowRecord, R!RowsAssumption
    <3> QED  BY <3>1, <2>4 DEF RowRecord, R!Doing
  <2>7. s.deleted <=> reader[c].op = "delete"
    BY <2>6 DEF R!Doing
  <2> HIDE DEF s
  <2>12. reader[c].op = "restore" => ~ row[o].swept
    BY <2>2 DEF RowsInv, SweptMeant
  <2>8. audit'[o] = Append(audit[o], new) /\ \A p \in R!Objects : p # o => audit'[p] = audit[p]
    BY <2>2, <2>3, <2>4
  <2>9. audit'[o] \in Seq(AuditRecord) /\ Audited(audit'[o], s)
    BY <2>1, <2>2, <2>4, <2>5, <2>6, <2>7, <2>8, <2>12, RecordedMeant
  <2>10. audit' \in [R!Objects -> Seq(AuditRecord)]
    <3> HIDE DEF new
    <3> QED  BY <2>2, <2>3, <2>4, <2>8, <2>9
  <2>11. o = reader[c].on /\ R!Commit(c, s, s.content)
    BY <2>2, <2>3, <2>6
  <2> HIDE DEF o
  <2> QED  BY <2>1, <2>2, <2>6, <2>8, <2>9, <2>10, <2>11, RowCommitStep
<1> QED  BY <1>1, <1>2

\* Something happens to the row beside the requests: it moves to another version, or keeps version
\* and content.
LEMMA BesideStep ==
  ASSUME R!RowsAssumption, RowsInv, UNCHANGED <<kind, audit, reader, late>>,
         row[Row].version > 0, NEW r \in RowRecord, row' = [row EXCEPT ![Row] = r],
         \/ r.version = row[Row].version + 1
         \/ r.version = row[Row].version /\ r.content = row[Row].content,
         row[Row].deleted => r.deleted,
         r.deleted => row[Row].deleted \/ r.swept,
         row[Row].swept => r.swept,
         r.swept => r.deleted /\ (row[Row].swept \/ kind = "media")
  PROVE  RowsInv'
<1>1. Row \in R!Objects /\ Row # Tree /\ row[Row] \in RowRecord /\ row[Row].version \in Nat
      /\ r.version \in Nat
  BY DEF R!Objects, R!RowsAssumption, RowsInv, R!TypeOK, RowRecord
<1>4. row \in [R!Objects -> RowRecord]
  BY DEF RowsInv, R!TypeOK, RowRecord
<1>5. row' \in [R!Objects -> RowRecord] /\ row'[Row] = r
      /\ \A p \in R!Objects : p # Row => row'[p] = row[p]
  BY <1>1, <1>4
<1>6. ASSUME NEW d \in Clients  PROVE RowInformed(reader[d], row')
  <2>1. reader[d] \in R!Client /\ RowInformed(reader[d], row)
    BY DEF RowsInv, R!TypeOK
  <2>2. reader[d].op = "create" => reader[d].on # Row
    BY <2>1, <1>1 DEF RowInformed
  <2>3. CASE r.version = row[Row].version + 1
    BY <1>1, <1>4, <2>1, <2>2, <2>3, InformedStays
  <2>4. CASE r.version = row[Row].version /\ r.content = row[Row].content
    <3>1. {reader[d].known.on, reader[d].on} \subseteq R!Objects \cup {Nothing}
      BY <2>1 DEF R!Client
    <3>2. \A p \in R!Objects : /\ row'[p].version = row[p].version
                               /\ row'[p].content = row[p].content
      BY <1>5, <2>4
    <3>3. reader[d].op = "create" => reader[d].on \in R!Objects
      BY DEF RowsInv, RowPlaced
    <3> QED  BY <2>1, <3>1, <3>2, <3>3 DEF RowInformed
  <2> QED  BY <2>3, <2>4
<1>7. Audited(audit[Row], r)
  <2>1. Audited(audit[Row], row[Row]) /\ audit[Row] \in Seq(AuditRecord)
    BY <1>1 DEF RowsInv, R!TypeOK, AuditRecord
  <2>2. audit[Row] # <<>> => audit[Row][Len(audit[Row])] \in AuditRecord
    BY <2>1
  <2>3. audit[Row] # <<>> => audit[Row][Len(audit[Row])].version \in Nat
    BY <2>2 DEF AuditRecord
  <2>4. audit[Row] # <<>> => audit[Row][Len(audit[Row])].version < r.version
    BY <2>1, <2>3, <1>1 DEF Audited
  <2> QED  BY <2>1, <2>4 DEF Audited
<1>9. R!TypeOK'
  BY <1>5 DEF RowsInv, R!TypeOK, RowRecord
<1>10. Counted'
  <2>1. row'[Tree] = row[Tree]
    BY <1>1, <1>5 DEF R!Objects
  <2> QED  BY <2>1 DEF RowsInv, Counted, Ready
<1>11. \A p \in R!Objects : Audited(audit'[p], row'[p])
  BY <1>5, <1>7 DEF RowsInv
<1>12. SweptMeant'
  BY <1>1, <1>5 DEF RowsInv, SweptMeant
<1> QED  BY <1>6, <1>9, <1>10, <1>11, <1>12 DEF RowsInv, OneRowCreation

LEMMA WriteAsideStep ==
  ASSUME R!RowsAssumption, RowsInv, NEW content, R!WriteAside(content),
         content = 0 \/ content = row[Row].version + 1
  PROVE  RowsInv'
<1> DEFINE r == [row[Row] EXCEPT !.version = R!Stamp(row[Row]), !.content[Aside] = content]
<1>1. Row \in R!Objects /\ row[Row] \in RowRecord /\ row[Row].version \in Nat
      /\ row[Row].version + 1 \in 0 .. MaxRowVersion /\ row[Row].version > 0
  BY DEF R!Objects, R!RowsAssumption, R!WriteAside, RowsInv, R!TypeOK, RowRecord
<1>2. row' = [row EXCEPT ![Row] = r] /\ UNCHANGED <<kind, audit, reader, late>>
  BY <1>1 DEF R!WriteAside, RowsInv, R!TypeOK
<1>3. r \in RowRecord /\ r.version = row[Row].version + 1 /\ r.deleted = row[Row].deleted
      /\ r.swept = row[Row].swept
  <2>1. content \in 0 .. MaxRowVersion
    BY <1>1 DEF R!RowsAssumption
  <2> QED  BY <1>1, <2>1 DEF RowRecord, R!Content, R!Stamp
<1> HIDE DEF r
<1>4. Audited(audit[Row], row[Row])
  BY <1>1 DEF RowsInv
<1> QED  BY <1>1, <1>2, <1>3, <1>4, BesideStep DEF Audited

LEMMA CleanupStep ==
  ASSUME R!RowsAssumption, RowsInv, R!ReserveCleanupCandidate \/ R!DeleteCleanupCandidate
  PROVE  RowsInv'
<1>1. Row \in R!Objects /\ row[Row] \in RowRecord /\ row[Row].version \in Nat
      /\ row[Row].version > 0 /\ kind = "media" /\ UNCHANGED <<kind, audit, reader, late>>
  BY DEF R!Objects, R!RowsAssumption, R!ReserveCleanupCandidate, R!DeleteCleanupCandidate,
         RowsInv, R!TypeOK, RowRecord
<1>2. CASE R!ReserveCleanupCandidate
  <2> DEFINE r == [row[Row] EXCEPT !.version = R!Stamp(row[Row]), !.deleted = TRUE, !.swept = TRUE]
  <2>1. row' = [row EXCEPT ![Row] = r]
    BY <1>2 DEF R!ReserveCleanupCandidate
  <2>3. row[Row].version \in 1 .. MaxRowVersion - 1 /\ MaxRowVersion \in Nat
    BY <1>2 DEF R!ReserveCleanupCandidate, R!RowsAssumption
  <2>4. row[Row].version + 1 \in 0 .. MaxRowVersion
    BY <1>1, <2>3
  <2>2. r \in RowRecord /\ r.version = row[Row].version + 1 /\ r.deleted /\ r.swept
    BY <1>1, <2>4 DEF RowRecord, R!Stamp
  <2> HIDE DEF r
  <2> QED  BY <1>1, <2>1, <2>2, BesideStep
<1>3. CASE R!DeleteCleanupCandidate
  <2> DEFINE r == [row[Row] EXCEPT !.deleted = TRUE, !.swept = TRUE]
  <2>1. row' = [row EXCEPT ![Row] = r]
    BY <1>1, <1>3 DEF R!DeleteCleanupCandidate, RowsInv, R!TypeOK
  <2>2. /\ r \in RowRecord /\ r.version = row[Row].version /\ r.content = row[Row].content
        /\ r.deleted /\ r.swept
    BY <1>1 DEF RowRecord
  <2> HIDE DEF r
  <2> QED  BY <1>1, <2>1, <2>2, BesideStep
<1> QED  BY <1>2, <1>3

-----------------------------------------------------------------------------
(* Theorems *)

LEMMA InitRowsInv ==
  ASSUME R!RowsAssumption, R!Init
  PROVE  RowsInv
<1>1. R!Blank \in R!Content /\ Nothing \notin R!Objects
  BY DEF R!Blank, R!Content, R!RowsAssumption, R!Objects
<1>2. R!TypeOK
  <2>1. row \in [R!Objects -> RowRecord]
    BY <1>1 DEF R!Init, RowRecord, R!RowsAssumption
  <2>2. reader \in [Clients -> R!Client]
    BY <1>1 DEF R!Init, R!Client, R!RowsAssumption
  <2>3. audit \in [R!Objects -> Seq(AuditRecord)]
    BY DEF R!Init
  <2>4. kind \in R!Kinds /\ late \in Nat
    BY DEF R!Init
  <2> QED  BY <2>1, <2>2, <2>3, <2>4 DEF R!TypeOK, RowRecord, AuditRecord
<1>3. \A c \in Clients : RowPlaced(reader[c]) /\ RowInformed(reader[c], row)
  BY DEF R!Init, RowPlaced, RowInformed
<1>4. OneRowCreation
  BY DEF R!Init, OneRowCreation
<1>5. \A o \in R!Objects : Audited(audit[o], row[o])
  BY DEF R!Init, Audited, DeletionTold
<1>6. Counted
  BY DEF R!Init, Counted, R!Objects
<1>7. SweptMeant
  BY DEF R!Init, SweptMeant
<1> QED  BY <1>2, <1>3, <1>4, <1>5, <1>6, <1>7 DEF RowsInv

LEMMA StepRowsInv ==
  ASSUME R!RowsAssumption, RowsInv, NEW c \in Clients, R!Step(c)
  PROVE  RowsInv'
<1>1. ASSUME R!GetTree(c) \/ R!GetPerson(c) \/ R!GetRelation(c) \/ R!GetMedia(c)  PROVE RowsInv'
  BY <1>1, GetStep DEF R!GetTree, R!GetPerson, R!GetRelation, R!GetMedia, R!Objects
<1>2. ASSUME R!BeginCreateTree(c) \/ R!BeginCreateRow(c)  PROVE RowsInv'
  BY <1>2, BeginCreateStep DEF R!BeginCreateTree, R!BeginCreateRow, R!Objects
<1>3. ASSUME R!BeginUpdate(c) \/ R!BeginDelete(c) \/ R!BeginRestore(c)  PROVE RowsInv'
  BY <1>3, BeginStep DEF R!BeginUpdate, R!BeginDelete, R!BeginRestore
<1>4. ASSUME R!ReadTree(c) \/ R!ReadPerson(c) \/ R!ReadRelation(c) \/ R!ReadMedia(c)  PROVE RowsInv'
  <2>1. R!TreeLive \in BOOLEAN
    BY DEF R!TreeLive
  <2> QED  BY <1>4, <2>1, ReadStep
           DEF R!ReadTree, R!ReadPerson, R!ReadRelation, R!ReadMedia, R!Concerns
<1>5. ASSUME R!CreateTree(c) \/ R!CreatePerson(c) \/ R!CreateRelation(c) \/ R!CreateMedia(c)
      PROVE  RowsInv'
  BY <1>5, CreateStep DEF R!CreateTree, R!CreatePerson, R!CreateRelation, R!CreateMedia
<1>6. ASSUME R!UpdateTree(c) \/ R!UpdatePerson(c) \/ R!UpdateRelation(c) \/ R!UpdateMedia(c)
      PROVE  RowsInv'
  BY <1>6, UpdateRowStep, FailStep DEF R!UpdateTree, R!UpdatePerson, R!UpdateRelation, R!UpdateMedia
<1>7. ASSUME R!MutateTree(c) \/ R!MutatePerson(c) \/ R!DeleteRelation(c) \/ R!DeleteMedia(c)
      PROVE  RowsInv'
  BY <1>7, MutateDeletionStep DEF R!MutateTree, R!MutatePerson, R!DeleteRelation, R!DeleteMedia
<1> QED  BY <1>1, <1>2, <1>3, <1>4, <1>5, <1>6, <1>7, CheckTreeStep, FailStep DEF R!Step, R!Abort

LEMMA NextRowsInv ==
  ASSUME R!RowsAssumption, RowsInv, [R!Next]_R!vars
  PROVE  RowsInv'
<1>1. CASE UNCHANGED R!vars
  BY <1>1 DEF R!vars, RowsInv, R!TypeOK, OneRowCreation, Counted, Ready, SweptMeant
<1>2. CASE R!Beside
  <2>1. CASE R!SetPrimaryMedia \/ R!ClearPrimaryMedia \/ R!ProcessMedia
    BY <2>1, WriteAsideStep DEF R!SetPrimaryMedia, R!ClearPrimaryMedia, R!ProcessMedia
  <2> QED  BY <1>2, <2>1, CleanupStep DEF R!Beside
<1>3. CASE \E c \in Clients : R!Step(c)
  BY <1>3, StepRowsInv
<1> QED  BY <1>1, <1>2, <1>3 DEF R!Next

LEMMA RowsInvariance ==
  ASSUME R!RowsAssumption
  PROVE  R!Spec => []RowsInv
<1>1. R!Init => RowsInv
  BY InitRowsInv
<1>2. RowsInv /\ [R!Next]_R!vars => RowsInv'
  BY NextRowsInv
<1> QED  BY <1>1, <1>2, PTL DEF R!Spec

\* The tables, the audit log and the requests keep their types, for any number of clients.
THEOREM RowsTypeCorrect ==
  ASSUME R!RowsAssumption
  PROVE  R!Spec => []R!TypeOK
<1>1. RowsInv => R!TypeOK
  BY DEF RowsInv
<1> QED  BY <1>1, RowsInvariance, PTL

\* Trees, persons, relations and files: for any clients, fields and versions, whoever changes a row
\* knew all of its content, although it is read and written in two statements without a lock.
THEOREM NoLostUpdateHolds ==
  ASSUME R!RowsAssumption
  PROVE  R!Spec => NoLostUpdate
<1>1. RowsInv /\ [R!Next]_R!vars =>
        [\A c \in Clients :
           (R!UpdateRow(c) \/ R!MutateDeletion(c)) /\ row' # row =>
              reader[c].known.content = row[reader[c].on].content]_R!vars
  <2> SUFFICES ASSUME RowsInv, NEW c \in Clients, R!UpdateRow(c) \/ R!MutateDeletion(c), row' # row
               PROVE  reader[c].known.content = row[reader[c].on].content
    OBVIOUS
  <2>1. R!At(c, "write") /\ reader[c].op \in {"update", "delete", "restore"}
    BY DEF R!UpdateRow, R!MutateDeletion, R!Doing
  <2>2. R!Matches(c)
    BY DEF R!UpdateRow, R!MutateDeletion, R!Fail
  <2> QED  BY <2>1, <2>2, WriterKnows
<1> QED  BY <1>1, RowsInvariance, PTL DEF R!Spec, NoLostUpdate, R!NoLostUpdate

\* The audit log tells what is deleted, but for the files that the cleanup deleted or removed, and
\* its records alternate in the order of the versions.
THEOREM AuditTellsDeletionsHolds ==
  ASSUME R!RowsAssumption
  PROVE  R!Spec => []AuditTellsDeletions
<1>1. RowsInv => AuditTellsDeletions
  <2> SUFFICES ASSUME RowsInv, NEW o \in R!Objects
               PROVE  /\ DeletionTold(audit[o]) => row[o].deleted
                      /\ row[o].deleted => \/ DeletionTold(audit[o])
                                           \/ o = Row /\ kind = "media" /\ row[o].swept
                      /\ \A i \in 1 .. Len(audit[o]) - 1 :
                           /\ audit[o][i].op # audit[o][i + 1].op
                           /\ audit[o][i].version < audit[o][i + 1].version
    BY DEF AuditTellsDeletions, R!AuditTellsDeletions, DeletionTold
  <2>1. Audited(audit[o], row[o]) /\ (row[o].swept => o = Row /\ kind = "media")
    BY DEF RowsInv, SweptMeant
  <2> QED  BY <2>1 DEF Audited
<1> QED  BY <1>1, RowsInvariance, PTL

\* After the deletion of a tree each request that was in progress changes one of its rows at most,
\* the deletion itself none, and no later request any: fewer than there are clients.
THEOREM LateEditsBoundedHolds ==
  ASSUME R!RowsAssumption
  PROVE  R!Spec => []LateEditsBounded
<1>1. RowsInv => LateEditsBounded
  <2> SUFFICES ASSUME RowsInv  PROVE LateEditsBounded
    OBVIOUS
  <2>1. IsFiniteSet(Clients) /\ IsFiniteSet(Ready) /\ Clients # {}
    BY RowsFinite, FS_Subset DEF Ready, R!RowsAssumption
  <2>2. Cardinality(Clients) \in Nat /\ Cardinality(Ready) \in Nat /\ Cardinality(Clients) # 0
    BY <2>1, FS_CardinalityType, FS_EmptySet
  <2>3. late \in Nat
    BY DEF RowsInv, R!TypeOK
  <2> QED  BY <2>2, <2>3, RowsFinite DEF RowsInv, Counted, LateEditsBounded, R!LateEditsBounded
<1> QED  BY <1>1, RowsInvariance, PTL

-----------------------------------------------------------------------------
(* The composition *)

\* Whatever the composition does is a behaviour of the union and one of the rows by themselves: what
\* is proved of each holds in the run that checks them together.
THEOREM RecordsAreInstances == RecordsSpec => Spec /\ R!Spec
<1>1. RecordsInit => Init /\ R!Init
  BY DEF RecordsInit, RowsIdle
<1>2. [RecordsNext]_<<followed, vars, rowVars>> => [Next]_vars /\ [R!Next]_R!vars
  BY DEF RecordsNext, rowVars, vars, R!vars
<1> QED  BY <1>1, <1>2, PTL DEF RecordsSpec, Spec, R!Spec
=============================================================================
