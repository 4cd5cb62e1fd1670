---------------------------- MODULE ViewProofs ----------------------------
(***************************************************************************)
(* Theorems about the answers the program computes from stored rows: the   *)
(* cycle check of a backup, for any relations; the graph around a person,  *)
(* for any depths and changes between its statements; the limits on        *)
(* attempts, for any limits, windows and clients; the pages of the list of *)
(* persons, for any names and writes; and the generations of a drawing,    *)
(* for any persons and unions and any order of Go's maps.                  *)
(***************************************************************************)
EXTENDS CommandProofs, SequenceTheorems

-----------------------------------------------------------------------------
(* The cycle check of a backup *)

LEMMA CheckFinite ==
  ASSUME NEW S
  PROVE  (B!IsFiniteSet(S) <=> IsFiniteSet(S)) /\ B!Cardinality(S) = Cardinality(S)
<1>1. B!IsFiniteSet(S) <=> IsFiniteSet(S)
  BY DEF B!IsFiniteSet, IsFiniteSet
<1>2. B!Cardinality(S) = Cardinality(S)
  BY DEF B!Cardinality, Cardinality
<1> QED  BY <1>1, <1>2

\* A backup of finitely many persons and types has finitely many rows.
LEMMA BackupFinite ==
  ASSUME IsFiniteSet(Relatives), IsFiniteSet(Types)
  PROVE  IsFiniteSet(B!Relation)
<1> DEFINE P == Relatives \X (Relatives \X Types)
           f == [x \in P |-> [parent |-> x[1], child |-> x[2][1], type |-> x[2][2]]]
<1>1. IsFiniteSet(P)
  BY FS_Product
<1>2. f \in Surjection(P, B!Relation)
  <2>1. f \in [P -> B!Relation]
    BY DEF B!Relation
  <2>2. ASSUME NEW r \in B!Relation  PROVE \E x \in P : f[x] = r
    <3>1. /\ r.parent \in Relatives /\ r.child \in Relatives /\ r.type \in Types
          /\ r = [parent |-> r.parent, child |-> r.child, type |-> r.type]
      BY DEF B!Relation
    <3>2. <<r.parent, <<r.child, r.type>>>> \in P
      BY <3>1
    <3>3. f[<<r.parent, <<r.child, r.type>>>>] = r
      BY <3>1, <3>2
    <3> QED  BY <3>2, <3>3
  <2> QED  BY <2>1, <2>2 DEF Surjection
<1> QED  BY <1>1, <1>2, FS_Surjection

\* In a graph without cycles every group has somebody without a parent in it: the one from whom
\* most persons are reached.
LEMMA GroupHasRoot ==
  ASSUME IsFiniteSet(Relatives), NEW E, E \subseteq B!Relation, B!Acyclic(E),
         NEW W, W \subseteq Relatives, W # {}
  PROVE  \E p \in W : \A r \in E : r.child = p => r.parent \notin W
<1> DEFINE Below(p) == {q \in Relatives : B!Reaches(E, p, q)}
           T == {Cardinality(Below(p)) : p \in W}
<1>1. \A p \in Relatives : IsFiniteSet(Below(p)) /\ Cardinality(Below(p)) \in Nat
                           /\ Cardinality(Below(p)) <= Cardinality(Relatives)
  <2> SUFFICES ASSUME NEW p \in Relatives
               PROVE  IsFiniteSet(Below(p)) /\ Cardinality(Below(p)) \in Nat
                      /\ Cardinality(Below(p)) <= Cardinality(Relatives)
    OBVIOUS
  <2> DEFINE U == Below(p)
  <2>1. U \in SUBSET Relatives
    OBVIOUS
  <2> HIDE DEF U
  <2>2. IsFiniteSet(U) /\ Cardinality(U) \in Nat /\ Cardinality(U) <= Cardinality(Relatives)
    BY <2>1, FS_Subset, FS_CardinalityType
  <2> QED  BY <2>2 DEF U
<1>2. Cardinality(Relatives) \in Nat
  BY FS_CardinalityType
<1>3. T \subseteq Nat /\ T # {} /\ IsFiniteSet(T)
  <2> HIDE DEF Below
  <2>1. T \in SUBSET Nat /\ T # {} /\ \A t \in T : t <= Cardinality(Relatives)
    BY <1>1
  <2> HIDE DEF T
  <2>2. IsFiniteSet(T)
    BY <2>1, <1>2, FS_BoundedSetOfNaturals
  <2> QED  BY <2>1, <2>2
<1>4. PICK t \in T : \A u \in T : u <= t
  <2> HIDE DEF T
  <2> QED  BY <1>3, GreatestNatural
<1>5. PICK p \in W : t = Cardinality(Below(p))
  OBVIOUS
<1>6. ASSUME NEW r \in E, r.child = p, r.parent \in W  PROVE FALSE
  <2> DEFINE q == r.parent
  <2>1. q \in Relatives /\ p \in Relatives /\ ~ B!Reaches(E, p, q)
    BY <1>6 DEF B!Acyclic
  <2>2. q \in Below(q) /\ q \notin Below(p)
    BY <2>1 DEF B!Reaches
  <2>3. Below(p) \subseteq Below(q)
    BY <1>6 DEF B!Reaches, B!Closed
  <2>4. Cardinality(Below(q)) <= t
    <3> HIDE DEF Below
    <3> QED  BY <1>4, <1>6
  <2> DEFINE X == Below(p)
             Y == Below(q)
  <2>5. /\ IsFiniteSet(Y) /\ Cardinality(X) \in Nat /\ Cardinality(Y) \in Nat
        /\ X \in SUBSET Y /\ X # Y
        /\ Cardinality(Y) <= Cardinality(X)
    BY <1>1, <1>5, <2>1, <2>2, <2>3, <2>4
  <2> HIDE DEF X, Y
  <2>6. Cardinality(X) <= Cardinality(Y) /\ Cardinality(X) # Cardinality(Y)
    BY <2>5, FS_Subset
  <2> QED  BY <2>5, <2>6
<1> QED  BY <1>6

-----------------------------------------------------------------------------
\* The relations that keep a person waiting, once the persons of Done were visited.
Pending(Done, p) == {r \in kin : r.child = p /\ (r.parent \notin Done \/ r \in unread)}

Waiting(p) == \E i \in 1 .. Len(queue) : queue[i] = p

\* Done is the set of persons that were visited: a relation to one of them comes from one of them.
Visited(Done) ==
  /\ visited = Cardinality(Done)
  /\ \A p \in Done : ~ Waiting(p)
  /\ \A r \in unread : r \in kin /\ r.parent \in Done
  /\ \A p \in Relatives : indegrees[p] = Cardinality(Pending(Done, p))
  /\ \A p \in Relatives : Pending(Done, p) = {} <=> (p \in Done \/ Waiting(p))
  /\ \A r \in kin : r.child \in Done => ~ B!Reaches(kin, r.child, r.parent)

CheckInv ==
  /\ kin \subseteq B!Relation /\ IsFiniteSet(kin)
  /\ indegrees \in [Relatives -> Nat]
  /\ queue \in Seq(Relatives)
  /\ \A i, j \in 1 .. Len(queue) : queue[i] = queue[j] => i = j
  /\ \E Done \in SUBSET Relatives : Visited(Done)

LEMMA PendingFinite ==
  ASSUME CheckInv, NEW Done, NEW p
  PROVE  IsFiniteSet(Pending(Done, p)) /\ Cardinality(Pending(Done, p)) \in Nat
         /\ (Cardinality(Pending(Done, p)) = 0 <=> Pending(Done, p) = {})
<1>1. Pending(Done, p) \in SUBSET kin /\ IsFiniteSet(kin)
  BY DEF Pending, CheckInv
<1> QED  BY <1>1, FS_Subset, FS_CardinalityType, FS_EmptySet

LEMMA CheckInit ==
  ASSUME B!BackupAssumption, B!Init  PROVE CheckInv
<1>1. IsFiniteSet(Relatives) /\ IsFiniteSet(Types)
  BY CheckFinite DEF B!BackupAssumption
<1>2. kin \subseteq B!Relation /\ IsFiniteSet(kin)
  <2>1. kin \in SUBSET B!Relation
    BY DEF B!Init
  <2> QED  BY <2>1, <1>1, BackupFinite, FS_Subset
<1> DEFINE roots == {p \in Relatives : indegrees[p] = 0}
           n == B!Cardinality(roots)
<1>3. ASSUME NEW p \in Relatives
      PROVE  /\ indegrees[p] = Cardinality(Pending({}, p)) /\ indegrees[p] \in Nat
             /\ indegrees[p] = 0 <=> Pending({}, p) = {}
  <2> DEFINE U == {r \in kin : r.child = p}
  <2>1. indegrees[p] = Cardinality(U) /\ U = Pending({}, p)
    <3>1. indegrees[p] = B!Cardinality(U)
      BY DEF B!Init, B!Indegree
    <3> QED  BY <3>1, CheckFinite DEF Pending
  <2>2. U \in SUBSET kin
    OBVIOUS
  <2> HIDE DEF U
  <2> QED  BY <2>1, <2>2, <1>2, FS_Subset, FS_CardinalityType, FS_EmptySet
<1>4. indegrees \in [Relatives -> Nat]
  BY <1>3 DEF B!Init
<1>5. n \in Nat /\ queue \in [1 .. n -> roots] /\ \A i, j \in 1 .. n : i # j => queue[i] # queue[j]
  <2>1. roots \in SUBSET Relatives
    OBVIOUS
  <2>2. IsFiniteSet(roots) /\ n = Cardinality(roots) /\ n \in Nat
    BY <2>1, <1>1, CheckFinite, FS_Subset, FS_CardinalityType
  <2> QED  BY <2>2 DEF B!Init, B!SetToSeqs
<1>6. queue \in Seq(Relatives) /\ Len(queue) = n
  BY <1>5
<1>7. \A p \in roots : Waiting(p)
  <2>1. roots \in SUBSET Relatives
    OBVIOUS
  <2>2. IsFiniteSet(roots) /\ n = Cardinality(roots) /\ n \in Nat
    BY <2>1, <1>1, CheckFinite, FS_Subset, FS_CardinalityType
  <2>3. queue \in Injection(1 .. n, roots)
    BY <1>5 DEF Injection, IsInjective
  <2>4. Cardinality(1 .. n) = n /\ IsFiniteSet(1 .. n)
    BY <2>2, FS_Interval
  <2>5. queue \in Surjection(1 .. n, roots)
    BY <2>2, <2>3, <2>4, FS_Injection
  <2> QED  BY <2>5, <1>6 DEF Surjection, Waiting
<1>8. Visited({})
  <2>1. \A p \in Relatives : Waiting(p) => p \in roots
    BY <1>5, <1>6 DEF Waiting
  <2>2. visited = Cardinality({}) /\ unread = {}
    BY FS_EmptySet DEF B!Init
  <2> QED  BY <1>3, <1>7, <2>1, <2>2 DEF Visited
<1> QED  BY <1>2, <1>4, <1>5, <1>6, <1>8 DEF CheckInv

\* The person taken off the queue is visited: nobody's waiting changes but theirs.
LEMMA VisitStep ==
  ASSUME B!BackupAssumption, CheckInv, B!Visit  PROVE CheckInv'
<1>0. PICK n, p : n = Len(queue) /\ p = queue[n]
  OBVIOUS
<1>1. /\ n \in Nat /\ n # 0 /\ p \in Relatives
      /\ queue' \in Seq(Relatives) /\ Len(queue') = n - 1
      /\ \A i \in 1 .. n - 1 : queue'[i] = queue[i]
  <2>1. queue \in Seq(Relatives) /\ queue # <<>>
    BY DEF CheckInv, B!Visit
  <2>2. n \in Nat /\ n # 0 /\ p \in Relatives
    BY <1>0, <2>1
  <2>3. queue' = SubSeq(queue, 1, n - 1)
    BY <1>0 DEF B!Visit, B!Front
  <2>4. SubSeq(queue, 1, n - 1) \in Seq(Relatives) /\ Len(SubSeq(queue, 1, n - 1)) = n - 1
        /\ \A i \in 1 .. n - 1 : SubSeq(queue, 1, n - 1)[i] = queue[i]
    <3>1. \A i \in 1 .. n - 1 : queue[i] \in Relatives
      BY <1>0, <2>1, <2>2
    <3>2. n - 1 \in Int /\ (1 <= n - 1 \/ n - 1 = 0) /\ (n - 1) - 1 + 1 = n - 1
          /\ \A i \in 1 .. n - 1 : 1 + i - 1 = i
      BY <2>2
    <3> QED  BY <3>1, <3>2, SubSeqProperties
  <2> QED  BY <2>2, <2>3, <2>4
<1>2. /\ unread = {} /\ visited' = visited + 1 /\ unread' = {r \in kin : r.parent = p}
      /\ kin' = kin /\ indegrees' = indegrees
  BY <1>0 DEF B!Visit, B!Last
<1>3. \A i, j \in 1 .. n : queue[i] = queue[j] => i = j
  BY <1>0 DEF CheckInv
<1>4. \A q \in Relatives : Waiting(q)' <=> Waiting(q) /\ q # p
  <2>1. \A q : Waiting(q) <=> \E i \in 1 .. n : queue[i] = q
    BY <1>0 DEF Waiting
  <2>2. \A q : Waiting(q)' <=> \E i \in 1 .. n - 1 : queue[i] = q
    BY <1>1 DEF Waiting
  <2>3. n \in 1 .. n /\ \A i \in 1 .. n : i \in 1 .. n - 1 <=> i # n
    BY <1>1
  <2>4. \A i \in 1 .. n - 1 : i \in 1 .. n
    BY <1>1
  <2> QED  BY <2>1, <2>2, <2>3, <2>4, <1>3, <1>0
<1>5. Waiting(p)
  BY <1>0, <1>1 DEF Waiting
<1>6. PICK Done \in SUBSET Relatives : Visited(Done)
  BY DEF CheckInv
<1> DEFINE More == Done \cup {p}
<1>7. p \notin Done /\ More \in SUBSET Relatives
  BY <1>1, <1>5, <1>6 DEF Visited
<1>8. ASSUME NEW q \in Relatives  PROVE Pending(More, q)' = Pending(Done, q)
  BY <1>2, <1>7 DEF Pending
<1>9. visited' = Cardinality(More)
  <2>1. IsFiniteSet(Relatives)
    BY CheckFinite DEF B!BackupAssumption
  <2>2. IsFiniteSet(Done)
    BY <2>1, FS_Subset
  <2>3. Cardinality(More) = Cardinality(Done) + 1
    BY <2>2, <1>7, FS_AddElement
  <2> QED  BY <2>3, <1>2, <1>6 DEF Visited
<1>10. ASSUME NEW r \in kin, r.child \in More
       PROVE  ~ B!Reaches(kin, r.child, r.parent)
  <2>1. CASE r.child \in Done
    BY <2>1, <1>6 DEF Visited
  <2>2. CASE r.child = p
    <3> DEFINE S == Relatives \ Done
    <3>1. \A a \in kin : a.parent \in Relatives /\ a.child \in Relatives
      BY DEF CheckInv, B!Relation
    <3>2. \A a \in kin : (a.child \in Done \/ a.child = p) => a.parent \in Done
      <4> SUFFICES ASSUME NEW a \in kin, a.child \in Done \/ a.child = p
                   PROVE  a.parent \in Done
        OBVIOUS
      <4>1. Pending(Done, a.child) = {}
        BY <1>5, <1>6, <3>1 DEF Visited
      <4> QED  BY <4>1 DEF Pending
    <3>3. B!Closed(S, kin) /\ p \in S /\ r.parent \notin S /\ S \in SUBSET Relatives
      BY <1>1, <1>7, <2>2, <3>1, <3>2 DEF B!Closed
    <3> QED  BY <2>2, <3>3 DEF B!Reaches
  <2> QED  BY <2>1, <2>2, <1>10
<1>11. Visited(More)'
  <2>1. \A q \in More : ~ Waiting(q)'
    BY <1>4, <1>6, <1>7 DEF Visited
  <2>2. \A r \in unread' : r \in kin' /\ r.parent \in More
    BY <1>2
  <2>3. \A q \in Relatives : indegrees'[q] = Cardinality(Pending(More, q)')
    BY <1>2, <1>6, <1>8 DEF Visited
  <2>4. \A q \in Relatives : Pending(More, q)' = {} <=> (q \in More \/ Waiting(q)')
    BY <1>4, <1>5, <1>6, <1>7, <1>8 DEF Visited
  <2>5. \A r \in kin' : r.child \in More => ~ B!Reaches(kin', r.child, r.parent)
    BY <1>2, <1>10
  <2> HIDE DEF More
  <2> QED  BY <1>9, <2>1, <2>2, <2>3, <2>4, <2>5 DEF Visited
<1>12. \A i, j \in 1 .. Len(queue') : queue'[i] = queue'[j] => i = j
  <2>1. \A i \in 1 .. n - 1 : i \in 1 .. n
    BY <1>1
  <2> QED  BY <1>1, <1>3, <2>1
<1> QED  BY <1>1, <1>2, <1>7, <1>11, <1>12 DEF CheckInv

\* A relation of the person just visited no longer keeps its child waiting.
LEMMA DecrementStep ==
  ASSUME CheckInv, NEW r \in unread, B!Decrement(r)  PROVE CheckInv'
<1> DEFINE c == r.child
           n == Len(queue)
<1>1. PICK Done \in SUBSET Relatives : Visited(Done)
  BY DEF CheckInv
<1>2. r \in kin /\ c \in Relatives /\ r.parent \in Done
  BY <1>1 DEF Visited, CheckInv, B!Relation
<1>3. /\ unread' = unread \ {r} /\ kin' = kin /\ visited' = visited
      /\ indegrees' = [indegrees EXCEPT ![c] = indegrees[c] - 1]
      /\ queue' = IF indegrees'[c] = 0 THEN Append(queue, c) ELSE queue
  BY DEF B!Decrement
<1>4. r \in Pending(Done, c)
  BY <1>2 DEF Pending
<1>5. c \notin Done /\ ~ Waiting(c)
  BY <1>1, <1>2, <1>4 DEF Visited
<1>6. Pending(Done, c)' = Pending(Done, c) \ {r}
  BY <1>2, <1>3 DEF Pending
<1>7. ASSUME NEW q \in Relatives, q # c  PROVE Pending(Done, q)' = Pending(Done, q)
  BY <1>2, <1>3, <1>7 DEF Pending
<1>8. /\ indegrees' \in [Relatives -> Nat]
      /\ \A q \in Relatives : indegrees'[q] = Cardinality(Pending(Done, q)')
  <2>1. IsFiniteSet(Pending(Done, c)) /\ indegrees[c] = Cardinality(Pending(Done, c))
        /\ indegrees[c] \in Nat /\ indegrees[c] # 0 /\ indegrees \in [Relatives -> Nat]
    BY <1>1, <1>2, <1>4, PendingFinite DEF Visited, CheckInv
  <2>2. Cardinality(Pending(Done, c)') = indegrees[c] - 1
    <3>1. Cardinality(Pending(Done, c) \ {r}) = Cardinality(Pending(Done, c)) - 1
      BY <2>1, <1>4, FS_RemoveElement
    <3> QED  BY <3>1, <2>1, <1>6
  <2>3. indegrees[c] - 1 \in Nat
    BY <2>1
  <2>4. indegrees' \in [Relatives -> Nat]
    BY <1>3, <2>1, <2>3
  <2>5. indegrees'[c] = Cardinality(Pending(Done, c)')
    BY <1>2, <1>3, <2>1, <2>2
  <2>6. \A q \in Relatives : q # c => indegrees'[q] = indegrees[q]
    BY <1>3, <2>1
  <2>7. \A q \in Relatives : q # c => indegrees'[q] = Cardinality(Pending(Done, q)')
    BY <1>1, <1>7, <2>6 DEF Visited
  <2> QED  BY <2>4, <2>5, <2>7
<1>9. indegrees'[c] = 0 <=> Pending(Done, c)' = {}
  <2>1. Pending(Done, c) \ {r} \in SUBSET Pending(Done, c) /\ IsFiniteSet(Pending(Done, c))
    BY PendingFinite
  <2>2. IsFiniteSet(Pending(Done, c) \ {r})
    BY <2>1, FS_Subset
  <2> QED  BY <1>2, <1>6, <1>8, <2>2, FS_EmptySet
<1>10. queue \in Seq(Relatives) /\ n \in Nat
  BY DEF CheckInv
<1>11. /\ queue' \in Seq(Relatives)
       /\ \A i, j \in 1 .. Len(queue') : queue'[i] = queue'[j] => i = j
       /\ \A q \in Relatives : Waiting(q)' <=> Waiting(q) \/ (q = c /\ Pending(Done, c)' = {})
  <2>1. CASE indegrees'[c] = 0
    <3>1. /\ queue' \in Seq(Relatives) /\ Len(queue') = n + 1 /\ queue'[n + 1] = c
          /\ \A i \in 1 .. n : queue'[i] = queue[i]
      BY <1>2, <1>3, <1>10, <2>1
    <3> HIDE DEF n
    <3>2. /\ \A i \in 1 .. n : queue[i] # c
          /\ \A i, j \in 1 .. n : queue[i] = queue[j] => i = j
      BY <1>5 DEF Waiting, CheckInv, n
    <3>3. \A i : i \in 1 .. n + 1 <=> i \in 1 .. n \/ i = n + 1
      BY <1>10
    <3>4. \A i, j \in 1 .. Len(queue') : queue'[i] = queue'[j] => i = j
      BY <3>1, <3>2, <3>3
    <3>5. \A q : Waiting(q)' <=> \E i \in 1 .. n + 1 : queue'[i] = q
      BY <3>1 DEF Waiting
    <3>6. \A q : Waiting(q) <=> \E i \in 1 .. n : queue[i] = q
      BY DEF Waiting, n
    <3>7. \A q : Waiting(q)' <=> Waiting(q) \/ q = c
      BY <3>1, <3>3, <3>5, <3>6
    <3> QED  BY <3>1, <3>4, <3>7, <1>9, <2>1
  <2>2. CASE indegrees'[c] # 0
    <3>1. queue' = queue
      BY <1>3, <2>2
    <3> QED  BY <3>1, <1>9, <2>2 DEF CheckInv, Waiting
  <2> QED  BY <2>1, <2>2
<1>12. Visited(Done)'
  <2>1. \A q \in Done : ~ Waiting(q)'
    BY <1>1, <1>5, <1>11 DEF Visited
  <2>2. \A x \in unread' : x \in kin' /\ x.parent \in Done
    BY <1>1, <1>3 DEF Visited
  <2>3. \A q \in Relatives : Pending(Done, q)' = {} <=> (q \in Done \/ Waiting(q)')
    BY <1>1, <1>5, <1>7, <1>11 DEF Visited
  <2>4. visited' = Cardinality(Done)
        /\ \A x \in kin' : x.child \in Done => ~ B!Reaches(kin', x.child, x.parent)
    BY <1>1, <1>3 DEF Visited
  <2> QED  BY <1>8, <2>1, <2>2, <2>3, <2>4 DEF Visited
<1> QED  BY <1>3, <1>8, <1>11, <1>12 DEF CheckInv

LEMMA CheckInvariance ==
  ASSUME B!BackupAssumption  PROVE B!Spec => []CheckInv
<1>1. B!Init => CheckInv
  BY CheckInit
<1>2. CheckInv /\ [B!Next]_(B!vars) => CheckInv'
  <2> SUFFICES ASSUME CheckInv, [B!Next]_(B!vars)
               PROVE  CheckInv'
    OBVIOUS
  <2>1. CASE B!Visit
    BY <2>1, VisitStep
  <2>2. ASSUME NEW r \in unread, B!Decrement(r)  PROVE CheckInv'
    BY <2>2, DecrementStep
  <2>3. CASE UNCHANGED B!vars
    <3>1. UNCHANGED <<kin, indegrees, queue, visited, unread>>
      BY <2>3 DEF B!vars
    <3>2. PICK Done \in SUBSET Relatives : Visited(Done)
      BY DEF CheckInv
    <3>3. \A p : Pending(Done, p)' = Pending(Done, p) /\ (Waiting(p)' <=> Waiting(p))
      BY <3>1 DEF Pending, Waiting
    <3>4. Visited(Done)'
      BY <3>1, <3>2, <3>3 DEF Visited
    <3> QED  BY <3>1, <3>4 DEF CheckInv
  <2> QED  BY <2>1, <2>2, <2>3 DEF B!Next
<1> QED  BY <1>1, <1>2, PTL DEF B!Spec

\* The check of a backup (validateManifest) accepts exactly the backups in which nobody is their
\* own ancestor, in whatever order the roots were pushed and however many relations join two
\* persons: visited persons have no relation from an unvisited one, so that none of them is on a
\* circle, and a group that was never visited has a parent in itself for each of its persons.
THEOREM RejectsExactlyCyclesHolds ==
  ASSUME B!BackupAssumption  PROVE B!Spec => []RejectsExactlyCycles
<1>1. IsFiniteSet(Relatives)
  BY CheckFinite DEF B!BackupAssumption
<1>2. ASSUME CheckInv  PROVE RejectsExactlyCycles
  <2> SUFFICES ASSUME unread = {}, queue = <<>>
               PROVE  visited = Cardinality(Relatives) <=> B!Acyclic(kin)
    BY CheckFinite DEF RejectsExactlyCycles, B!RejectsExactlyCycles, B!Finished, B!Accepted
  <2>1. PICK Done \in SUBSET Relatives : Visited(Done)
    BY <1>2 DEF CheckInv
  <2>2. \A p \in Relatives : ~ Waiting(p)
    BY DEF Waiting
  <2>3. \A r \in kin : r.parent \in Relatives /\ r.child \in Relatives
    BY <1>2 DEF CheckInv, B!Relation
  <2>4. ASSUME visited = Cardinality(Relatives)  PROVE B!Acyclic(kin)
    <3>1. Done = Relatives
      BY <1>1, <2>1, <2>4, FS_Subset DEF Visited
    <3> QED  BY <2>1, <2>3, <3>1 DEF Visited, B!Acyclic
  <2>5. ASSUME B!Acyclic(kin)  PROVE visited = Cardinality(Relatives)
    <3> DEFINE W == Relatives \ Done
    <3>1. CASE W = {}
      <4>1. Done = Relatives
        BY <3>1
      <4> QED  BY <2>1, <4>1 DEF Visited
    <3>2. CASE W # {}
      <4>1. W \subseteq Relatives /\ kin \subseteq B!Relation
        BY <1>2 DEF CheckInv
      <4>2. PICK p \in W : \A r \in kin : r.child = p => r.parent \notin W
        <5> HIDE DEF W
        <5> QED  BY <1>1, <2>5, <3>2, <4>1, GroupHasRoot
      <4>3. Pending(Done, p) = {}
        BY <2>3, <4>2 DEF Pending
      <4> QED  BY <2>1, <2>2, <4>3 DEF Visited
    <3> QED  BY <3>1, <3>2
  <2> QED  BY <2>4, <2>5
<1> QED  BY <1>2, CheckInvariance, PTL

-----------------------------------------------------------------------------
(* The graph around a person *)

\* g starts at a and takes a step of f to every number up to n.
Iterates(g, a, f, n) == \A i \in 0 .. n : g[i] = IF i = 0 THEN a ELSE f[<<i, g[i - 1]>>]

\* A function that is given step by step exists, up to any number.
LEMMA IterationExists ==
  ASSUME NEW S, NEW a \in S, NEW f \in [Nat \X S -> S], NEW n \in Nat
  PROVE  \E g \in [0 .. n -> S] : Iterates(g, a, f, n)
<1> DEFINE Found(m) ==
             {g \in [0 .. m -> S] :
                \A i \in 0 .. m : g[i] = IF i = 0 THEN a ELSE f[<<i, g[i - 1]>>]}
           T == {m \in Nat : Found(m) # {}}
<1>1. 0 \in T
  <2>1. [i \in 0 .. 0 |-> a] \in Found(0)
    OBVIOUS
  <2> QED  BY <2>1
<1>2. ASSUME NEW m \in Nat, m \in T  PROVE m + 1 \in T
  <2>1. PICK g \in [0 .. m -> S] : \A i \in 0 .. m : g[i] = IF i = 0 THEN a ELSE f[<<i, g[i - 1]>>]
    BY <1>2
  <2> DEFINE h == [i \in 0 .. m + 1 |-> IF i = m + 1 THEN f[<<m + 1, g[m]>>] ELSE g[i]]
  <2>2. m \in 0 .. m /\ g[m] \in S /\ f[<<m + 1, g[m]>>] \in S
    OBVIOUS
  <2>3. h \in [0 .. m + 1 -> S]
    BY <2>2
  <2>4. ASSUME NEW i \in 0 .. m + 1  PROVE h[i] = IF i = 0 THEN a ELSE f[<<i, h[i - 1]>>]
    <3>1. CASE i = m + 1
      <4>1. i # 0 /\ i - 1 = m /\ h[m] = g[m] /\ h[i] = f[<<m + 1, g[m]>>]
        BY <3>1, <2>2
      <4>2. <<i, h[i - 1]>> = <<m + 1, g[m]>>
        BY <3>1, <4>1
      <4> HIDE DEF h
      <4> QED  BY <4>1, <4>2
    <3>2. CASE i # m + 1
      <4>1. i \in 0 .. m /\ h[i] = g[i] /\ (i # 0 => i - 1 \in 0 .. m + 1 /\ h[i - 1] = g[i - 1])
        BY <3>2
      <4> QED  BY <2>1, <4>1
    <3> QED  BY <3>1, <3>2
  <2> HIDE DEF h
  <2>5. h \in Found(m + 1)
    BY <2>3, <2>4
  <2> HIDE DEF Found
  <2> QED  BY <2>5
<1> HIDE DEF T
<1>3. n \in T
  BY <1>1, <1>2, AllNaturals
<1> QED  BY <1>3 DEF T, Iterates

LEMMA GraphFinite ==
  ASSUME NEW S
  PROVE  (G!IsFiniteSet(S) <=> IsFiniteSet(S)) /\ G!Cardinality(S) = Cardinality(S)
<1>1. G!IsFiniteSet(S) <=> IsFiniteSet(S)
  BY DEF G!IsFiniteSet, IsFiniteSet
<1>2. G!Cardinality(S) = Cardinality(S)
  BY DEF G!Cardinality, Cardinality
<1> QED  BY <1>1, <1>2

\* The persons within d steps, for every d up to a depth.
Within(s, edges, depth) ==
  CHOOSE w : w = [d \in 0 .. depth |->
                   IF d = 0 THEN {Center}
                   ELSE w[d - 1] \cup {p \in s.active : \E q \in w[d - 1] : <<q, p>> \in edges}]

LEMMA WithinMeant ==
  ASSUME G!GraphViewAssumption, NEW s, s.active \subseteq Relatives, NEW edges, NEW depth \in Nat
  PROVE  /\ G!Ball(s, edges, depth) = Within(s, edges, depth)[depth]
         /\ Within(s, edges, depth)[0] = {Center}
         /\ \A d \in 1 .. depth : Within(s, edges, depth)[d] =
              Within(s, edges, depth)[d - 1]
              \cup {p \in s.active : \E q \in Within(s, edges, depth)[d - 1] : <<q, p>> \in edges}
<1> DEFINE S == SUBSET Relatives
           Onward(x) == x \cup {p \in s.active : \E q \in x : <<q, p>> \in edges}
           f == [x \in Nat \X S |-> Onward(x[2])]
           w == Within(s, edges, depth)
<1>1. {Center} \in S /\ f \in [Nat \X S -> S]
  BY DEF G!GraphViewAssumption
<1>2. \E g : g = [d \in 0 .. depth |-> IF d = 0 THEN {Center} ELSE Onward(g[d - 1])]
  <2> HIDE DEF f
  <2>1. PICK g \in [0 .. depth -> S] : Iterates(g, {Center}, f, depth)
    <3> HIDE DEF S
    <3> QED  BY <1>1, IterationExists
  <2>2. \A i \in 0 .. depth : i # 0 => f[<<i, g[i - 1]>>] = Onward(g[i - 1])
    <3> SUFFICES ASSUME NEW i \in 0 .. depth, i # 0  PROVE f[<<i, g[i - 1]>>] = Onward(g[i - 1])
      OBVIOUS
    <3>1. i - 1 \in 0 .. depth
      OBVIOUS
    <3>2. g[i - 1] \in S /\ i \in Nat
      BY <3>1
    <3> HIDE DEF Onward, S
    <3> QED  BY <3>2 DEF f
  <2> HIDE DEF Onward
  <2>3. \A i \in 0 .. depth : g[i] = IF i = 0 THEN {Center} ELSE Onward(g[i - 1])
    BY <2>1, <2>2 DEF Iterates
  <2>4. g = [i \in 0 .. depth |-> g[i]]
    OBVIOUS
  <2>5. g = [i \in 0 .. depth |-> IF i = 0 THEN {Center} ELSE Onward(g[i - 1])]
    BY <2>3, <2>4
  <2> QED  BY <2>5
<1>3. w = [d \in 0 .. depth |-> IF d = 0 THEN {Center} ELSE Onward(w[d - 1])]
  BY <1>2, Zenon DEF Within
<1>4. G!Ball(s, edges, depth) = w[depth]
  BY DEF G!Ball, Within
<1> HIDE DEF w
<1>5. w[0] = {Center}
  BY <1>3
<1>6. ASSUME NEW d \in 1 .. depth  PROVE w[d] = Onward(w[d - 1])
  <2>1. d \in 0 .. depth /\ d # 0
    OBVIOUS
  <2> HIDE DEF Onward
  <2> QED  BY <1>3, <2>1
<1> QED  BY <1>4, <1>5, <1>6 DEF w

\* What the statement adds to its rows, and its rows after every step.
Further(s, edges, depth, found) ==
  found \cup {G!Step(x[1], x[2]) : x \in {y \in found \X s.active :
                /\ <<y[1].person, y[2]>> \in edges
                /\ y[2] \notin y[1].path
                /\ G!Cardinality(y[1].path) <= depth}}

Rows(s, edges, depth) ==
  CHOOSE w : w = [d \in 0 .. depth |->
                   IF d = 0 THEN {G!Start}
                   ELSE w[d - 1] \cup
                        {G!Step(x[1], x[2]) : x \in {y \in w[d - 1] \X s.active :
                           /\ <<y[1].person, y[2]>> \in edges
                           /\ y[2] \notin y[1].path
                           /\ G!Cardinality(y[1].path) <= depth}}]

LEMMA RowsMeant ==
  ASSUME G!GraphViewAssumption, NEW s, s.active \subseteq Relatives, NEW edges, NEW depth \in Nat
  PROVE  /\ G!Traversed(s, edges, depth) = {row.person : row \in Rows(s, edges, depth)[depth]}
         /\ Rows(s, edges, depth)[0] = {G!Start}
         /\ \A d \in 1 .. depth : Rows(s, edges, depth)[d] =
              Further(s, edges, depth, Rows(s, edges, depth)[d - 1])
<1> DEFINE S == SUBSET [person : Relatives, path : SUBSET Relatives]
           Onward(x) == Further(s, edges, depth, x)
           f == [x \in Nat \X S |-> Onward(x[2])]
           w == Rows(s, edges, depth)
<1>1. {G!Start} \in S
  BY DEF G!GraphViewAssumption, G!Start
<1>2. f \in [Nat \X S -> S]
  <2>1. ASSUME NEW x \in S  PROVE Onward(x) \in S
    <3> SUFFICES ASSUME NEW z \in Onward(x), z \notin x
                 PROVE  z \in [person : Relatives, path : SUBSET Relatives]
      OBVIOUS
    <3>1. PICK y \in x \X s.active : z = G!Step(y[1], y[2])
      BY DEF Further
    <3>2. y[1] \in [person : Relatives, path : SUBSET Relatives] /\ y[2] \in Relatives
      BY <3>1
    <3> QED  BY <3>1, <3>2 DEF G!Step
  <2> HIDE DEF Onward, S
  <2> QED  BY <2>1
<1>3. \E g : g = [d \in 0 .. depth |-> IF d = 0 THEN {G!Start} ELSE Onward(g[d - 1])]
  <2> HIDE DEF f
  <2>1. PICK g \in [0 .. depth -> S] : Iterates(g, {G!Start}, f, depth)
    <3> HIDE DEF S
    <3> QED  BY <1>1, <1>2, IterationExists
  <2>2. \A i \in 0 .. depth : i # 0 => f[<<i, g[i - 1]>>] = Onward(g[i - 1])
    <3> SUFFICES ASSUME NEW i \in 0 .. depth, i # 0  PROVE f[<<i, g[i - 1]>>] = Onward(g[i - 1])
      OBVIOUS
    <3>1. i - 1 \in 0 .. depth
      OBVIOUS
    <3>2. g[i - 1] \in S /\ i \in Nat
      BY <3>1
    <3> HIDE DEF Onward, S
    <3> QED  BY <3>2 DEF f
  <2> HIDE DEF Onward
  <2>3. \A i \in 0 .. depth : g[i] = IF i = 0 THEN {G!Start} ELSE Onward(g[i - 1])
    BY <2>1, <2>2 DEF Iterates
  <2>4. g = [i \in 0 .. depth |-> g[i]]
    OBVIOUS
  <2>5. g = [i \in 0 .. depth |-> IF i = 0 THEN {G!Start} ELSE Onward(g[i - 1])]
    BY <2>3, <2>4
  <2> QED  BY <2>5
<1>4. w = [d \in 0 .. depth |-> IF d = 0 THEN {G!Start} ELSE Onward(w[d - 1])]
  BY <1>3, Zenon DEF Rows, Further
<1>5. G!Traversed(s, edges, depth) = {row.person : row \in w[depth]}
  BY DEF G!Traversed, Rows
<1> HIDE DEF w
<1>6. w[0] = {G!Start}
  BY <1>4
<1>7. ASSUME NEW d \in 1 .. depth  PROVE w[d] = Onward(w[d - 1])
  <2>1. d \in 0 .. depth /\ d # 0
    OBVIOUS
  <2> HIDE DEF Onward
  <2> QED  BY <1>4, <2>1
<1> QED  BY <1>5, <1>6, <1>7 DEF w

\* The statement finds whoever is within the depth: a shortest way meets nobody twice, and its path
\* is no longer than the depth.
LEMMA TraversedIsBall ==
  ASSUME G!GraphViewAssumption, NEW s, s.active \subseteq Relatives, NEW edges, NEW depth \in Nat
  PROVE  /\ G!Traversed(s, edges, depth) = G!Ball(s, edges, depth)
         /\ G!Ball(s, edges, depth) \subseteq s.active \cup {Center}
<1> DEFINE w == Within(s, edges, depth)
           rows == Rows(s, edges, depth)
           Near(d) == \A row \in rows[d] : row.person \in w[d]
           Met(d) == \A q \in w[d] : \E row \in rows[d] :
                       /\ row.person = q /\ row.path \subseteq w[d] /\ IsFiniteSet(row.path)
                       /\ Cardinality(row.path) <= d + 1
           T == {d \in Nat :
                   d <= depth => Near(d) /\ Met(d) /\ w[d] \subseteq s.active \cup {Center}}
<1>1. /\ w[0] = {Center} /\ rows[0] = {G!Start}
      /\ \A d \in 1 .. depth :
           /\ w[d] = w[d - 1] \cup {p \in s.active : \E q \in w[d - 1] : <<q, p>> \in edges}
           /\ rows[d] = Further(s, edges, depth, rows[d - 1])
      /\ G!Ball(s, edges, depth) = w[depth]
      /\ G!Traversed(s, edges, depth) = {row.person : row \in rows[depth]}
  BY WithinMeant, RowsMeant
<1> HIDE DEF w, rows
<1>2. 0 \in T
  <2>1. Near(0)
    BY <1>1 DEF G!Start
  <2>2. Met(0)
    <3>1. G!Start \in rows[0] /\ G!Start.person = Center /\ G!Start.path = {Center}
      BY <1>1 DEF G!Start
    <3>2. IsFiniteSet({Center}) /\ Cardinality({Center}) = 1
      BY FS_Singleton
    <3>3. Cardinality({Center}) <= 0 + 1
      BY <3>2
    <3> QED  BY <1>1, <3>1, <3>2, <3>3
  <2> QED  BY <1>1, <2>1, <2>2
<1>3. ASSUME NEW d \in Nat, d \in T  PROVE d + 1 \in T
  <2> SUFFICES ASSUME d + 1 <= depth
               PROVE  Near(d + 1) /\ Met(d + 1) /\ w[d + 1] \subseteq s.active \cup {Center}
    OBVIOUS
  <2>1. d + 1 \in 1 .. depth /\ (d + 1) - 1 = d /\ d <= depth
    OBVIOUS
  <2>2. /\ w[d + 1] = w[d] \cup {p \in s.active : \E q \in w[d] : <<q, p>> \in edges}
        /\ rows[d + 1] = Further(s, edges, depth, rows[d])
    BY <1>1, <2>1
  <2>3. Near(d) /\ Met(d) /\ w[d] \subseteq s.active \cup {Center}
    BY <1>3, <2>1
  <2> HIDE DEF T
  <2>4. Near(d + 1)
    <3> SUFFICES ASSUME NEW row \in rows[d + 1]  PROVE row.person \in w[d + 1]
      OBVIOUS
    <3>1. CASE row \in rows[d]
      BY <2>2, <2>3, <3>1
    <3>2. CASE row \notin rows[d]
      <4>1. PICK y \in rows[d] \X s.active :
                   row = G!Step(y[1], y[2]) /\ <<y[1].person, y[2]>> \in edges
        BY <2>2, <3>2 DEF Further
      <4>2. row.person = y[2] /\ y[2] \in s.active /\ y[1] \in rows[d]
        BY <4>1 DEF G!Step
      <4>3. y[1].person \in w[d]
        BY <2>3, <4>2
      <4> QED  BY <2>2, <4>1, <4>2, <4>3
    <3> QED  BY <3>1, <3>2
  <2>5. Met(d + 1)
    <3> SUFFICES ASSUME NEW q \in w[d + 1]
                 PROVE  \E row \in rows[d + 1] :
                          /\ row.person = q /\ row.path \subseteq w[d + 1] /\ IsFiniteSet(row.path)
                          /\ Cardinality(row.path) <= (d + 1) + 1
      OBVIOUS
    <3>1. CASE q \in w[d]
      <4>1. PICK row \in rows[d] : /\ row.person = q /\ row.path \subseteq w[d]
                                   /\ IsFiniteSet(row.path) /\ Cardinality(row.path) <= d + 1
        BY <2>3, <3>1
      <4>2. row \in rows[d + 1] /\ row.path \subseteq w[d + 1]
        BY <2>2, <4>1 DEF Further
      <4>3. Cardinality(row.path) <= (d + 1) + 1
        BY <4>1, FS_CardinalityType
      <4> QED  BY <4>1, <4>2, <4>3
    <3>2. CASE q \notin w[d]
      <4>1. q \in s.active /\ \E p \in w[d] : <<p, q>> \in edges
        BY <2>2, <3>2
      <4>2. PICK p \in w[d] : <<p, q>> \in edges
        BY <4>1
      <4>3. PICK row \in rows[d] : /\ row.person = p /\ row.path \subseteq w[d]
                                   /\ IsFiniteSet(row.path) /\ Cardinality(row.path) <= d + 1
        BY <2>3, <4>2
      <4>4. q \notin row.path /\ Cardinality(row.path) <= depth
        BY <2>1, <3>2, <4>3, FS_CardinalityType
      <4> DEFINE next == G!Step(row, q)
      <4>5. next \in rows[d + 1]
        <5>1. <<row, q>> \in rows[d] \X s.active /\ <<row, q>>[1] = row /\ <<row, q>>[2] = q
          BY <4>1, <4>3
        <5>2. G!Cardinality(row.path) <= depth /\ <<row.person, q>> \in edges
          BY <4>2, <4>3, <4>4, GraphFinite
        <5> QED  BY <2>2, <4>4, <5>1, <5>2 DEF Further
      <4>6. next.person = q /\ next.path = row.path \cup {q} /\ next.path \subseteq w[d + 1]
        BY <2>2, <4>3 DEF G!Step
      <4>7. /\ IsFiniteSet(next.path)
            /\ Cardinality(next.path) = Cardinality(row.path) + 1 /\ Cardinality(row.path) \in Nat
        BY <4>3, <4>4, <4>6, FS_AddElement, FS_CardinalityType
      <4> HIDE DEF next
      <4>8. Cardinality(next.path) <= (d + 1) + 1
        BY <4>3, <4>7
      <4> QED  BY <4>5, <4>6, <4>7, <4>8
    <3> QED  BY <3>1, <3>2
  <2>6. w[d + 1] \subseteq s.active \cup {Center}
    BY <2>2, <2>3
  <2> QED  BY <2>4, <2>5, <2>6
<1> HIDE DEF T
<1>4. depth \in T /\ depth <= depth
  BY <1>2, <1>3, AllNaturals
<1>5. Near(depth) /\ Met(depth) /\ w[depth] \subseteq s.active \cup {Center}
  BY <1>4 DEF T
<1> QED  BY <1>1, <1>5

\* The persons of the lineage, of the whole answer, and whether the union is in it.
Near(s) ==
  G!Ball(s, G!Flipped(s.relations), request.up) \cup G!Ball(s, s.relations, request.down)
InUnion(s) == request.partners /\ G!Anchored(s, Near(s))
Everyone(s) == IF InUnion(s) THEN Near(s) \cup (s.members \cap s.active) ELSE Near(s)

LEMMA LineageIsNear ==
  ASSUME G!GraphViewAssumption, NEW s \in G!Database,
         request.up \in Nat, request.down \in Nat
  PROVE  /\ G!LineageOf(s) = Near(s)
         /\ Near(s) \subseteq s.active \cup {Center}
         /\ Everyone(s) \subseteq s.active \cup {Center}
         /\ \A S \in SUBSET Everyone(s) : IsFiniteSet(S) /\ Cardinality(S) \in Nat
                                        /\ Cardinality(S) <= Cardinality(Everyone(s))
         /\ Cardinality(Everyone(s)) \in Nat
         /\ Near(s) \subseteq Everyone(s)
<1>1. s.active \subseteq Relatives /\ Center \in Relatives /\ IsFiniteSet(Relatives)
  BY GraphFinite DEF G!Database, G!GraphViewAssumption
<1>2. G!LineageOf(s) = Near(s) /\ Near(s) \subseteq s.active \cup {Center}
  BY <1>1, TraversedIsBall DEF G!LineageOf, Near
<1>3. Everyone(s) \subseteq s.active \cup {Center} /\ Near(s) \subseteq Everyone(s)
  BY <1>2 DEF Everyone
<1>4. Everyone(s) \in SUBSET Relatives
  BY <1>1, <1>3
<1>5. IsFiniteSet(Everyone(s)) /\ Cardinality(Everyone(s)) \in Nat
  BY <1>1, <1>4, FS_Subset, FS_CardinalityType
<1> QED  BY <1>2, <1>3, <1>5, FS_Subset, FS_CardinalityType

\* The reference, in these words.
MembersShown(s) == IF InUnion(s) THEN s.members \cap Everyone(s) ELSE {}

Reference(s) ==
  IF Center \notin s.active THEN G!Refused("notFound")
  ELSE IF Cardinality(Everyone(s)) > request.limit THEN G!Refused("limit")
  ELSE [status |-> "ok", persons |-> Everyone(s),
        relations |-> s.relations \cap (Everyone(s) \X Everyone(s)), union |-> InUnion(s),
        members |-> MembersShown(s)]

LEMMA WholeMeant == G!Whole(snapshot) = Reference(snapshot)
BY GraphFinite DEF G!Whole, Reference, Near, InUnion, Everyone, MembersShown, G!Anchored

\* An answer that is being filled.
No == FALSE
Yes == TRUE
Partial(persons, union, members) ==
  [status |-> "none", persons |-> persons, relations |-> {}, union |-> union, members |-> members]

Filled(P, U, X, y) ==
  [status |-> "ok", persons |-> P, relations |-> y, union |-> U, members |-> X]

WithPersons(a, y) == [a EXCEPT !.persons = y]
WithUnion(a, y) == [a EXCEPT !.union = y]
WithMembers(a, y) == [a EXCEPT !.members = y]
WithRelations(a, y) == [a EXCEPT !.status = "ok", !.relations = y]

LEMMA PartialFields ==
  ASSUME NEW P, NEW U, NEW X, NEW y
  PROVE  /\ G!NoAnswer = Partial({}, No, {})
         /\ WithPersons(Partial(P, U, X), y) = Partial(y, U, X)
         /\ WithUnion(Partial(P, U, X), y) = Partial(P, y, X)
         /\ WithMembers(Partial(P, U, X), y) = Partial(P, U, y)
         /\ WithRelations(Partial(P, U, X), y) = Filled(P, U, X, y)
<1>1. G!NoAnswer = Partial({}, No, {})
  BY DEF Partial, G!NoAnswer, No
<1>2. WithPersons(Partial(P, U, X), y) = Partial(y, U, X)
  BY DEF Partial, WithPersons
<1>3. WithUnion(Partial(P, U, X), y) = Partial(P, y, X)
  BY DEF Partial, WithUnion
<1>4. WithMembers(Partial(P, U, X), y) = Partial(P, U, y)
  BY DEF Partial, WithMembers
<1>5. WithRelations(Partial(P, U, X), y) = Filled(P, U, X, y)
  <2>1. [[status |-> "none", persons |-> P, relations |-> {}, union |-> U, members |-> X]
           EXCEPT !.status = "ok"]
        = [status |-> "ok", persons |-> P, relations |-> {}, union |-> U, members |-> X]
    OBVIOUS
  <2>2. [[status |-> "ok", persons |-> P, relations |-> {}, union |-> U, members |-> X]
           EXCEPT !.relations = y]
        = [status |-> "ok", persons |-> P, relations |-> y, union |-> U, members |-> X]
    OBVIOUS
  <2>3. [[status |-> "none", persons |-> P, relations |-> {}, union |-> U, members |-> X]
           EXCEPT !.status = "ok", !.relations = y]
        = [status |-> "ok", persons |-> P, relations |-> y, union |-> U, members |-> X]
    BY <2>1, <2>2
  <2> QED  BY <2>3 DEF Partial, Filled, WithRelations
<1> QED  BY <1>1, <1>2, <1>3, <1>4, <1>5

\* What the request holds before each statement is what the statements before it should have
\* found in its snapshot.
Collected ==
  LET s == snapshot IN
  CASE request.pc = "lineage" -> answer = G!NoAnswer /\ ~ unions
    [] request.pc = "partners" ->
         /\ answer = G!NoAnswer /\ ~ unions /\ request.partners
         /\ lineage = Near(s) /\ nodes = Near(s)
    [] request.pc = "persons" -> answer = G!NoAnswer
    [] request.pc = "unions" -> answer = Partial(Everyone(s), No, {})
    [] request.pc = "members" ->
         /\ unions
         /\ answer = Partial(Everyone(s), Yes, {})
    [] request.pc = "relations" ->
         answer = Partial(Everyone(s), InUnion(s), MembersShown(s))
    [] OTHER -> TRUE

Answering == {"persons", "unions", "members", "relations"}

GraphInv ==
  /\ db \in G!Database /\ snapshot \in G!Database
  /\ request \in [pc : {"center", "lineage", "partners", "done"} \cup Answering,
                  up : Depths, down : Depths, partners : BOOLEAN, limit : Limits]
  /\ unions \in BOOLEAN
  /\ request.pc = "center" => answer = G!NoAnswer /\ ~ unions
  /\ request.pc # "center" => snapshot \in moments
  /\ request.pc \in {"lineage", "partners"} \cup Answering => Center \in snapshot.active
  /\ request.pc \in Answering => /\ nodes = Everyone(snapshot)
                                 /\ unions <=> InUnion(snapshot)
                                 /\ Cardinality(nodes) <= request.limit
  /\ Collected
  /\ request.pc = "done" => answer = G!Whole(snapshot)

\* A statement changes neither what was asked nor what is seen.
Asking(next) ==
  /\ db' = db /\ snapshot' = snapshot /\ moments' = moments
  /\ request' = [request EXCEPT !.pc = next]

LEMMA AskingKeeps ==
  ASSUME GraphInv, NEW next \in {"lineage", "partners", "done"} \cup Answering, Asking(next)
  PROVE  /\ request' \in [pc : {"center", "lineage", "partners", "done"} \cup Answering,
                  up : Depths, down : Depths, partners : BOOLEAN, limit : Limits]
         /\ request'.pc = next /\ request'.limit = request.limit
         /\ request'.up = request.up /\ request'.down = request.down
         /\ request'.partners = request.partners
         /\ Near(snapshot)' = Near(snapshot) /\ InUnion(snapshot)' = InUnion(snapshot)
         /\ Everyone(snapshot)' = Everyone(snapshot)
         /\ MembersShown(snapshot)' = MembersShown(snapshot)
         /\ G!Whole(snapshot)' = G!Whole(snapshot)
<1>1. /\ request' \in [pc : {"center", "lineage", "partners", "done"} \cup Answering,
                  up : Depths, down : Depths, partners : BOOLEAN, limit : Limits]
      /\ request'.pc = next /\ request'.limit = request.limit
      /\ request'.up = request.up /\ request'.down = request.down
      /\ request'.partners = request.partners
  BY DEF GraphInv, Asking
<1>2. snapshot' = snapshot
  BY DEF Asking
<1>3. Near(snapshot)' = Near(snapshot)
  BY <1>1, <1>2 DEF Near
<1>4. InUnion(snapshot)' = InUnion(snapshot)
  BY <1>1, <1>2, <1>3 DEF InUnion
<1>5. Everyone(snapshot)' = Everyone(snapshot)
  BY <1>2, <1>3, <1>4 DEF Everyone
<1>7. MembersShown(snapshot)' = MembersShown(snapshot)
  BY <1>2, <1>4, <1>5 DEF MembersShown
<1>6. G!Whole(snapshot)' = G!Whole(snapshot)
  <2>1. (G!Whole(snapshot) = Reference(snapshot))'
    BY WholeMeant, PTL
  <2>2. Reference(snapshot)' = Reference(snapshot)
    BY <1>1, <1>2, <1>4, <1>5, <1>7 DEF Reference
  <2> QED  BY <2>1, <2>2, WholeMeant
<1> QED  BY <1>1, <1>3, <1>4, <1>5, <1>6, <1>7

LEMMA GraphStart ==
  ASSUME G!GraphViewAssumption, G!Init  PROVE GraphInv
<1>1. db \in G!Database /\ snapshot \in G!Database
  BY DEF G!Init
<1>2. /\ request \in [pc : {"center", "lineage", "partners", "done"} \cup Answering,
                      up : Depths, down : Depths, partners : BOOLEAN, limit : Limits]
      /\ request.pc = "center" /\ request.pc \notin Answering
  BY DEF G!Init, Answering
<1>3. unions = FALSE /\ answer = G!NoAnswer
  BY DEF G!Init
<1> QED  BY <1>1, <1>2, <1>3 DEF GraphInv, Collected

LEMMA CenterStep ==
  ASSUME GraphInv, G!AuthorizeCenter  PROVE GraphInv'
<1>1. /\ request.pc = "center" /\ snapshot' = db /\ moments' = {db} /\ db' = db
      /\ unions' = unions /\ ~ unions /\ answer = G!NoAnswer
  BY DEF G!AuthorizeCenter, G!At, GraphInv
<1>2. CASE Center \in db.active
  <2>1. request' = [request EXCEPT !.pc = "lineage"] /\ answer' = answer
    BY <1>2 DEF G!AuthorizeCenter, G!Goto
  <2>2. /\ request' \in [pc : {"center", "lineage", "partners", "done"} \cup Answering,
                         up : Depths, down : Depths, partners : BOOLEAN, limit : Limits]
        /\ request'.pc = "lineage"
    BY <2>1 DEF GraphInv
  <2> QED  BY <1>1, <1>2, <2>1, <2>2 DEF GraphInv, Collected, Answering
<1>3. CASE Center \notin db.active
  <2>1. request' = [request EXCEPT !.pc = "done"] /\ answer' = G!Refused("notFound")
    BY <1>3 DEF G!AuthorizeCenter, G!Goto, G!Refuse
  <2>2. /\ request' \in [pc : {"center", "lineage", "partners", "done"} \cup Answering,
                         up : Depths, down : Depths, partners : BOOLEAN, limit : Limits]
        /\ request'.pc = "done"
    BY <2>1 DEF GraphInv
  <2>3. G!Whole(snapshot)' = G!Refused("notFound")
    BY <1>1, <1>3 DEF G!Whole
  <2> QED  BY <1>1, <2>1, <2>2, <2>3 DEF GraphInv, Collected, Answering
<1> QED  BY <1>2, <1>3

LEMMA LineageStep ==
  ASSUME G!GraphViewAssumption, GraphInv, G!LoadLineage  PROVE GraphInv'
<1> DEFINE s == snapshot
           near == Near(s)
           next == IF Cardinality(near) > request.limit THEN "done"
                   ELSE IF request.partners THEN "partners" ELSE "persons"
<1>1. /\ request.pc = "lineage" /\ answer = G!NoAnswer /\ ~ unions /\ Center \in s.active
      /\ request.up \in Nat /\ request.down \in Nat /\ request.limit \in Nat
      /\ request.partners \in BOOLEAN /\ s \in G!Database
  BY DEF G!LoadLineage, G!At, GraphInv, Collected, G!GraphViewAssumption
<1>2. lineage' = near /\ nodes' = near /\ unions' = unions
  BY <1>1, LineageIsNear DEF G!LoadLineage, G!Seen
<1>3. Asking(next) /\ answer' = IF next = "done" THEN G!Refused("limit") ELSE answer
  BY <1>1, <1>2, GraphFinite DEF G!LoadLineage, G!Goto, G!Refuse, Asking
<1>4. next \in {"lineage", "partners", "done"} \cup Answering
  BY DEF Answering
<1>5. /\ request' \in [pc : {"center", "lineage", "partners", "done"} \cup Answering,
                       up : Depths, down : Depths, partners : BOOLEAN, limit : Limits]
      /\ request'.pc = next /\ request'.limit = request.limit
      /\ request'.partners = request.partners
      /\ Near(s)' = near /\ InUnion(s)' = InUnion(s) /\ Everyone(s)' = Everyone(s)
      /\ G!Whole(s)' = G!Whole(s)
  BY <1>3, <1>4, AskingKeeps
<1>6. /\ db' = db /\ snapshot' = s /\ moments' = moments
      /\ db \in G!Database /\ s \in moments
  BY <1>1, <1>3 DEF Asking, GraphInv
<1> HIDE DEF near
<1>7. CASE Cardinality(near) > request.limit
  <2>1. Cardinality(Everyone(s)) > request.limit
    <3>1. /\ Cardinality(near) \in Nat /\ Cardinality(Everyone(s)) \in Nat
          /\ Cardinality(near) <= Cardinality(Everyone(s))
      BY <1>1, LineageIsNear DEF near
    <3> QED  BY <1>1, <1>7, <3>1
  <2>2. G!Whole(s) = G!Refused("limit")
    BY <1>1, <2>1, WholeMeant DEF Reference
  <2>3. next = "done" /\ request'.pc = "done" /\ answer' = G!Refused("limit")
    BY <1>3, <1>5, <1>7
  <2> HIDE DEF s
  <2>4. G!Whole(snapshot)' = answer'
    BY <1>5, <1>6, <2>2, <2>3 DEF s
  <2> QED  BY <1>1, <1>2, <1>5, <1>6, <2>3, <2>4 DEF GraphInv, Collected, Answering
<1>8. CASE ~ (Cardinality(near) > request.limit) /\ request.partners
  <2>1. next = "partners" /\ request'.pc = "partners" /\ answer' = answer
    BY <1>3, <1>5, <1>8
  <2>2. Near(snapshot)' = near
    BY <1>5
  <2> HIDE DEF next
  <2> QED  BY <1>1, <1>2, <1>5, <1>6, <1>8, <2>1, <2>2 DEF GraphInv, Collected, Answering
<1>9. CASE ~ (Cardinality(near) > request.limit) /\ ~ request.partners
  <2>1. next = "persons" /\ request'.pc = "persons" /\ answer' = answer
    BY <1>3, <1>5, <1>9
  <2>2. ~ InUnion(s) /\ Everyone(s) = near
    BY <1>9 DEF InUnion, Everyone, near
  <2>3. Everyone(snapshot)' = near /\ ~ InUnion(snapshot)'
    BY <1>5, <2>2
  <2>4. Cardinality(near) <= request.limit
    <3>1. Cardinality(near) \in Nat
      BY <1>1, LineageIsNear DEF near
    <3> QED  BY <1>1, <1>9, <3>1
  <2> HIDE DEF next
  <2> QED  BY <1>1, <1>2, <1>5, <1>6, <2>1, <2>3, <2>4 DEF GraphInv, Collected, Answering
<1> QED  BY <1>7, <1>8, <1>9

LEMMA PartnersStep ==
  ASSUME G!GraphViewAssumption, GraphInv, G!LoadPartners  PROVE GraphInv'
<1> DEFINE s == snapshot
           all == Everyone(s)
           next == IF Cardinality(all) > request.limit THEN "done" ELSE "persons"
<1>1. /\ request.pc = "partners" /\ answer = G!NoAnswer /\ Center \in s.active
      /\ lineage = Near(s) /\ nodes = Near(s) /\ request.partners
      /\ request.up \in Nat /\ request.down \in Nat /\ request.limit \in Nat
      /\ s \in G!Database
  BY DEF G!LoadPartners, G!At, GraphInv, Collected, G!GraphViewAssumption
<1>2. unions' = InUnion(s) /\ unions' \in BOOLEAN
  BY <1>1, GraphFinite DEF G!LoadPartners, G!Seen, InUnion, G!Anchored, G!Database
<1>3. nodes' = all
  BY <1>1, <1>2 DEF G!LoadPartners, G!Seen, Everyone
<1>4. Asking(next) /\ answer' = IF next = "done" THEN G!Refused("limit") ELSE answer
  BY <1>3, GraphFinite DEF G!LoadPartners, G!Goto, G!Refuse, Asking
<1>5. next \in {"lineage", "partners", "done"} \cup Answering
  BY DEF Answering
<1>6. /\ request' \in [pc : {"center", "lineage", "partners", "done"} \cup Answering,
                       up : Depths, down : Depths, partners : BOOLEAN, limit : Limits]
      /\ request'.pc = next /\ request'.limit = request.limit
      /\ InUnion(snapshot)' = InUnion(s) /\ Everyone(snapshot)' = all
      /\ G!Whole(snapshot)' = G!Whole(s)
  BY <1>4, <1>5, AskingKeeps
<1>7. /\ db' = db /\ snapshot' = s /\ moments' = moments
      /\ db \in G!Database /\ s \in moments
  BY <1>1, <1>4 DEF Asking, GraphInv
<1>8. Cardinality(all) \in Nat
  BY <1>1, LineageIsNear
<1> HIDE DEF all
<1>9. CASE Cardinality(all) > request.limit
  <2>1. next = "done" /\ request'.pc = "done" /\ answer' = G!Refused("limit")
    BY <1>4, <1>6, <1>9
  <2>2. G!Whole(s) = G!Refused("limit")
    BY <1>1, <1>9, WholeMeant DEF all, Reference
  <2>3. G!Whole(snapshot)' = answer'
    BY <1>6, <2>1, <2>2
  <2> QED  BY <1>1, <1>2, <1>6, <1>7, <2>1, <2>3 DEF GraphInv, Collected, Answering
<1>10. CASE ~ (Cardinality(all) > request.limit)
  <2>1. next = "persons" /\ request'.pc = "persons" /\ answer' = answer
    BY <1>4, <1>6, <1>10
  <2>2. Cardinality(all) <= request.limit
    BY <1>1, <1>8, <1>10
  <2>3. nodes' = Everyone(snapshot)' /\ (unions' <=> InUnion(snapshot)')
    BY <1>2, <1>3, <1>6
  <2> HIDE DEF next
  <2> QED  BY <1>1, <1>2, <1>3, <1>6, <1>7, <2>1, <2>2, <2>3 DEF GraphInv, Collected, Answering
<1> QED  BY <1>9, <1>10

\* The statements that fill the answer: the persons, the union, its members, the relations.
LEMMA AnswerStep ==
  ASSUME G!GraphViewAssumption, GraphInv, NEW next, Asking(next), request.pc \in Answering,
         next \in {"unions", "members", "relations"},
         UNCHANGED <<nodes, unions>>,
         LET s == snapshot IN
         CASE next = "unions" -> answer' = Partial(Everyone(s), No, {})
           [] next = "members" ->
                /\ unions
                /\ answer' = Partial(Everyone(s), Yes, {})
           [] next = "relations" ->
                answer' = Partial(Everyone(s), InUnion(s), MembersShown(s))
           [] OTHER -> FALSE
  PROVE  GraphInv'
<1>1. next \in {"lineage", "partners", "done"} \cup Answering
  BY DEF Answering
<1>2. /\ request' \in [pc : {"center", "lineage", "partners", "done"} \cup Answering,
                       up : Depths, down : Depths, partners : BOOLEAN, limit : Limits]
      /\ request'.pc = next /\ request'.limit = request.limit
      /\ InUnion(snapshot)' = InUnion(snapshot) /\ Everyone(snapshot)' = Everyone(snapshot)
      /\ MembersShown(snapshot)' = MembersShown(snapshot)
  BY <1>1, AskingKeeps
<1>3. /\ db' = db /\ snapshot' = snapshot /\ moments' = moments
      /\ db \in G!Database /\ snapshot \in G!Database /\ snapshot \in moments
      /\ Center \in snapshot.active
  BY DEF Asking, GraphInv, Answering
<1>4. /\ nodes' = Everyone(snapshot)' /\ (unions' <=> InUnion(snapshot)')
      /\ Cardinality(nodes') <= request'.limit /\ unions' \in BOOLEAN
  BY <1>2 DEF GraphInv
<1>5. Collected'
  <2>1. CASE next = "unions"
    BY <1>2, <1>3, <2>1 DEF Collected
  <2>2. CASE next = "members"
    BY <1>2, <1>3, <2>2 DEF Collected
  <2>3. CASE next = "relations"
    BY <1>2, <1>3, <2>3 DEF Collected
  <2> QED  BY <2>1, <2>2, <2>3
<1>6. next \notin {"center", "done", "lineage", "partners"} /\ next \in Answering
  BY DEF Answering
<1> QED  BY <1>2, <1>3, <1>4, <1>5, <1>6 DEF GraphInv

LEMMA PersonsStep ==
  ASSUME G!GraphViewAssumption, GraphInv, G!LoadPersons  PROVE GraphInv'
<1>1. /\ request.pc = "persons" /\ request.pc \in Answering /\ answer = G!NoAnswer
      /\ Center \in snapshot.active /\ snapshot \in G!Database
      /\ request.up \in Nat /\ request.down \in Nat /\ nodes = Everyone(snapshot)
  BY DEF G!LoadPersons, G!At, GraphInv, Collected, Answering, G!GraphViewAssumption
<1>2. Everyone(snapshot) \cap snapshot.active = Everyone(snapshot)
  BY <1>1, LineageIsNear
<1>3. answer' = Partial(Everyone(snapshot), No, {})
  <2>1. answer' = WithPersons(answer, Everyone(snapshot))
    BY <1>1, <1>2 DEF G!LoadPersons, G!Seen, WithPersons
  <2> QED  BY <1>1, <2>1, PartialFields
<1>4. Asking("unions") /\ UNCHANGED <<nodes, unions>>
  BY DEF G!LoadPersons, G!Goto, Asking
<1> QED  BY <1>1, <1>3, <1>4, AnswerStep

LEMMA UnionsStep ==
  ASSUME G!GraphViewAssumption, GraphInv, G!LoadUnions  PROVE GraphInv'
<1>1. /\ request.pc = "unions" /\ request.pc \in Answering
      /\ answer = Partial(Everyone(snapshot), No, {})
      /\ unions \in BOOLEAN /\ (unions <=> InUnion(snapshot))
  BY DEF G!LoadUnions, G!At, GraphInv, Collected, Answering
<1>2. UNCHANGED <<nodes, unions>>
  BY DEF G!LoadUnions
<1>3. CASE unions
  <2>1. snapshot.live = TRUE
    <3>1. snapshot.live \in BOOLEAN
      BY DEF GraphInv, G!Database
    <3> QED  BY <1>1, <1>3, <3>1 DEF InUnion, G!Anchored
  <2>2. answer' = WithUnion(answer, Yes)
    BY <1>3, <2>1 DEF G!LoadUnions, G!Seen, WithUnion, Yes, No
  <2>3. answer' = Partial(Everyone(snapshot), Yes, {})
    BY <1>1, <2>2, PartialFields
  <2>4. Asking("members")
    BY <1>3 DEF G!LoadUnions, G!Goto, Asking
  <2> QED  BY <1>1, <1>2, <1>3, <2>3, <2>4, AnswerStep
<1>4. CASE ~ unions
  <2>1. answer' = WithUnion(answer, No)
    BY <1>4 DEF G!LoadUnions, G!Seen, WithUnion, Yes, No
  <2>2. InUnion(snapshot) = No /\ ~ InUnion(snapshot)
    <3>1. InUnion(snapshot) \in BOOLEAN
      BY DEF InUnion, GraphInv
    <3> QED  BY <1>1, <1>4, <3>1 DEF No
  <2>3. answer' = Partial(Everyone(snapshot), InUnion(snapshot), MembersShown(snapshot))
    <3>1. MembersShown(snapshot) = {}
      BY <2>2 DEF MembersShown
    <3>2. answer' = Partial(Everyone(snapshot), No, MembersShown(snapshot))
      BY <1>1, <2>1, <3>1, PartialFields
    <3> QED  BY <2>2, <3>2
  <2>4. Asking("relations")
    BY <1>4 DEF G!LoadUnions, G!Goto, Asking
  <2> QED  BY <1>1, <1>2, <2>3, <2>4, AnswerStep
<1> QED  BY <1>3, <1>4

LEMMA MembersStep ==
  ASSUME G!GraphViewAssumption, GraphInv, G!LoadMembers  PROVE GraphInv'
<1>1. /\ request.pc = "members" /\ request.pc \in Answering /\ unions
      /\ answer = Partial(Everyone(snapshot), Yes, {})
      /\ (unions <=> InUnion(snapshot)) /\ nodes = Everyone(snapshot)
  BY DEF G!LoadMembers, G!At, GraphInv, Collected, Answering
<1>2. InUnion(snapshot) = Yes /\ InUnion(snapshot)
  <2>1. InUnion(snapshot) \in BOOLEAN
    BY DEF InUnion, GraphInv
  <2> QED  BY <1>1, <2>1 DEF Yes
<1>3. answer' = WithMembers(answer, snapshot.members \cap Everyone(snapshot))
  BY <1>1 DEF G!LoadMembers, G!Seen, WithMembers
<1>4. answer' = Partial(Everyone(snapshot), InUnion(snapshot), MembersShown(snapshot))
  <2>1. MembersShown(snapshot) = snapshot.members \cap Everyone(snapshot)
    BY <1>2 DEF MembersShown
  <2>2. answer' = Partial(Everyone(snapshot), Yes, MembersShown(snapshot))
    BY <1>1, <1>3, <2>1, PartialFields
  <2> QED  BY <1>2, <2>2
<1>5. Asking("relations") /\ UNCHANGED <<nodes, unions>>
  BY DEF G!LoadMembers, G!Goto, Asking
<1> QED  BY <1>1, <1>4, <1>5, AnswerStep

LEMMA RelationsStep ==
  ASSUME G!GraphViewAssumption, GraphInv, G!LoadRelations  PROVE GraphInv'
<1> DEFINE s == snapshot
           all == Everyone(s)
           in == InUnion(s)
           live == MembersShown(s)
<1>1. /\ request.pc = "relations" /\ Center \in s.active
      /\ answer = Partial(all, in, live)
      /\ nodes = all /\ Cardinality(all) <= request.limit
  BY DEF G!LoadRelations, G!At, GraphInv, Collected, Answering
<1>2. answer' = WithRelations(answer, s.relations \cap (all \X all))
  BY <1>1 DEF G!LoadRelations, G!Seen, WithRelations
<1>3. Asking("done") /\ unions' = unions
  BY DEF G!LoadRelations, G!Goto, Asking
<1>4. /\ request' \in [pc : {"center", "lineage", "partners", "done"} \cup Answering,
                       up : Depths, down : Depths, partners : BOOLEAN, limit : Limits]
      /\ request'.pc = "done" /\ G!Whole(snapshot)' = G!Whole(s)
  BY <1>3, AskingKeeps
<1>5. G!Whole(s) = Filled(all, in, live, s.relations \cap (all \X all))
  <2>1. ~ (Cardinality(all) > request.limit)
    <3>1. Cardinality(all) \in Nat /\ request.limit \in Nat
      BY LineageIsNear DEF GraphInv, G!GraphViewAssumption
    <3> QED  BY <1>1, <3>1
  <2> QED  BY <1>1, <2>1, WholeMeant DEF Reference, Filled
<1> HIDE DEF all, in, live
<1>6. answer' = G!Whole(s)
  BY <1>1, <1>2, <1>5, PartialFields
<1>7. /\ db' = db /\ snapshot' = s /\ moments' = moments /\ db \in G!Database
      /\ s \in G!Database /\ s \in moments /\ unions' \in BOOLEAN
  BY <1>1, <1>3 DEF Asking, GraphInv
<1> QED  BY <1>4, <1>6, <1>7 DEF GraphInv, Collected, Answering

\* Whatever others write, the snapshot stays and remains one of the moments.
LEMMA WriteStep ==
  ASSUME GraphInv, NEW new \in G!Database, G!Write(new)  PROVE GraphInv'
<1>1. /\ request.pc # "center" /\ request.pc # "done" /\ db' = new /\ moments' = moments \cup {new}
      /\ UNCHANGED <<request, snapshot, lineage, nodes, unions, answer>>
  BY DEF G!Write, G!At
<1>2. /\ Near(snapshot)' = Near(snapshot) /\ InUnion(snapshot)' = InUnion(snapshot)
      /\ Everyone(snapshot)' = Everyone(snapshot)
      /\ MembersShown(snapshot)' = MembersShown(snapshot)
  BY <1>1 DEF Near, InUnion, Everyone, MembersShown
<1>3. Collected'
  BY <1>1, <1>2 DEF Collected, GraphInv
<1> QED  BY <1>1, <1>2, <1>3 DEF GraphInv

LEMMA GraphInvariance ==
  ASSUME G!GraphViewAssumption  PROVE G!Spec => []GraphInv
<1>1. G!Init => GraphInv
  BY GraphStart
<1>2. GraphInv /\ [G!Next]_(G!vars) => GraphInv'
  <2> SUFFICES ASSUME GraphInv, [G!Next]_(G!vars)
               PROVE  GraphInv'
    OBVIOUS
  <2>1. CASE G!AuthorizeCenter
    BY <2>1, CenterStep
  <2>2. CASE G!LoadLineage
    BY <2>2, LineageStep
  <2>3. CASE G!LoadPartners
    BY <2>3, PartnersStep
  <2>4. CASE G!LoadPersons
    BY <2>4, PersonsStep
  <2>5. CASE G!LoadUnions
    BY <2>5, UnionsStep
  <2>6. CASE G!LoadMembers
    BY <2>6, MembersStep
  <2>7. CASE G!LoadRelations
    BY <2>7, RelationsStep
  <2> db \in G!Database
    BY DEF GraphInv
  <2>8. ASSUME NEW p \in Relatives, G!WritePerson(p)  PROVE GraphInv'
    <3> DEFINE new == [db EXCEPT !.active = IF p \in @ THEN @ \ {p} ELSE @ \cup {p}]
    <3>1. new \in G!Database
      BY DEF G!Database
    <3>2. G!Write(new)
      BY <2>8 DEF G!WritePerson
    <3> QED  BY <3>1, <3>2, WriteStep
  <2>9. ASSUME NEW p \in Relatives, NEW q \in Relatives, G!WriteRelation(p, q)  PROVE GraphInv'
    <3> DEFINE new == [db EXCEPT !.relations =
                         IF <<p, q>> \in @ THEN @ \ {<<p, q>>} ELSE @ \cup {<<p, q>>}]
    <3>1. new \in G!Database
      BY DEF G!Database
    <3>2. G!Write(new)
      BY <2>9 DEF G!WriteRelation
    <3> QED  BY <3>1, <3>2, WriteStep
  <2>10. ASSUME NEW p \in Relatives, G!WriteMember(p)  PROVE GraphInv'
    <3> DEFINE fewer == [db EXCEPT !.members = @ \ {p}]
               more == [db EXCEPT !.members = @ \cup {p}]
    <3>1. fewer \in G!Database /\ more \in G!Database
      BY DEF G!Database
    <3>2. G!Write(fewer) \/ G!Write(more)
      BY <2>10 DEF G!WriteMember
    <3> QED  BY <3>1, <3>2, WriteStep
  <2>11. CASE G!DeleteUnion
    <3> DEFINE new == [db EXCEPT !.live = FALSE]
    <3>1. new \in G!Database
      BY DEF G!Database
    <3>2. G!Write(new)
      BY <2>11 DEF G!DeleteUnion
    <3> QED  BY <3>1, <3>2, WriteStep
  <2>12. CASE UNCHANGED G!vars
    <3>1. /\ UNCHANGED <<db, request, snapshot, lineage, nodes, unions, answer, moments>>
      BY <2>12 DEF G!vars
    <3>2. /\ Near(snapshot)' = Near(snapshot) /\ InUnion(snapshot)' = InUnion(snapshot)
          /\ Everyone(snapshot)' = Everyone(snapshot)
          /\ MembersShown(snapshot)' = MembersShown(snapshot)
      BY <3>1 DEF Near, InUnion, Everyone, MembersShown
    <3>3. Collected'
      BY <3>1, <3>2 DEF Collected, GraphInv
    <3>4. G!Whole(snapshot)' = G!Whole(snapshot)
      BY <3>1 DEF G!Whole, G!Ball, G!Flipped
    <3> QED  BY <3>1, <3>2, <3>3, <3>4 DEF GraphInv
  <2> QED  BY <2>1, <2>2, <2>3, <2>4, <2>5, <2>6, <2>7, <2>8, <2>9, <2>10, <2>11, <2>12 DEF G!Next
<1> QED  BY <1>1, <1>2, PTL DEF G!Spec

\* A request for the graph around a person (LoadGraphAccessible) answers what the tree was at one
\* moment of the request, at any depth and however many rows are written between its statements:
\* its persons are those within the depths, although the statement walks over paths, and its
\* refusals are those of that one state.
THEOREM AnswerIsOneMomentHolds ==
  ASSUME G!GraphViewAssumption  PROVE G!Spec => []AnswerIsOneMoment
<1>1. GraphInv => AnswerIsOneMoment
  BY DEF GraphInv, AnswerIsOneMoment, G!AnswerIsOneMoment, G!At
<1> QED  BY <1>1, GraphInvariance, PTL

-----------------------------------------------------------------------------
(* The limits on authentication attempts *)

\* The sums of a history from its newest tick on.
Sums(h) == CHOOSE w : w = [n \in 0 .. Window |-> IF n = 0 THEN 0 ELSE w[n - 1] + h[n - 1]]

LEMMA SumsMeant ==
  ASSUME Window \in Nat \ {0}, NEW h \in [A!Ages -> Nat]
  PROVE  /\ Sums(h)[0] = 0
         /\ \A n \in 0 .. Window : Sums(h)[n] \in Nat
         /\ \A n \in A!Ages : Sums(h)[n + 1] = Sums(h)[n] + h[n]
<1> DEFINE f == [x \in Nat \X Nat |-> IF x[1] \in 1 .. Window THEN x[2] + h[x[1] - 1] ELSE x[2]]
           w == Sums(h)
<1>1. f \in [Nat \X Nat -> Nat]
  <2>1. ASSUME NEW x \in Nat \X Nat
        PROVE  (IF x[1] \in 1 .. Window THEN x[2] + h[x[1] - 1] ELSE x[2]) \in Nat
    <3>1. CASE x[1] \in 1 .. Window
      <4>1. x[1] - 1 \in A!Ages /\ x[2] \in Nat
        BY <3>1 DEF A!Ages
      <4>2. h[x[1] - 1] \in Nat
        BY <4>1
      <4> QED  BY <3>1, <4>1, <4>2
    <3> QED  BY <3>1
  <2> QED  BY <2>1
<1>2. PICK g \in [0 .. Window -> Nat] : Iterates(g, 0, f, Window)
  <2> HIDE DEF f
  <2>1. 0 \in Nat
    OBVIOUS
  <2> QED  BY <1>1, <2>1, IterationExists
<1>3. ASSUME NEW n \in 0 .. Window  PROVE g[n] = IF n = 0 THEN 0 ELSE g[n - 1] + h[n - 1]
  <2>1. CASE n = 0
    BY <1>2, <2>1 DEF Iterates
  <2>2. CASE n # 0
    <3>1. n \in 1 .. Window /\ n - 1 \in 0 .. Window /\ g[n - 1] \in Nat
      BY <2>2
    <3>2. g[n] = f[<<n, g[n - 1]>>]
      <4> HIDE DEF f
      <4> QED  BY <1>2, <2>2 DEF Iterates
    <3>3. f[<<n, g[n - 1]>>] = g[n - 1] + h[n - 1]
      BY <3>1
    <3> QED  BY <2>2, <3>2, <3>3
  <2> QED  BY <2>1, <2>2
<1>4. g = [n \in 0 .. Window |-> IF n = 0 THEN 0 ELSE g[n - 1] + h[n - 1]]
  <2>1. g = [n \in 0 .. Window |-> g[n]]
    OBVIOUS
  <2> QED  BY <1>3, <2>1
<1>5. w = [n \in 0 .. Window |-> IF n = 0 THEN 0 ELSE w[n - 1] + h[n - 1]]
  BY <1>4, Zenon DEF Sums
<1> HIDE DEF w
<1>6. w[0] = 0
  BY <1>5
<1>7. ASSUME NEW n \in A!Ages  PROVE w[n + 1] = w[n] + h[n]
  <2>1. n + 1 \in 0 .. Window /\ n + 1 # 0 /\ (n + 1) - 1 = n
    BY DEF A!Ages
  <2> QED  BY <1>5, <2>1
<1> DEFINE T == {n \in Nat : n <= Window => w[n] \in Nat}
<1>8. 0 \in T
  BY <1>6
<1>9. ASSUME NEW n \in Nat, n \in T  PROVE n + 1 \in T
  <2> SUFFICES ASSUME n + 1 <= Window  PROVE w[n + 1] \in Nat
    OBVIOUS
  <2>1. n \in A!Ages /\ n <= Window
    BY DEF A!Ages
  <2>2. w[n] \in Nat /\ h[n] \in Nat
    BY <1>9, <2>1
  <2> QED  BY <1>7, <2>1, <2>2
<1> HIDE DEF T
<1>10. \A n \in 0 .. Window : w[n] \in Nat
  <2>1. \A n \in Nat : n \in T
    BY <1>8, <1>9, AllNaturals
  <2> QED  BY <2>1 DEF T
<1> QED  BY <1>6, <1>7, <1>10 DEF w

\* One more in the newest tick is one more in every stretch.
LEMMA SumsOneMore ==
  ASSUME Window \in Nat \ {0}, NEW h \in [A!Ages -> Nat], NEW k,
         k = [h EXCEPT ![0] = h[0] + 1]
  PROVE  k \in [A!Ages -> Nat] /\ \A n \in 1 .. Window : Sums(k)[n] = Sums(h)[n] + 1
<1>1. 0 \in A!Ages /\ h[0] \in Nat
  BY DEF A!Ages
<1>2. k \in [A!Ages -> Nat] /\ k[0] = h[0] + 1 /\ \A n \in A!Ages : n # 0 => k[n] = h[n]
  BY <1>1
<1> DEFINE v == Sums(k)
           w == Sums(h)
           T == {n \in Nat : n + 1 <= Window => v[n + 1] = w[n + 1] + 1}
<1>3. /\ v[0] = 0 /\ w[0] = 0 /\ \A n \in 0 .. Window : v[n] \in Nat /\ w[n] \in Nat
      /\ \A n \in A!Ages : v[n + 1] = v[n] + k[n] /\ w[n + 1] = w[n] + h[n]
  BY <1>2, SumsMeant
<1> HIDE DEF v, w
<1>4. 0 \in T
  <2>1. v[0 + 1] = v[0] + k[0] /\ w[0 + 1] = w[0] + h[0]
    BY <1>1, <1>3
  <2> QED  BY <1>1, <1>2, <1>3, <2>1
<1>5. ASSUME NEW n \in Nat, n \in T  PROVE n + 1 \in T
  <2> SUFFICES ASSUME (n + 1) + 1 <= Window  PROVE v[(n + 1) + 1] = w[(n + 1) + 1] + 1
    OBVIOUS
  <2>1. n + 1 \in A!Ages /\ n + 1 # 0 /\ n + 1 <= Window /\ n + 1 \in 0 .. Window
    BY DEF A!Ages
  <2>2. v[(n + 1) + 1] = v[n + 1] + k[n + 1] /\ w[(n + 1) + 1] = w[n + 1] + h[n + 1]
    BY <1>3, <2>1
  <2>3. k[n + 1] = h[n + 1] /\ h[n + 1] \in Nat /\ w[n + 1] \in Nat /\ v[n + 1] = w[n + 1] + 1
    BY <1>2, <1>3, <1>5, <2>1
  <2> QED  BY <2>2, <2>3
<1> HIDE DEF T
<1>6. ASSUME NEW n \in 1 .. Window  PROVE v[n] = w[n] + 1
  <2>1. n - 1 \in Nat /\ (n - 1) + 1 = n /\ n <= Window
    OBVIOUS
  <2>2. n - 1 \in T
    BY <1>4, <1>5, <2>1, AllNaturals
  <2> QED  BY <2>1, <2>2 DEF T
<1> QED  BY <1>2, <1>6 DEF v, w

\* A tick moves every stretch by one.
LEMMA SumsShifted ==
  ASSUME Window \in Nat \ {0}, NEW h \in [A!Ages -> Nat], NEW k,
         k = [t \in A!Ages |-> IF t = 0 THEN 0 ELSE h[t - 1]]
  PROVE  k \in [A!Ages -> Nat] /\ k[0] = 0 /\ \A n \in A!Ages : Sums(k)[n + 1] = Sums(h)[n]
<1>1. \A t \in A!Ages : t # 0 => t - 1 \in A!Ages
  BY DEF A!Ages
<1>2. k \in [A!Ages -> Nat] /\ 0 \in A!Ages /\ k[0] = 0
  BY <1>1 DEF A!Ages
<1> DEFINE v == Sums(k)
           w == Sums(h)
           T == {n \in Nat : n + 1 <= Window => v[n + 1] = w[n]}
<1>3. /\ v[0] = 0 /\ w[0] = 0 /\ \A n \in 0 .. Window : v[n] \in Nat /\ w[n] \in Nat
      /\ \A n \in A!Ages : v[n + 1] = v[n] + k[n] /\ w[n + 1] = w[n] + h[n]
  BY <1>2, SumsMeant
<1> HIDE DEF v, w
<1>4. 0 \in T
  <2>1. v[0 + 1] = v[0] + k[0]
    BY <1>2, <1>3
  <2> QED  BY <1>2, <1>3, <2>1
<1>5. ASSUME NEW n \in Nat, n \in T  PROVE n + 1 \in T
  <2> SUFFICES ASSUME (n + 1) + 1 <= Window  PROVE v[(n + 1) + 1] = w[n + 1]
    OBVIOUS
  <2>1. /\ n \in A!Ages /\ n + 1 \in A!Ages /\ n + 1 # 0 /\ n + 1 <= Window
        /\ (n + 1) - 1 = n
    BY DEF A!Ages
  <2>2. v[(n + 1) + 1] = v[n + 1] + k[n + 1] /\ w[n + 1] = w[n] + h[n]
    BY <1>3, <2>1
  <2>3. k[n + 1] = h[n] /\ v[n + 1] = w[n]
    BY <1>5, <2>1
  <2> QED  BY <2>2, <2>3
<1> HIDE DEF T
<1>6. ASSUME NEW n \in A!Ages  PROVE v[n + 1] = w[n]
  <2>1. n \in Nat /\ n + 1 <= Window
    BY DEF A!Ages
  <2>2. n \in T
    BY <1>4, <1>5, <2>1, AllNaturals
  <2> QED  BY <2>1, <2>2 DEF T
<1> QED  BY <1>2, <1>6 DEF v, w

LEMMA SumsGrow ==
  ASSUME Window \in Nat \ {0}, NEW h \in [A!Ages -> Nat],
         NEW m \in 0 .. Window, NEW n \in 0 .. Window, m <= n
  PROVE  Sums(h)[m] <= Sums(h)[n]
<1> DEFINE w == Sums(h)
           T == {i \in Nat : m + i <= Window => w[m] <= w[m + i]}
<1>1. /\ \A i \in 0 .. Window : w[i] \in Nat
      /\ \A i \in A!Ages : w[i + 1] = w[i] + h[i]
  BY SumsMeant
<1> HIDE DEF w
<1>2. 0 \in T
  BY <1>1
<1>3. ASSUME NEW i \in Nat, i \in T  PROVE i + 1 \in T
  <2> SUFFICES ASSUME m + (i + 1) <= Window  PROVE w[m] <= w[m + (i + 1)]
    OBVIOUS
  <2>1. m + i \in A!Ages /\ m + i \in 0 .. Window /\ (m + i) + 1 = m + (i + 1) /\ m + i <= Window
    BY DEF A!Ages
  <2>2. w[(m + i) + 1] = w[m + i] + h[m + i] /\ h[m + i] \in Nat /\ w[m + i] \in Nat
    BY <1>1, <2>1
  <2>3. w[m] <= w[m + i] /\ w[m] \in Nat
    BY <1>1, <1>3, <2>1
  <2> QED  BY <2>1, <2>2, <2>3
<1> HIDE DEF T
<1>4. n - m \in Nat /\ m + (n - m) = n /\ n <= Window
  OBVIOUS
<1>5. n - m \in T
  BY <1>2, <1>3, <1>4, AllNaturals
<1> QED  BY <1>4, <1>5 DEF T, w

\* How long ago the window of the watched key began, and how much of its limit is used up.
Age == clock + Window - entries[watched].expiresAt
Most == A!Limit(watched)
Spent == IF entries[watched].count > Most THEN Most ELSE entries[watched].count

\* What a window has allowed, and without its first tick at least one less; before it, less than a
\* limit.
WindowSpent ==
  /\ Age \in A!Ages
  /\ Sums(allowed)[Age + 1] <= Spent
  /\ Sums(allowed)[Age] <= Spent - 1
  /\ Sums(allowed)[Window] <= Sums(allowed)[Age + 1] + (Most - 1)

\* Between two windows: the one that ended began too long ago to be seen whole.
Between == allowed[0] = 0 /\ Sums(allowed)[Window] <= Most - 1

RateInv ==
  /\ clock \in Nat /\ watched \in A!Keys
  /\ allowed \in [A!Ages -> Nat]
  /\ entries \in [A!Keys -> [count : Nat, expiresAt : Nat]]
  /\ IF A!Live(watched) THEN WindowSpent ELSE Between

LEMMA LimitMeant ==
  ASSUME A!RateLimitAssumption, NEW k
  PROVE  Window \in Nat \ {0} /\ A!Limit(k) \in Nat \ {0}
BY DEF A!RateLimitAssumption, A!Limit

LEMMA RateInit ==
  ASSUME A!RateLimitAssumption, A!Init  PROVE RateInv
<1>1. /\ clock = 0 /\ watched \in A!Keys /\ allowed = [t \in A!Ages |-> 0]
      /\ entries = [k \in A!Keys |-> A!Absent]
  BY DEF A!Init
<1>2. Window \in Nat \ {0} /\ Most \in Nat \ {0}
  BY LimitMeant DEF Most
<1>3. A!Absent = [count |-> 0, expiresAt |-> 0] /\ A!Absent \in [count : Nat, expiresAt : Nat]
  BY DEF A!Absent
<1>4. entries \in [A!Keys -> [count : Nat, expiresAt : Nat]] /\ entries[watched].count = 0
  BY <1>1, <1>3
<1>5. allowed \in [A!Ages -> Nat] /\ 0 \in A!Ages /\ allowed[0] = 0
  BY <1>1, <1>2 DEF A!Ages
<1>6. ~ A!Live(watched)
  BY <1>4 DEF A!Live
<1> DEFINE w == Sums(allowed)
           T == {n \in Nat : n <= Window => w[n] = 0}
<1>7. w[0] = 0 /\ \A n \in A!Ages : w[n + 1] = w[n] + allowed[n]
  BY <1>2, <1>5, SumsMeant
<1> HIDE DEF w
<1>8. 0 \in T
  BY <1>7
<1>9. ASSUME NEW n \in Nat, n \in T  PROVE n + 1 \in T
  <2>1. n + 1 <= Window => n \in A!Ages /\ n <= Window
    BY <1>2 DEF A!Ages
  <2>2. \A t \in A!Ages : allowed[t] = 0
    BY <1>1
  <2>3. n + 1 <= Window => w[n + 1] = w[n] + 0 /\ w[n] = 0
    BY <1>7, <1>9, <2>1, <2>2
  <2> QED  BY <2>3
<1> HIDE DEF T
<1>10. Window \in T /\ Window <= Window
  BY <1>2, <1>8, <1>9, AllNaturals
<1>11. w[Window] = 0
  BY <1>10 DEF T
<1> QED  BY <1>1, <1>2, <1>4, <1>5, <1>6, <1>11 DEF RateInv, Between, w

\* What one more attempt does to the entry of the watched key: a live entry of another key's
\* attempt is kept, whatever is evicted.
LEMMA EntryStep ==
  ASSUME A!RateLimitAssumption, RateInv, NEW k \in A!Keys, A!Increment(k)
  PROVE  /\ entries' \in [A!Keys -> [count : Nat, expiresAt : Nat]]
         /\ k = watched => entries'[watched] = A!Incremented(watched)
         /\ k # watched /\ A!Live(watched) => entries'[watched] = entries[watched]
         /\ k # watched /\ ~ A!Live(watched) => \/ entries'[watched] = entries[watched]
                                                \/ entries'[watched] = A!Absent
<1>1. /\ entries \in [A!Keys -> [count : Nat, expiresAt : Nat]] /\ clock \in Nat
      /\ watched \in A!Keys /\ Window \in Nat
  BY LimitMeant DEF RateInv
<1>2. entries' = [j \in A!Keys |-> IF j = k THEN A!Incremented(k)
                                   ELSE IF j \in A!Kept(k) THEN entries[j] ELSE A!Absent]
  BY DEF A!Increment
<1>3. A!Incremented(k) \in [count : Nat, expiresAt : Nat]
  <2>1. CASE A!Live(k)
    <3> DEFINE e == entries[k]
               n == IF e.count > A!Limit(k) THEN e.count ELSE e.count + 1
    <3>1. e \in [count : Nat, expiresAt : Nat] /\ e.count \in Nat
      BY <1>1
    <3>2. n \in Nat
      BY <3>1
    <3>3. A!Incremented(k) = [e EXCEPT !.count = n]
      BY <2>1 DEF A!Incremented
    <3> HIDE DEF e, n
    <3> QED  BY <3>1, <3>2, <3>3
  <2>2. CASE ~ A!Live(k)
    BY <1>1, <2>2 DEF A!Incremented
  <2> QED  BY <2>1, <2>2
<1>4. A!Absent \in [count : Nat, expiresAt : Nat]
  BY DEF A!Absent
<1>5. entries' \in [A!Keys -> [count : Nat, expiresAt : Nat]]
  BY <1>1, <1>2, <1>3, <1>4
<1>6. A!Live(watched) => watched \in A!Kept(k)
  BY <1>1 DEF A!Live, A!Kept, A!Stored
<1> QED  BY <1>1, <1>2, <1>5, <1>6

\* Nothing changes for the watched key when another key is counted.
LEMMA OtherCounted ==
  ASSUME A!RateLimitAssumption, RateInv, NEW k \in A!Keys, k # watched, A!Increment(k),
         UNCHANGED <<clock, watched, allowed>>
  PROVE  RateInv'
<1>1. entries' \in [A!Keys -> [count : Nat, expiresAt : Nat]]
  BY EntryStep
<1>2. CASE A!Live(watched)
  <2>1. entries'[watched] = entries[watched]
    BY <1>2, EntryStep
  <2>2. A!Live(watched)' /\ Age' = Age /\ Spent' = Spent /\ Most' = Most
    BY <1>2, <2>1 DEF A!Live, Age, Spent, Most, A!Limit
  <2>3. WindowSpent'
    BY <1>2, <2>2 DEF RateInv, WindowSpent
  <2> QED  BY <1>1, <2>2, <2>3 DEF RateInv
<1>3. CASE ~ A!Live(watched)
  <2>1. entries'[watched] = entries[watched] \/ entries'[watched] = A!Absent
    BY <1>3, EntryStep
  <2>2. ~ A!Live(watched)'
    BY <1>3, <2>1 DEF A!Live, A!Absent
  <2>3. Between'
    BY <1>3 DEF RateInv, Between, Most, A!Limit
  <2> QED  BY <1>1, <2>2, <2>3 DEF RateInv
<1> QED  BY <1>2, <1>3

\* An attempt of the watched key, that is allowed or not.
LEMMA WatchedCounted ==
  ASSUME A!RateLimitAssumption, RateInv, A!Increment(watched), UNCHANGED <<clock, watched>>,
         \/ allowed' = allowed
         \/ /\ entries'[watched].count <= Most
            /\ allowed' = [allowed EXCEPT ![0] = allowed[0] + 1]
  PROVE  RateInv'
<1> DEFINE w == Sums(allowed)
           v == Sums(allowed')
           more == IF allowed' = allowed THEN 0 ELSE 1
<1>1. /\ clock \in Nat /\ watched \in A!Keys /\ allowed \in [A!Ages -> Nat]
      /\ entries \in [A!Keys -> [count : Nat, expiresAt : Nat]]
      /\ Window \in Nat \ {0} /\ Most \in Nat \ {0} /\ Most' = Most
  BY LimitMeant DEF RateInv, Most, A!Limit
<1>2. /\ entries' \in [A!Keys -> [count : Nat, expiresAt : Nat]]
      /\ entries'[watched] = A!Incremented(watched)
  BY <1>1, EntryStep
<1>3. /\ 0 \in A!Ages /\ w[0] = 0 /\ w[0 + 1] = w[0] + allowed[0] /\ allowed[0] \in Nat
      /\ \A n \in 0 .. Window : w[n] \in Nat
  <2>1. 0 \in A!Ages
    BY <1>1 DEF A!Ages
  <2> QED  BY <1>1, <2>1, SumsMeant
<1>4. /\ allowed' \in [A!Ages -> Nat] /\ more \in {0, 1} /\ allowed'[0] = allowed[0] + more
      /\ v[0] = 0 /\ \A n \in 1 .. Window : v[n] = w[n] + more
      /\ more = 1 => entries'[watched].count <= Most
  <2>1. CASE allowed' = allowed
    <3>1. \A n \in 1 .. Window : w[n] = w[n] + 0
      <4>1. \A n \in 1 .. Window : n \in 0 .. Window
        OBVIOUS
      <4> HIDE DEF w
      <4> QED  BY <1>3, <4>1
    <3> QED  BY <1>1, <1>3, <2>1, <3>1
  <2>2. CASE allowed' # allowed
    <3>1. entries'[watched].count <= Most /\ allowed' = [allowed EXCEPT ![0] = allowed[0] + 1]
      BY <2>2
    <3>2. allowed' \in [A!Ages -> Nat] /\ \A n \in 1 .. Window : v[n] = w[n] + 1
      BY <1>1, <3>1, SumsOneMore
    <3>3. v[0] = 0
      BY <1>1, <3>2, SumsMeant
    <3>4. allowed'[0] = allowed[0] + 1
      BY <1>1, <1>3, <3>1
    <3> QED  BY <2>2, <3>1, <3>2, <3>3, <3>4
  <2> QED  BY <2>1, <2>2
<1> HIDE DEF more
<1>5. CASE A!Live(watched)
  <2> DEFINE e == entries[watched]
             n == IF e.count > Most THEN e.count ELSE e.count + 1
             a == clock + Window - e.expiresAt
             s == IF e.count > Most THEN Most ELSE e.count
             t == IF n > Most THEN Most ELSE n
  <2>1. e \in [count : Nat, expiresAt : Nat] /\ e.count > 0 /\ clock < e.expiresAt
    BY <1>1, <1>5 DEF A!Live
  <2>2. entries'[watched] = [e EXCEPT !.count = n]
    BY <1>2, <1>5 DEF A!Incremented, Most
  <2>3. n \in Nat /\ n > 0
    BY <2>1
  <2>4. entries'[watched].count = n /\ entries'[watched].expiresAt = e.expiresAt
    BY <2>1, <2>2
  <2>5. A!Live(watched)'
    BY <2>1, <2>3, <2>4 DEF A!Live
  <2>6. /\ a \in A!Ages /\ w[a + 1] <= s /\ w[a] <= s - 1 /\ w[Window] <= w[a + 1] + (Most - 1)
    BY <1>5 DEF RateInv, WindowSpent, Age, Spent
  <2>7. Age' = a /\ Spent' = t
    BY <1>1, <2>4 DEF Age, Spent
  <2>8. s \in Nat /\ t \in Nat /\ s <= t /\ (more = 1 => t = s + 1)
    BY <1>1, <1>4, <2>1, <2>4
  <2> HIDE DEF e, n, a, s, t, v, w
  <2>9. /\ a + 1 \in 1 .. Window /\ Window \in 1 .. Window /\ a \in 0 .. Window
        /\ a + 1 \in 0 .. Window /\ Window \in 0 .. Window /\ (a = 0 \/ a \in 1 .. Window)
    BY <1>1, <2>6 DEF A!Ages
  <2>10. v[a + 1] = w[a + 1] + more /\ v[Window] = w[Window] + more
         /\ (v[a] = w[a] + more \/ v[a] = 0)
    BY <1>4, <2>9
  <2>11. /\ w[a + 1] \in Nat /\ w[a] \in Nat /\ w[Window] \in Nat
    BY <1>3, <2>9
  <2>12. v[a + 1] <= t /\ v[Window] <= v[a + 1] + (Most - 1)
    BY <1>1, <1>4, <2>6, <2>8, <2>10, <2>11
  <2>13. v[a] <= t - 1
    BY <1>1, <1>4, <2>6, <2>8, <2>10, <2>11
  <2>14. WindowSpent'
    BY <1>1, <2>6, <2>7, <2>12, <2>13 DEF WindowSpent, v
  <2> QED  BY <1>1, <1>2, <1>4, <2>5, <2>14 DEF RateInv
<1>6. CASE ~ A!Live(watched)
  <2>1. entries'[watched] = [count |-> 1, expiresAt |-> clock + Window]
    BY <1>2, <1>6 DEF A!Incremented
  <2>2. A!Live(watched)' /\ Age' = 0 /\ Spent' = 1
    BY <1>1, <2>1 DEF A!Live, Age, Spent
  <2>3. allowed[0] = 0 /\ w[Window] <= Most - 1
    BY <1>6 DEF RateInv, Between
  <2>4. v[0 + 1] = w[0 + 1] + more /\ v[Window] = w[Window] + more
    <3>1. 0 + 1 \in 1 .. Window /\ Window \in 1 .. Window
      BY <1>1
    <3> QED  BY <1>4, <3>1
  <2>5. w[Window] \in Nat /\ w[0 + 1] = 0
    <3>1. Window \in 0 .. Window
      BY <1>1
    <3> QED  BY <1>3, <2>3, <3>1
  <2> HIDE DEF v, w
  <2>6. v[0 + 1] <= 1 /\ v[0] <= 1 - 1 /\ v[Window] <= v[0 + 1] + (Most - 1)
    BY <1>1, <1>4, <2>3, <2>4, <2>5
  <2>7. WindowSpent'
    BY <1>1, <1>3, <2>2, <2>6 DEF WindowSpent, v
  <2> QED  BY <1>1, <1>2, <1>4, <2>2, <2>7 DEF RateInv
<1> QED  BY <1>5, <1>6

LEMMA TickStep ==
  ASSUME A!RateLimitAssumption, RateInv, A!Tick  PROVE RateInv'
<1> DEFINE w == Sums(allowed)
           v == Sums(allowed')
<1>1. /\ clock \in Nat /\ watched \in A!Keys /\ allowed \in [A!Ages -> Nat]
      /\ entries \in [A!Keys -> [count : Nat, expiresAt : Nat]]
      /\ Window \in Nat \ {0} /\ Most \in Nat \ {0}
  BY LimitMeant DEF RateInv, Most
<1>2. /\ clock' = clock + 1 /\ UNCHANGED <<entries, watched>>
      /\ allowed' = [t \in A!Ages |-> IF t = 0 THEN 0 ELSE allowed[t - 1]]
  BY DEF A!Tick
<1>3. Most' = Most /\ Spent' = Spent
  BY <1>2 DEF Most, Spent, A!Limit
<1>4. allowed' \in [A!Ages -> Nat] /\ allowed'[0] = 0 /\ \A n \in A!Ages : v[n + 1] = w[n]
  BY <1>1, <1>2, SumsShifted
<1>5. \A n \in 0 .. Window : w[n] \in Nat
  BY <1>1, SumsMeant
<1>6. Window - 1 \in A!Ages /\ (Window - 1) + 1 = Window /\ Window - 1 \in 0 .. Window
      /\ Window \in 0 .. Window
  BY <1>1 DEF A!Ages
<1>7. v[Window] = w[Window - 1]
  BY <1>4, <1>6
<1>8. w[Window - 1] <= w[Window]
  <2>1. Window - 1 <= Window
    BY <1>1
  <2> QED  BY <1>1, <1>6, <2>1, SumsGrow
<1> DEFINE e == entries[watched]
           a == clock + Window - e.expiresAt
           s == IF e.count > Most THEN Most ELSE e.count
<1>9. e \in [count : Nat, expiresAt : Nat] /\ s \in Nat /\ s <= Most
  BY <1>1
<1>10. /\ A!Live(watched) <=> e.count > 0 /\ clock < e.expiresAt
       /\ A!Live(watched)' <=> e.count > 0 /\ clock + 1 < e.expiresAt
       /\ Age' = clock + 1 + Window - e.expiresAt /\ Spent' = s
  BY <1>2, <1>3 DEF A!Live, Age, Spent
<1>11. Age' = a + 1
  BY <1>1, <1>9, <1>10
<1>12. CASE A!Live(watched)
  <2>1. /\ a \in A!Ages /\ w[a + 1] <= s /\ w[a] <= s - 1 /\ w[Window] <= w[a + 1] + (Most - 1)
    BY <1>12 DEF RateInv, WindowSpent, Age, Spent
  <2>2. a \in 0 .. Window - 1 /\ a \in 0 .. Window /\ a + 1 \in 0 .. Window
    BY <2>1, <1>1 DEF A!Ages
  <2>3. w[a] \in Nat /\ w[a + 1] \in Nat /\ w[Window] \in Nat /\ w[Window - 1] \in Nat
    BY <1>5, <1>6, <2>2
  <2>4. CASE clock + 1 < e.expiresAt
    <3>1. A!Live(watched)'
      BY <1>10, <1>12, <2>4
    <3>2. a + 1 \in A!Ages
      <4>1. clock \in Nat /\ e.expiresAt \in Nat
        BY <1>1, <1>9
      <4> HIDE DEF e
      <4>2. a + 1 <= Window - 1
        BY <1>1, <2>4, <4>1
      <4> HIDE DEF a
      <4> QED  BY <1>1, <2>2, <4>2 DEF A!Ages
    <3> HIDE DEF a, s, v, w, e
    <3>3. v[(a + 1) + 1] = w[a + 1] /\ v[a + 1] = w[a]
      BY <1>4, <2>1, <3>2
    <3>4. v[(a + 1) + 1] <= s /\ v[a + 1] <= s - 1 /\ v[Window] <= v[(a + 1) + 1] + (Most - 1)
      BY <1>1, <1>7, <1>8, <1>9, <2>1, <2>3, <3>3
    <3>5. WindowSpent'
      BY <1>3, <1>10, <1>11, <3>2, <3>4 DEF WindowSpent, v
    <3> QED  BY <1>1, <1>2, <1>4, <3>1, <3>5 DEF RateInv
  <2>5. CASE ~ (clock + 1 < e.expiresAt)
    <3>1. ~ A!Live(watched)'
      BY <1>10, <2>5
    <3>2. a = Window - 1
      <4>1. clock \in Nat /\ e.expiresAt \in Nat /\ clock < e.expiresAt
        BY <1>1, <1>9, <1>10, <1>12
      <4> HIDE DEF e
      <4> QED  BY <1>1, <2>5, <4>1
    <3> HIDE DEF a, s, v, w, e
    <3>3. v[Window] <= Most - 1
      BY <1>1, <1>7, <1>9, <2>1, <2>3, <3>2
    <3>4. Between'
      BY <1>3, <1>4, <3>3 DEF Between, v
    <3> QED  BY <1>1, <1>2, <1>4, <3>1, <3>4 DEF RateInv
  <2> QED  BY <2>4, <2>5
<1>13. CASE ~ A!Live(watched)
  <2>1. ~ A!Live(watched)'
    <3>1. clock \in Nat /\ e.expiresAt \in Nat
      BY <1>1, <1>9
    <3> HIDE DEF e
    <3>2. clock + 1 < e.expiresAt => clock < e.expiresAt
      BY <3>1
    <3> QED  BY <1>10, <1>13, <3>2
  <2>2. w[Window] <= Most - 1 /\ w[Window] \in Nat /\ w[Window - 1] \in Nat
    BY <1>5, <1>6, <1>13 DEF RateInv, Between
  <2> HIDE DEF v, w
  <2>3. v[Window] <= Most - 1
    BY <1>1, <1>7, <1>8, <2>2
  <2>4. Between'
    BY <1>3, <1>4, <2>3 DEF Between, v
  <2> QED  BY <1>1, <1>2, <1>4, <2>1, <2>4 DEF RateInv
<1> QED  BY <1>12, <1>13

LEMMA CountStep ==
  ASSUME A!RateLimitAssumption, RateInv, NEW q, NEW k \in A!Keys, NEW next, A!Count(q, k, next)
  PROVE  RateInv'
<1>1. UNCHANGED <<clock, watched>>
  BY DEF A!Count
<1>2. CASE A!Increment(k)
           /\ allowed' = IF entries'[k].count <= A!Limit(k) /\ k = watched
                         THEN [allowed EXCEPT ![0] = @ + 1] ELSE allowed
  <2>1. CASE k = watched
    <3>1. \/ allowed' = allowed
          \/ /\ entries'[watched].count <= Most
             /\ allowed' = [allowed EXCEPT ![0] = allowed[0] + 1]
      BY <1>2, <2>1 DEF Most
    <3> QED  BY <1>1, <1>2, <2>1, <3>1, WatchedCounted
  <2>2. CASE k # watched
    <3>1. allowed' = allowed
      BY <1>2, <2>2
    <3> QED  BY <1>1, <1>2, <2>2, <3>1, OtherCounted
  <2> QED  BY <2>1, <2>2
<1>3. CASE A!Increment(k) /\ allowed' = allowed
  <2>1. CASE k = watched
    BY <1>1, <1>3, <2>1, WatchedCounted
  <2>2. CASE k # watched
    BY <1>1, <1>3, <2>2, OtherCounted
  <2> QED  BY <2>1, <2>2
<1>4. CASE UNCHANGED <<entries, allowed>>
  BY <1>1, <1>4 DEF RateInv, WindowSpent, Between, Age, Most, Spent, A!Live, A!Limit
<1>5. \/ A!Increment(k) /\ allowed' = IF entries'[k].count <= A!Limit(k) /\ k = watched
                                      THEN [allowed EXCEPT ![0] = @ + 1] ELSE allowed
      \/ A!Increment(k) /\ allowed' = allowed
      \/ UNCHANGED <<entries, allowed>>
  <2>1. CASE A!Allow(q, k, next)
    BY <2>1 DEF A!Allow
  <2>2. CASE A!Full(q, k) \/ A!RedisFails(q, k)
    BY <2>2 DEF A!Full, A!RedisFails
  <2> QED  BY <2>1, <2>2 DEF A!Count
<1> QED  BY <1>2, <1>3, <1>4, <1>5

LEMMA RateInvariance ==
  ASSUME A!RateLimitAssumption  PROVE A!Spec => []RateInv
<1>1. A!Init => RateInv
  BY RateInit
<1>2. RateInv /\ [A!Next]_(A!vars) => RateInv'
  <2> SUFFICES ASSUME RateInv, [A!Next]_(A!vars)
               PROVE  RateInv'
    OBVIOUS
  <2>1. CASE A!Tick
    BY <2>1, TickStep
  <2>2. ASSUME NEW q \in Requests, A!CountAddress(q) \/ A!CountAccount(q)  PROVE RateInv'
    <3>1. PICK k \in A!Keys, next \in {"idle", "account"} : A!Count(q, k, next)
      BY <2>2 DEF A!CountAddress, A!CountAccount, A!Keys
    <3> QED  BY <3>1, CountStep
  <2>3. CASE UNCHANGED A!vars
    BY <2>3 DEF A!vars, RateInv, WindowSpent, Between, Age, Most, Spent, A!Live, A!Limit
  <2> QED  BY <2>1, <2>2, <2>3 DEF A!Next
<1> QED  BY <1>1, <1>2, PTL DEF A!Spec

\* No stretch of time as long as a window sees twice the limit of a key (allowAuthAttempt, Limiter
\* and its stores), for every limit, window and table size, whatever is evicted and whatever Redis
\* counts without telling: what was allowed in a window is less than its limit once its first tick
\* is out of sight, and two windows never begin within one.
THEOREM BurstBelowTwiceHolds ==
  ASSUME A!RateLimitAssumption  PROVE A!Spec => []BurstBelowTwice
<1>1. ASSUME RateInv  PROVE BurstBelowTwice
  <2> DEFINE w == Sums(allowed)
  <2>1. w[Window] = A!AllowedWithin[Window]
    BY DEF A!AllowedWithin, Sums
  <2>2. Window \in Nat \ {0} /\ Most \in Nat \ {0} /\ allowed \in [A!Ages -> Nat]
    BY <1>1, LimitMeant DEF RateInv, Most
  <2>3. w[Window] \in Nat /\ \A n \in A!Ages : w[n + 1] \in Nat
    BY <2>2, SumsMeant DEF A!Ages
  <2>4. CASE A!Live(watched)
    <3> DEFINE a == Age
               s == Spent
    <3>1. /\ a \in A!Ages /\ w[a + 1] <= s /\ w[Window] <= w[a + 1] + (Most - 1)
      BY <1>1, <2>4 DEF RateInv, WindowSpent
    <3>2. s \in Nat /\ s <= Most
      <4>1. entries[watched].count \in Nat
        BY <1>1 DEF RateInv
      <4> QED  BY <2>2, <4>1 DEF Spent
    <3> HIDE DEF w, a, s
    <3>3. w[Window] <= 2 * Most - 1
      BY <2>2, <2>3, <3>1, <3>2
    <3> QED  BY <2>1, <3>3 DEF BurstBelowTwice, A!BurstBelowTwice, Most
  <2>5. CASE ~ A!Live(watched)
    <3>1. w[Window] <= Most - 1
      BY <1>1, <2>5 DEF RateInv, Between
    <3> HIDE DEF w
    <3>2. w[Window] <= 2 * Most - 1
      BY <2>2, <2>3, <3>1
    <3> QED  BY <2>1, <3>2 DEF BurstBelowTwice, A!BurstBelowTwice, Most
  <2> QED  BY <2>4, <2>5
<1> QED  BY <1>1, RateInvariance, PTL

-----------------------------------------------------------------------------
(* The list of persons *)

LEMMA ListFinite ==
  ASSUME NEW S
  PROVE  (L!IsFiniteSet(S) <=> IsFiniteSet(S)) /\ L!Cardinality(S) = Cardinality(S)
<1>1. L!IsFiniteSet(S) <=> IsFiniteSet(S)
  BY DEF L!IsFiniteSet, IsFiniteSet
<1>2. L!Cardinality(S) = Cardinality(S)
  BY DEF L!Cardinality, Cardinality
<1> QED  BY <1>1, <1>2

\* The sort key orders persons totally: the identifier decides between equal names.
LEMMA KeysOrder ==
  ASSUME L!PersonListAssumption, name \in [Listed -> Names]
  PROVE  /\ \A p, q \in Listed :
              L!Before(L!Key(p), L!Key(q)) <=> name[p] < name[q] \/ (name[p] = name[q] /\ p < q)
         /\ \A p \in Listed : ~ L!Before(L!Key(p), L!Key(p))
         /\ \A p, q \in Listed :
              p # q => L!Before(L!Key(p), L!Key(q)) \/ L!Before(L!Key(q), L!Key(p))
         /\ \A p, q, r \in Listed : L!Before(L!Key(p), L!Key(q)) /\ L!Before(L!Key(q), L!Key(r))
                                    => L!Before(L!Key(p), L!Key(r))
<1>1. \A p \in Listed : p \in Nat /\ name[p] \in Nat
  BY DEF L!PersonListAssumption
<1>2. \A p, q \in Listed :
        L!Before(L!Key(p), L!Key(q)) <=> name[p] < name[q] \/ (name[p] = name[q] /\ p < q)
  BY DEF L!Before, L!Key
<1>3. \A p \in Listed : ~ L!Before(L!Key(p), L!Key(p))
  BY <1>1, <1>2
<1>4. \A p, q \in Listed :
        p # q => L!Before(L!Key(p), L!Key(q)) \/ L!Before(L!Key(q), L!Key(p))
  BY <1>1, <1>2
<1>5. \A p, q, r \in Listed : L!Before(L!Key(p), L!Key(q)) /\ L!Before(L!Key(q), L!Key(r))
                              => L!Before(L!Key(p), L!Key(r))
  BY <1>1, <1>2
<1> QED  BY <1>2, <1>3, <1>4, <1>5

\* The rows of a page are those that match, each once and in order.
LEMMA FollowingMeant ==
  ASSUME L!PersonListAssumption, name \in [Listed -> Names], active \subseteq Listed
  PROVE  /\ L!Following \in Seq(L!Matching) /\ Len(L!Following) \in Nat
         /\ \A p \in L!Matching : \E i \in 1 .. Len(L!Following) : L!Following[i] = p
         /\ \A i, j \in 1 .. Len(L!Following) :
              i < j => L!Before(L!Key(L!Following[i]), L!Key(L!Following[j]))
<1> DEFINE S == L!Matching
           R == {x \in S \X S : L!Before(L!Key(x[1]), L!Key(x[2]))}
           n == Cardinality(S)
           sorted == L!Following
<1>1. S \in SUBSET Listed /\ IsFiniteSet(Listed)
  BY ListFinite DEF L!Matching, L!PersonListAssumption
<1>2. IsFiniteSet(S)
  BY <1>1, FS_Subset
<1>3. \A x, y \in S : <<x, y>> \in R <=> L!Before(L!Key(x), L!Key(y))
  OBVIOUS
<1> HIDE DEF S, R
<1>4. /\ \A x \in S : <<x, x>> \notin R
      /\ \A x, y \in S : x # y => <<x, y>> \in R \/ <<y, x>> \in R
      /\ \A x, y, z \in S : <<x, y>> \in R /\ <<y, z>> \in R => <<x, z>> \in R
  <2>1. \A x \in S : <<x, x>> \notin R
    BY <1>1, <1>3, KeysOrder
  <2>2. \A x, y \in S : x # y => <<x, y>> \in R \/ <<y, x>> \in R
    BY <1>1, <1>3, KeysOrder
  <2>3. \A x, y, z \in S : <<x, y>> \in R /\ <<y, z>> \in R => <<x, z>> \in R
    BY <1>1, <1>3, KeysOrder
  <2> QED  BY <2>1, <2>2, <2>3
<1>5. n \in Nat /\ \E f \in [1 .. n -> S] : InOrder(f, n, R)
  BY <1>2, <1>4, OrderExists
<1>6. PICK f \in [1 .. n -> S] : InOrder(f, n, R)
  BY <1>5
<1> HIDE DEF n
<1>7. \A i, j \in 1 .. n : i < j => L!Before(L!Key(f[i]), L!Key(f[j]))
  BY <1>3, <1>6 DEF InOrder
<1>8. \A i, j \in 1 .. n : i # j => f[i] # f[j]
  <2> SUFFICES ASSUME NEW i \in 1 .. n, NEW j \in 1 .. n, i # j  PROVE f[i] # f[j]
    OBVIOUS
  <2>1. i < j \/ j < i
    BY <1>5
  <2>2. <<f[i], f[j]>> \in R \/ <<f[j], f[i]>> \in R
    BY <1>6, <2>1 DEF InOrder
  <2> QED  BY <1>4, <2>2
<1>9. f \in L!SetToSeqs(S) /\ DOMAIN f = 1 .. n
  <2>1. L!Cardinality(S) = n
    BY ListFinite DEF n
  <2> QED  BY <1>8, <2>1 DEF L!SetToSeqs
<1>10. \E s \in L!SetToSeqs(S) : \A i, j \in DOMAIN s : i < j => L!Before(L!Key(s[i]), L!Key(s[j]))
  BY <1>7, <1>9
<1>11. /\ sorted \in L!SetToSeqs(S)
       /\ \A i, j \in DOMAIN sorted : i < j => L!Before(L!Key(sorted[i]), L!Key(sorted[j]))
  BY <1>10 DEF L!Following, S
<1> HIDE DEF sorted
<1>12. sorted \in [1 .. n -> S] /\ \A i, j \in 1 .. n : i # j => sorted[i] # sorted[j]
  <2>1. L!Cardinality(S) = n
    BY ListFinite DEF n
  <2> QED  BY <1>11, <2>1 DEF L!SetToSeqs
<1>13. sorted \in Seq(S) /\ Len(sorted) = n /\ DOMAIN sorted = 1 .. n
  BY <1>5, <1>12
<1>14. \A p \in S : \E i \in 1 .. n : sorted[i] = p
  <2>1. sorted \in Injection(1 .. n, S)
    BY <1>12 DEF Injection, IsInjective
  <2>2. IsFiniteSet(1 .. n) /\ Cardinality(1 .. n) = Cardinality(S)
    BY <1>5, FS_Interval DEF n
  <2>3. sorted \in Surjection(1 .. n, S)
    BY <1>2, <2>1, <2>2, FS_Injection
  <2> QED  BY <2>3 DEF Surjection
<1> QED  BY <1>5, <1>11, <1>13, <1>14 DEF sorted, S

\* The places of p in a list.
Places(s, p) == {i \in DOMAIN s : s[i] = p}

LEMMA PlacesAfter ==
  ASSUME NEW S, NEW s \in Seq(S), NEW t \in Seq(S), NEW p
  PROVE  /\ (\A j \in 1 .. Len(t) : t[j] # p) => Places(s \o t, p) = Places(s, p)
         /\ \A k \in 1 .. Len(t) :
              Places(s, p) = {} /\ (\A j \in 1 .. Len(t) : t[j] = p <=> j = k)
              => Places(s \o t, p) = {Len(s) + k}
<1> DEFINE u == s \o t
<1>1. /\ Len(s) \in Nat /\ Len(t) \in Nat /\ u \in Seq(S) /\ Len(u) = Len(s) + Len(t)
      /\ DOMAIN s = 1 .. Len(s) /\ DOMAIN u = 1 .. Len(u)
  OBVIOUS
<1>2. \A i \in 1 .. Len(s) : u[i] = s[i]
  OBVIOUS
<1>3. \A j \in 1 .. Len(t) : u[Len(s) + j] = t[j]
  OBVIOUS
<1> HIDE DEF u
<1>4. \A i \in DOMAIN u : i \in 1 .. Len(s) \/ \E j \in 1 .. Len(t) : i = Len(s) + j
  <2> SUFFICES ASSUME NEW i \in DOMAIN u, i \notin 1 .. Len(s)
               PROVE  \E j \in 1 .. Len(t) : i = Len(s) + j
    OBVIOUS
  <2>1. i - Len(s) \in 1 .. Len(t) /\ i = Len(s) + (i - Len(s))
    BY <1>1
  <2> QED  BY <2>1
<1>5. ASSUME \A j \in 1 .. Len(t) : t[j] # p  PROVE Places(u, p) = Places(s, p)
  <2>1. \A i \in Places(u, p) : i \in Places(s, p)
    BY <1>1, <1>2, <1>3, <1>4, <1>5 DEF Places
  <2>2. \A i \in Places(s, p) : i \in Places(u, p)
    BY <1>1, <1>2 DEF Places
  <2> QED  BY <2>1, <2>2
<1>6. ASSUME NEW k \in 1 .. Len(t), Places(s, p) = {}, \A j \in 1 .. Len(t) : t[j] = p <=> j = k
      PROVE  Places(u, p) = {Len(s) + k}
  <2>1. ASSUME NEW i \in Places(u, p)  PROVE i = Len(s) + k
    <3>1. i \in DOMAIN u /\ u[i] = p
      BY DEF Places
    <3>2. i \notin 1 .. Len(s)
      BY <1>1, <1>2, <1>6, <3>1 DEF Places
    <3>3. PICK j \in 1 .. Len(t) : i = Len(s) + j
      BY <1>4, <3>1, <3>2
    <3> QED  BY <1>3, <1>6, <3>1, <3>3
  <2>2. Len(s) + k \in Places(u, p)
    BY <1>1, <1>3, <1>6 DEF Places
  <2> QED  BY <2>1, <2>2
<1> QED  BY <1>5, <1>6 DEF u

ListTypes ==
  /\ name \in [Listed -> Names]
  /\ active \subseteq Listed
  /\ limit \in PageLengths
  /\ cursor \in (Nat \X Nat) \cup {L!AtEnd}
  /\ shown \in Seq(Listed)

\* The pages read so far have gone past p.
Passed(p) == cursor = L!AtEnd \/ ~ L!Before(cursor, L!Key(p))

ListInv ==
  /\ ListTypes
  /\ \A p \in Listed \ touched :
       IF p \in active /\ Passed(p) THEN \E i : Places(shown, p) = {i} ELSE Places(shown, p) = {}

\* A page is the first rows that match, and the cursor it leaves is the last of them.
LEMMA PageMeant ==
  ASSUME L!PersonListAssumption, ListTypes
  PROVE  /\ L!Page \in Seq(L!Matching)
         /\ Len(L!Page) = IF Len(L!Following) > limit THEN limit ELSE Len(L!Following)
         /\ \A i \in 1 .. Len(L!Page) : L!Page[i] = L!Following[i]
         /\ L!NextCursor = IF Len(L!Following) > limit THEN L!Key(L!Following[limit]) ELSE L!AtEnd
<1> DEFINE f == L!Following
           S == L!Matching
           r == L!Rows
           q == L!Page
           m == IF Len(f) < limit + 1 THEN Len(f) ELSE limit + 1
           h == IF Len(r) < limit THEN Len(r) ELSE limit
<1>1. f \in Seq(S) /\ Len(f) \in Nat /\ limit \in Nat /\ limit > 0
  BY FollowingMeant DEF ListTypes, L!PersonListAssumption
<1>2. r = SubSeq(f, 1, m) /\ q = SubSeq(r, 1, h)
  BY DEF L!Rows, L!Page
<1>3. L!NextCursor = IF Len(r) > limit THEN L!Key(q[Len(q)]) ELSE L!AtEnd
  BY DEF L!NextCursor, L!Last
<1> HIDE DEF f, S, r, q
<1>4. m \in 0 .. Len(f)
  BY <1>1
<1> HIDE DEF m
<1>5. r \in Seq(S) /\ Len(r) = m /\ \A i \in 1 .. m : r[i] = f[i]
  BY <1>1, <1>2, <1>4
<1>6. h \in 0 .. Len(r)
  BY <1>1, <1>4, <1>5
<1> HIDE DEF h
<1>7. q \in Seq(S) /\ Len(q) = h /\ \A i \in 1 .. h : q[i] = r[i]
  BY <1>2, <1>4, <1>5, <1>6
<1>8. h = IF Len(f) > limit THEN limit ELSE Len(f)
  BY <1>1, <1>5 DEF h, m
<1>9. Len(r) > limit <=> Len(f) > limit
  BY <1>1, <1>5 DEF m
<1>10. \A i \in 1 .. h : q[i] = f[i]
  BY <1>4, <1>5, <1>6, <1>7
<1>11. Len(f) > limit => q[Len(q)] = f[limit]
  BY <1>1, <1>7, <1>8, <1>10
<1>12. L!NextCursor = IF Len(f) > limit THEN L!Key(f[limit]) ELSE L!AtEnd
  BY <1>3, <1>9, <1>11
<1> QED  BY <1>7, <1>8, <1>10, <1>12 DEF f, S, q

\* A page, or the last one, puts each untouched person where it belongs.
LEMMA ListPage ==
  ASSUME L!PersonListAssumption, ListInv, L!List
  PROVE  ListInv'
<1> DEFINE f == L!Following
           S == L!Matching
           q == L!Page
<1>1. /\ f \in Seq(S) /\ Len(f) \in Nat /\ limit \in Nat /\ limit > 0
      /\ \A p \in S : \E i \in 1 .. Len(f) : f[i] = p
      /\ \A i, j \in 1 .. Len(f) : i < j => L!Before(L!Key(f[i]), L!Key(f[j]))
  BY FollowingMeant DEF ListInv, ListTypes, L!PersonListAssumption
<1>2. /\ q \in Seq(S) /\ Len(q) = IF Len(f) > limit THEN limit ELSE Len(f)
      /\ \A i \in 1 .. Len(q) : q[i] = f[i]
      /\ L!NextCursor = IF Len(f) > limit THEN L!Key(f[limit]) ELSE L!AtEnd
  BY PageMeant DEF ListInv
<1>3. S \subseteq active /\ \A p \in active : p \in S <=> L!Before(cursor, L!Key(p))
  BY DEF L!Matching
<1>4. /\ cursor # L!AtEnd /\ shown' = shown \o q /\ cursor' = L!NextCursor
      /\ UNCHANGED <<name, active, limit, touched>>
  BY DEF L!List
<1>5. name \in [Listed -> Names] /\ active \subseteq Listed /\ cursor \in Nat \X Nat
  BY <1>4 DEF ListInv, ListTypes
<1> HIDE DEF f, S, q
<1>6. \A p \in Listed : L!Key(p) \in Nat \X Nat /\ L!Key(p) # L!AtEnd
  BY <1>5 DEF L!Key, L!AtEnd, L!PersonListAssumption
<1>7. /\ Len(q) \in Nat /\ Len(q) <= Len(f)
      /\ Len(f) > limit => limit \in 1 .. Len(f)
      /\ Len(f) <= limit => Len(q) = Len(f)
  <2>1. CASE Len(f) > limit
    <3>1. Len(q) = limit
      BY <1>2, <2>1
    <3> QED  BY <1>1, <2>1, <3>1
  <2>2. CASE Len(f) <= limit
    <3>1. Len(q) = Len(f)
      BY <1>1, <1>2, <2>2
    <3> QED  BY <1>1, <2>2, <3>1
  <2> QED  BY <1>1, <2>1, <2>2
<1>8. \A i \in 1 .. Len(f) : f[i] \in Listed /\ f[i] \in S
  BY <1>1, <1>3, <1>5
<1>9. \A i, j \in 1 .. Len(f) : f[i] = f[j] => i = j
  <2> SUFFICES ASSUME NEW i \in 1 .. Len(f), NEW j \in 1 .. Len(f), f[i] = f[j], i < j
               PROVE  FALSE
    BY <1>1
  <2> QED  BY <1>1, <1>8, KeysOrder, <1>5
<1>10. ListTypes'
  <2>1. shown \o q \in Seq(Listed)
    <3>1. q \in Seq(Listed)
      BY <1>2, <1>3, <1>5
    <3> QED  BY <3>1 DEF ListInv, ListTypes
  <2>2. L!NextCursor \in (Nat \X Nat) \cup {L!AtEnd}
    <3>1. CASE Len(f) > limit
      <4>1. f[limit] \in Listed
        BY <1>7, <1>8, <3>1
      <4>2. L!Key(f[limit]) \in Nat \X Nat
        BY <1>6, <4>1
      <4> QED  BY <1>2, <3>1, <4>2
    <3>2. CASE ~ (Len(f) > limit)
      BY <1>2, <3>2
    <3> QED  BY <3>1, <3>2
  <2> QED  BY <1>4, <2>1, <2>2 DEF ListInv, ListTypes, L!AtEnd
<1>11. \A j \in 1 .. Len(q) : j \in 1 .. Len(f) /\ q[j] = f[j] /\ f[j] \in S
  <2>1. \A j \in 1 .. Len(q) : j \in 1 .. Len(f)
    BY <1>1, <1>7
  <2> QED  BY <1>2, <1>8, <2>1
<1>12. /\ \A p : p \notin S => Places(shown', p) = Places(shown, p)
       /\ \A p : \A k \in 1 .. Len(q) : Places(shown, p) = {} /\ f[k] = p
            => Places(shown', p) = {Len(shown) + k}
       /\ \A p : Places(shown, p) = {} /\ (\A k \in 1 .. Len(q) : f[k] # p)
            => Places(shown', p) = {}
  <2>1. shown \in Seq(Listed) /\ q \in Seq(Listed)
    BY <1>2, <1>3, <1>5 DEF ListInv, ListTypes
  <2>2. ASSUME NEW p, p \notin S  PROVE Places(shown', p) = Places(shown, p)
    <3>1. \A j \in 1 .. Len(q) : q[j] # p
      BY <1>11, <2>2
    <3> QED  BY <1>4, <2>1, <3>1, PlacesAfter
  <2>3. ASSUME NEW p, NEW k \in 1 .. Len(q), Places(shown, p) = {}, f[k] = p
        PROVE  Places(shown', p) = {Len(shown) + k}
    <3>1. \A j \in 1 .. Len(q) : q[j] = p <=> j = k
      BY <1>9, <1>11, <2>3
    <3>2. Places(shown \o q, p) = {Len(shown) + k}
      BY <2>1, <2>3, <3>1, PlacesAfter
    <3> QED  BY <1>4, <3>2
  <2>4. ASSUME NEW p, Places(shown, p) = {}, \A k \in 1 .. Len(q) : f[k] # p
        PROVE  Places(shown', p) = {}
    <3>1. \A j \in 1 .. Len(q) : q[j] # p
      BY <1>11, <2>4
    <3>2. Places(shown', p) = Places(shown, p)
      BY <1>4, <2>1, <3>1, PlacesAfter
    <3> QED  BY <2>4, <3>2
  <2> QED  BY <2>2, <2>3, <2>4
<1>13. ASSUME NEW p \in Listed \ touched
       PROVE  IF p \in active /\ Passed(p)' THEN \E i : Places(shown', p) = {i}
                                            ELSE Places(shown', p) = {}
  <2>1. IF p \in active /\ Passed(p) THEN \E i : Places(shown, p) = {i} ELSE Places(shown, p) = {}
    BY DEF ListInv
  <2>2. Passed(p)' <=> (Len(f) > limit => ~ L!Before(L!Key(f[limit]), L!Key(p)))
    <3>1. Passed(p)' <=> cursor' = L!AtEnd \/ ~ L!Before(cursor', L!Key(p))
      BY <1>4 DEF Passed, L!Before, L!Key, L!AtEnd
    <3>2. ASSUME Len(f) > limit  PROVE L!Key(f[limit]) # L!AtEnd
      <4>1. f[limit] \in Listed
        BY <1>7, <1>8, <3>2
      <4> QED  BY <1>6, <4>1
    <3> QED  BY <1>2, <1>4, <3>1, <3>2
  <2>3. CASE p \notin active
    BY <1>3, <1>12, <2>1, <2>3
  <2>4. CASE p \in active /\ Passed(p)
    <3>1. p \notin S /\ ~ L!Before(cursor, L!Key(p))
      BY <1>3, <1>4, <2>4 DEF Passed
    <3>2. ASSUME Len(f) > limit  PROVE ~ L!Before(L!Key(f[limit]), L!Key(p))
      <4>1. f[limit] \in Listed /\ f[limit] \in S
        BY <1>1, <1>8, <3>2
      <4>2. L!Before(cursor, L!Key(f[limit]))
        BY <1>3, <4>1
      <4>3. L!Key(f[limit]) \in Nat \X Nat /\ L!Key(p) \in Nat \X Nat
        BY <1>6, <4>1
      <4> QED  BY <1>5, <3>1, <4>2, <4>3 DEF L!Before
    <3> QED  BY <2>2, <1>12, <2>1, <2>4, <3>1, <3>2
  <2>5. CASE p \in active /\ ~ Passed(p)
    <3>1. p \in S /\ Places(shown, p) = {}
      BY <1>3, <2>1, <2>5 DEF Passed
    <3>2. PICK k \in 1 .. Len(f) : f[k] = p
      BY <1>1, <3>1
    <3>3. CASE k \in 1 .. Len(q)
      <4>1. ASSUME Len(f) > limit  PROVE ~ L!Before(L!Key(f[limit]), L!Key(p))
        <5>1. limit \in 1 .. Len(f) /\ k <= limit
          BY <1>2, <1>7, <3>3, <4>1
        <5>2. k = limit \/ L!Before(L!Key(p), L!Key(f[limit]))
          BY <1>1, <3>2, <5>1
        <5>3. f[limit] \in Listed
          BY <1>8, <5>1
        <5> QED  BY <1>5, <3>2, <5>2, <5>3, KeysOrder
      <4>2. Passed(p)'
        BY <2>2, <4>1
      <4>3. Places(shown', p) = {Len(shown) + k}
        BY <1>12, <3>1, <3>2, <3>3
      <4> QED  BY <2>5, <4>2, <4>3
    <3>4. CASE k \notin 1 .. Len(q)
      <4>1. Len(f) > limit /\ limit \in 1 .. Len(f)
        BY <1>1, <1>7, <3>4
      <4>2. limit < k
        BY <1>1, <1>2, <3>4, <4>1
      <4>3. L!Before(L!Key(f[limit]), L!Key(p))
        BY <1>1, <3>2, <4>1, <4>2
      <4>4. \A j \in 1 .. Len(q) : f[j] # p
        BY <1>9, <1>11, <3>2, <3>4
      <4> QED  BY <2>2, <1>12, <3>1, <4>1, <4>3, <4>4
    <3> QED  BY <3>3, <3>4
  <2> QED  BY <2>3, <2>4, <2>5
<1> QED  BY <1>4, <1>10, <1>13 DEF ListInv

\* A write changes one person, which is touched from then on.
LEMMA ListWrite ==
  ASSUME L!PersonListAssumption, ListInv, NEW p \in Listed, L!Write(p),
         name' \in [Listed -> Names], active' \subseteq Listed,
         \A q \in Listed \ {p} : name'[q] = name[q] /\ (q \in active' <=> q \in active)
  PROVE  ListInv'
<1>1. UNCHANGED <<limit, cursor, shown>> /\ touched' = touched \cup {p}
  BY DEF L!Write
<1>2. ListTypes'
  BY <1>1 DEF ListInv, ListTypes, L!AtEnd
<1>3. ASSUME NEW q \in Listed \ touched'
      PROVE  IF q \in active' /\ Passed(q)' THEN \E i : Places(shown', q) = {i}
                                            ELSE Places(shown', q) = {}
  <2>1. q \in Listed \ touched /\ q # p
    BY <1>1, <1>3
  <2>2. L!Key(q)' = L!Key(q) /\ (q \in active' <=> q \in active)
    BY <2>1 DEF L!Key
  <2>3. Passed(q)' <=> Passed(q)
    BY <1>1, <2>2 DEF Passed, L!Before, L!AtEnd
  <2>4. IF q \in active /\ Passed(q) THEN \E i : Places(shown, q) = {i} ELSE Places(shown, q) = {}
    BY <2>1 DEF ListInv
  <2> QED  BY <1>1, <2>2, <2>3, <2>4
<1> QED  BY <1>2, <1>3 DEF ListInv

LEMMA ListInductive ==
  ASSUME L!PersonListAssumption
  PROVE  /\ L!Init => ListInv
         /\ ListInv /\ [L!Next]_L!vars => ListInv'
         /\ ListInv => L!UntouchedShownOnce
<1>1. ASSUME L!Init  PROVE ListInv
  <2>1. ListTypes /\ cursor = <<0, 0>> /\ shown = <<>>
    BY <1>1 DEF L!Init, ListTypes, L!AtStart
  <2>2. \A p \in Listed : name[p] \in Nat /\ name[p] > 0
    <3>1. Names \subseteq Nat \ {0}
      BY DEF L!PersonListAssumption
    <3>2. \A p \in Listed : name[p] \in Nat \ {0}
      BY <2>1, <3>1 DEF ListTypes
    <3> QED  BY <3>2
  <2>3. \A p \in Listed : ~ Passed(p)
    BY <2>1, <2>2 DEF Passed, L!Before, L!Key, L!AtEnd
  <2>4. \A p \in Listed : Places(shown, p) = {}
    BY <2>1 DEF Places
  <2> QED  BY <2>1, <2>3, <2>4 DEF ListInv
<1>2. ASSUME ListInv, [L!Next]_L!vars  PROVE ListInv'
  <2>1. CASE L!List
    BY <1>2, <2>1, ListPage
  <2>2. ASSUME NEW p \in Listed, L!Rename(p)  PROVE ListInv'
    <3>1. L!Write(p) /\ active' = active
      BY <2>2 DEF L!Rename
    <3>2. /\ name' \in [Listed -> Names]
          /\ \A q \in Listed \ {p} : name'[q] = name[q]
      BY <1>2, <2>2 DEF L!Rename, ListInv, ListTypes
    <3> QED  BY <1>2, <3>1, <3>2, ListWrite DEF ListInv, ListTypes
  <2>3. ASSUME NEW p \in Listed, L!Appear(p) \/ L!Vanish(p)  PROVE ListInv'
    <3>1. L!Write(p) /\ name' = name /\ active' \subseteq Listed
      BY <1>2, <2>3 DEF L!Appear, L!Vanish, ListInv, ListTypes
    <3>2. \A q \in Listed \ {p} : q \in active' <=> q \in active
      BY <2>3 DEF L!Appear, L!Vanish
    <3> QED  BY <1>2, <3>1, <3>2, ListWrite DEF ListInv, ListTypes
  <2>4. CASE UNCHANGED L!vars
    BY <1>2, <2>4 DEF L!vars, ListInv, ListTypes, Passed, L!Before, L!Key, L!AtEnd
  <2> QED  BY <1>2, <2>1, <2>2, <2>3, <2>4 DEF L!Next
<1>3. ASSUME ListInv  PROVE L!UntouchedShownOnce
  <2> SUFFICES ASSUME cursor = L!AtEnd, NEW p \in Listed \ touched
               PROVE  L!Times(p) = IF p \in active THEN 1 ELSE 0
    BY DEF L!UntouchedShownOnce
  <2>1. L!Times(p) = Cardinality(Places(shown, p))
    BY ListFinite DEF L!Times, Places
  <2>2. CASE p \in active
    <3>1. PICK i : Places(shown, p) = {i}
      BY <1>3, <2>2 DEF ListInv, Passed
    <3>2. Cardinality({i}) = 1
      BY FS_Singleton
    <3> QED  BY <2>1, <2>2, <3>1, <3>2
  <2>3. CASE p \notin active
    <3>1. Places(shown, p) = {}
      BY <1>3, <2>3 DEF ListInv
    <3>2. Cardinality({}) = 0
      BY FS_EmptySet
    <3> QED  BY <2>1, <2>3, <3>1, <3>2
  <2> QED  BY <2>2, <2>3
<1> QED  BY <1>1, <1>2, <1>3

\* Paging through a list by the key of the last row shows every person nobody writes meanwhile
\* exactly once, and no deleted one, for any page length, number of persons and writes to the
\* others (ListAccessible of the persons repository).
THEOREM UntouchedShownOnceHolds ==
  ASSUME L!PersonListAssumption
  PROVE  L!Spec => []UntouchedShownOnce
<1>1. (L!Init => ListInv) /\ (ListInv /\ [L!Next]_L!vars => ListInv')
      /\ (ListInv => L!UntouchedShownOnce)
  BY ListInductive
<1> QED  BY <1>1, PTL DEF L!Spec, UntouchedShownOnce

-----------------------------------------------------------------------------
(* The generations of a drawing *)

LEMMA DrawingFinite ==
  ASSUME NEW S
  PROVE  (V!IsFiniteSet(S) <=> IsFiniteSet(S)) /\ V!Cardinality(S) = Cardinality(S)
<1>1. V!IsFiniteSet(S) <=> IsFiniteSet(S)
  BY DEF V!IsFiniteSet, IsFiniteSet
<1>2. V!Cardinality(S) = Cardinality(S)
  BY DEF V!Cardinality, Cardinality
<1> QED  BY <1>1, <1>2

Ranking == [Exported -> Nat]

\* What a drawing of the relations E and the unions U has to respect.
Fits(E, U, r) ==
  /\ \A e \in E : r[e[1]] < r[e[2]]
  /\ \A Q \in U : \A p, q \in Q : r[p] = r[q]

\* The flattest drawing.
Least(E, U, r) ==
  /\ r \in Ranking /\ Fits(E, U, r)
  /\ \A s \in Ranking : Fits(E, U, s) => \A p \in Exported : r[p] <= s[p]

\* Where there is a drawing there is a flattest one: everybody at the least of their ranks.
LEMMA LeastExists ==
  ASSUME NEW E, E \subseteq Exported \X Exported, NEW U, U \subseteq SUBSET Exported,
         NEW s \in Ranking, Fits(E, U, s)
  PROVE  \E r : Least(E, U, r)
<1> DEFINE Good == {t \in Ranking : Fits(E, U, t)}
           T(p) == {t[p] : t \in Good}
           r == [p \in Exported |-> CHOOSE m \in T(p) : \A n \in T(p) : m <= n]
<1>1. ASSUME NEW p \in Exported
      PROVE  /\ r[p] \in Nat
             /\ \E t \in Good : r[p] = t[p]
             /\ \A t \in Good : r[p] <= t[p]
  <2> DEFINE Tp == T(p)
  <2>1. Tp \subseteq Nat /\ Tp # {}
    BY DEF Ranking
  <2>2. r[p] = CHOOSE m \in Tp : \A n \in Tp : m <= n
    OBVIOUS
  <2>3. \A m : m \in Tp <=> \E t \in Good : m = t[p]
    OBVIOUS
  <2> HIDE DEF Tp, r, Good
  <2>4. \E m \in Tp : \A n \in Tp : m <= n
    BY <2>1, LeastNatural
  <2>5. r[p] \in Tp /\ \A n \in Tp : r[p] <= n
    BY <2>2, <2>4
  <2> QED  BY <2>1, <2>3, <2>5
<1>3. r \in Ranking
  <2>1. r = [p \in Exported |-> r[p]]
    OBVIOUS
  <2> HIDE DEF r
  <2> QED  BY <1>1, <2>1 DEF Ranking
<1>4. \A p \in Exported : \E t \in Good : r[p] = t[p]
  BY <1>1
<1>5. \A p \in Exported : \A t \in Good : r[p] <= t[p]
  BY <1>1
<1>6. \A t \in Good : t \in [Exported -> Nat] /\ Fits(E, U, t)
  BY DEF Ranking
<1> HIDE DEF Good, T, r
<1>7. ASSUME NEW e \in E  PROVE r[e[1]] < r[e[2]]
  <2>1. e[1] \in Exported /\ e[2] \in Exported
    OBVIOUS
  <2>2. PICK t \in Good : r[e[2]] = t[e[2]]
    BY <1>4, <2>1
  <2>3. t[e[1]] < t[e[2]] /\ r[e[1]] <= t[e[1]]
    BY <1>5, <1>6, <2>1 DEF Fits
  <2>4. t[e[1]] \in Nat /\ t[e[2]] \in Nat /\ r[e[1]] \in Nat
    BY <1>3, <1>6, <2>1 DEF Ranking
  <2> QED  BY <2>2, <2>3, <2>4
<1>8. ASSUME NEW Q \in U, NEW p \in Q, NEW q \in Q  PROVE r[p] <= r[q]
  <2>1. p \in Exported /\ q \in Exported
    OBVIOUS
  <2>2. PICK t \in Good : r[q] = t[q]
    BY <1>4, <2>1
  <2>3. t[p] = t[q] /\ r[p] <= t[p]
    BY <1>5, <1>6, <2>1 DEF Fits
  <2> QED  BY <2>2, <2>3
<1>9. ASSUME NEW Q \in U, NEW p \in Q, NEW q \in Q  PROVE r[p] = r[q]
  <2>1. r[p] <= r[q] /\ r[q] <= r[p]
    BY <1>8
  <2>2. r[p] \in Nat /\ r[q] \in Nat
    BY <1>3 DEF Ranking
  <2> QED  BY <2>1, <2>2
<1>10. \A t \in Ranking : Fits(E, U, t) => \A p \in Exported : r[p] <= t[p]
  BY <1>5 DEF Good
<1>11. Least(E, U, r)
  BY <1>3, <1>7, <1>9, <1>10 DEF Least, Fits
<1> QED  BY <1>11

\* In the flattest drawing no group that goes with its partners can move up by one.
LEMMA NobodyMovesUp ==
  ASSUME NEW E, E \subseteq Exported \X Exported, NEW U, U \subseteq SUBSET Exported,
         NEW r, Least(E, U, r),
         NEW W, W \subseteq Exported, W # {}, \A p \in W : r[p] > 0,
         \A Q \in U : \A p, q \in Q : p \in W => q \in W,
         \A e \in E : e[2] \in W /\ e[1] \notin W => r[e[1]] + 1 < r[e[2]]
  PROVE  FALSE
<1> DEFINE s == [p \in Exported |-> IF p \in W THEN r[p] - 1 ELSE r[p]]
<1>1. r \in [Exported -> Nat] /\ Fits(E, U, r)
  BY DEF Least, Ranking
<1>2. s \in Ranking
  BY <1>1 DEF Ranking
<1>3. /\ \A p \in W : s[p] = r[p] - 1
      /\ \A p \in Exported \ W : s[p] = r[p]
  OBVIOUS
<1> HIDE DEF s
<1>4. ASSUME NEW e \in E  PROVE s[e[1]] < s[e[2]]
  <2>1. e[1] \in Exported /\ e[2] \in Exported /\ r[e[1]] < r[e[2]]
    BY <1>1 DEF Fits
  <2>2. r[e[1]] \in Nat /\ r[e[2]] \in Nat
    BY <1>1, <2>1
  <2>3. CASE e[2] \in W
    BY <1>3, <2>1, <2>2, <2>3
  <2>4. CASE e[2] \notin W
    BY <1>3, <2>1, <2>2, <2>4
  <2> QED  BY <2>3, <2>4
<1>5. ASSUME NEW Q \in U, NEW p \in Q, NEW q \in Q  PROVE s[p] = s[q]
  <2>1. p \in Exported /\ q \in Exported /\ r[p] = r[q] /\ (p \in W <=> q \in W)
    BY <1>1 DEF Fits
  <2> QED  BY <1>3, <2>1
<1>6. Fits(E, U, s)
  BY <1>4, <1>5 DEF Fits
<1>7. PICK p \in W : TRUE
  OBVIOUS
<1>8. r[p] <= s[p] /\ s[p] = r[p] - 1 /\ r[p] \in Nat
  BY <1>1, <1>2, <1>3, <1>6, <1>7 DEF Least
<1> QED  BY <1>8

\* The flattest drawing has no empty row, so it has no more rows than persons.
LEMMA LeastIsFlat ==
  ASSUME IsFiniteSet(Exported),
         NEW E, E \subseteq Exported \X Exported, NEW U, U \subseteq SUBSET Exported,
         NEW r, Least(E, U, r)
  PROVE  Cardinality(Exported) \in Nat /\ r \in [Exported -> 0 .. Cardinality(Exported) - 1]
<1>1. r \in [Exported -> Nat] /\ Fits(E, U, r)
  BY DEF Least, Ranking
<1>2. Cardinality(Exported) \in Nat
  BY FS_CardinalityType
<1>3. ASSUME NEW p \in Exported, NEW j \in 0 .. r[p]  PROVE \E q \in Exported : r[q] = j
  <2> SUFFICES ASSUME \A q \in Exported : r[q] # j  PROVE FALSE
    OBVIOUS
  <2> DEFINE W == {q \in Exported : r[q] > j}
  <2>1. r[p] \in Nat /\ j \in Nat /\ p \in W
    BY <1>1
  <2>2. \A q \in W : r[q] > 0
    BY <1>1, <2>1
  <2>3. \A Q \in U : \A x, y \in Q : x \in W => y \in W
    BY <1>1 DEF Fits
  <2>4. ASSUME NEW e \in E, e[2] \in W, e[1] \notin W  PROVE r[e[1]] + 1 < r[e[2]]
    <3>1. e[1] \in Exported /\ r[e[1]] \in Nat /\ r[e[2]] \in Nat /\ r[e[2]] > j /\ r[e[1]] # j
      BY <1>1, <2>4
    <3>2. ~ (r[e[1]] > j)
      BY <2>4, <3>1
    <3> QED  BY <2>1, <3>1, <3>2
  <2>5. W \subseteq Exported /\ W # {}
    BY <2>1
  <2> HIDE DEF W
  <2> QED  BY <2>2, <2>3, <2>4, <2>5, NobodyMovesUp
<1>4. ASSUME NEW p \in Exported  PROVE r[p] \in 0 .. Cardinality(Exported) - 1
  <2> DEFINE k == r[p]
             f == [j \in 0 .. k |-> CHOOSE q \in Exported : r[q] = j]
  <2>1. k \in Nat
    BY <1>1
  <2>2. \A j \in 0 .. k : f[j] \in Exported /\ r[f[j]] = j
    BY <1>3
  <2>3. f \in [0 .. k -> Exported]
    BY <2>2
  <2> HIDE DEF f, k
  <2>4. \A i, j \in 0 .. k : f[i] = f[j] => i = j
    BY <2>2
  <2>5. f \in Injection(0 .. k, Exported)
    BY <2>3, <2>4 DEF Injection, IsInjective
  <2>6. IsFiniteSet(0 .. k) /\ Cardinality(0 .. k) = k + 1
    BY <2>1, FS_Interval
  <2>7. Cardinality(0 .. k) <= Cardinality(Exported)
    BY <2>5, FS_Injection
  <2> QED  BY <1>2, <2>1, <2>6, <2>7 DEF k
<1> QED  BY <1>1, <1>2, <1>4

\* Ranks k that are not yet the flattest drawing r have somebody who is where r has them, and
\* beside or directly below them somebody who is not.
LEMMA SomebodyIsNext ==
  ASSUME NEW E, E \subseteq Exported \X Exported, NEW U, U \subseteq SUBSET Exported,
         NEW r, Least(E, U, r), NEW k \in Ranking, \A p \in Exported : k[p] <= r[p], k # r
  PROVE  \/ \E Q \in U : \E a, b \in Q : k[a] = r[a] /\ k[b] # r[b]
         \/ \E e \in E : k[e[1]] = r[e[1]] /\ k[e[2]] # r[e[2]] /\ r[e[2]] = r[e[1]] + 1
<1> SUFFICES ASSUME \A Q \in U : \A a, b \in Q : k[a] = r[a] => k[b] = r[b],
                    \A e \in E : k[e[1]] = r[e[1]] /\ k[e[2]] # r[e[2]] => r[e[2]] # r[e[1]] + 1
             PROVE  FALSE
  OBVIOUS
<1> DEFINE Off == {p \in Exported : k[p] # r[p]}
           T == {r[p] : p \in Off}
<1>1. r \in [Exported -> Nat] /\ k \in [Exported -> Nat] /\ Fits(E, U, r)
  BY DEF Least, Ranking
<1>2. T \subseteq Nat /\ T # {}
  BY <1>1
<1>3. PICK m \in T : \A n \in T : m <= n
  <2> HIDE DEF T
  <2> QED  BY <1>2, LeastNatural
<1> DEFINE W == {p \in Off : r[p] = m}
<1>4. W \subseteq Exported /\ W # {} /\ \A p \in Off : m <= r[p]
  BY <1>3
<1>5. \A p \in W : r[p] > 0
  BY <1>1
<1>6. \A Q \in U : \A p, q \in Q : p \in W => q \in W
  BY <1>1 DEF Fits
<1>7. ASSUME NEW e \in E, e[2] \in W, e[1] \notin W  PROVE r[e[1]] + 1 < r[e[2]]
  <2>1. /\ e[1] \in Exported /\ r[e[1]] \in Nat /\ r[e[2]] \in Nat /\ r[e[2]] = m
        /\ r[e[1]] < r[e[2]] /\ k[e[2]] # r[e[2]]
    BY <1>1, <1>7 DEF Fits
  <2>2. e[1] \notin Off
    BY <1>4, <2>1
  <2>3. r[e[2]] # r[e[1]] + 1
    BY <2>1, <2>2
  <2> QED  BY <2>1, <2>3
<1> HIDE DEF W
<1> QED  BY <1>4, <1>5, <1>6, <1>7, NobodyMovesUp

\* The persons who are where r has them.
Sure(k, r) == {p \in Exported : k[p] = r[p]}

LEMMA SureGrows ==
  ASSUME IsFiniteSet(Exported), NEW r \in Ranking, NEW k \in Ranking, NEW l \in Ranking,
         \A p \in Exported : k[p] <= l[p] /\ l[p] <= r[p]
  PROVE  /\ Cardinality(Sure(k, r)) \in Nat /\ Cardinality(Sure(l, r)) \in Nat
         /\ Cardinality(Sure(k, r)) <= Cardinality(Sure(l, r))
         /\ Cardinality(Sure(l, r)) <= Cardinality(Exported)
         /\ \A p \in Exported : k[p] # r[p] /\ l[p] = r[p]
              => Cardinality(Sure(k, r)) + 1 <= Cardinality(Sure(l, r))
<1> DEFINE X == Sure(k, r)
           Y == Sure(l, r)
<1>1. X \subseteq Y /\ Y \subseteq Exported
  BY DEF Sure, Ranking
<1>2. \A p \in Exported : k[p] # r[p] /\ l[p] = r[p] => p \in Y /\ p \notin X
  BY DEF Sure
<1> HIDE DEF X, Y
<1>3. IsFiniteSet(Y) /\ Cardinality(Y) \in Nat /\ Cardinality(Y) <= Cardinality(Exported)
  BY <1>1, FS_Subset, FS_CardinalityType
<1>4. /\ Cardinality(X) \in Nat /\ Cardinality(X) <= Cardinality(Y)
      /\ X # Y => Cardinality(X) # Cardinality(Y)
  BY <1>1, <1>3, FS_Subset, FS_CardinalityType
<1>5. ASSUME NEW p \in Exported, k[p] # r[p], l[p] = r[p]
      PROVE  Cardinality(X) + 1 <= Cardinality(Y)
  <2>1. X # Y
    BY <1>2, <1>5
  <2> QED  BY <1>3, <1>4, <2>1
<1> QED  BY <1>3, <1>4, <1>5 DEF X, Y

\* A person whose children have been ranked.
Treated(p) == above[p] = 0 /\ p \notin rankable

\* The relations that keep a person from being ranked.
Unranked(c) == {e \in drawn : e[2] = c /\ ~ Treated(e[1])}

\* Indegrees count the relations from persons who were not treated.
Counted ==
  /\ rankable \subseteq Exported
  /\ above \in [Exported -> Nat]
  /\ \A c \in Exported : above[c] = Cardinality(Unranked(c))
  /\ \A p \in rankable : above[p] = 0

Level(Q) == \A p, q \in Q : ranks[p] = ranks[q]

\* As long as an iteration has not changed anything, what it has visited was in place.
InPlace ==
  changed = FALSE =>
    /\ phase = "unions" => \A Q \in couples \ unseen : Level(Q)
    /\ phase = "children" =>
         /\ \A Q \in couples : Level(Q)
         /\ \A e \in drawn : e[1] \notin unseen => ranks[e[1]] < ranks[e[2]]

\* The parent is where the drawing r has both, the child is not.
Behind(k, r, e) == k[e[1]] = r[e[1]] /\ k[e[2]] # r[e[2]] /\ r[e[2]] = r[e[1]] + 1

\* In what is left of the iteration somebody takes the place that the drawing r has for them.
Due(pass, left, E, k, r) ==
  \/ pass = "unions" /\ \E Q \in left : \E a, b \in Q : k[a] = r[a] /\ k[b] # r[b]
  \/ pass = "unions" /\ \E e \in E : Behind(k, r, e)
  \/ pass = "children" /\ \E e \in E : e[1] \in left /\ Behind(k, r, e)

\* Every iteration finds a place for somebody, unless nobody is left.
Progress(count, moved, pass, left, E, k, r) ==
  \/ moved = FALSE /\ k = r
  \/ /\ Cardinality(Sure(k, r)) >= count + 1
     /\ Cardinality(Sure(k, r)) >= count + 2 \/ Due(pass, left, E, k, r)

DrawingTypes ==
  /\ drawn \subseteq Exported \X Exported /\ \A e \in drawn : e[1] # e[2]
  /\ couples \subseteq SUBSET Exported /\ {} \notin couples
  /\ ranks \in Ranking
  /\ iteration \in Nat /\ changed \in BOOLEAN
  /\ phase \in {"rank", "unions", "children", "ok", "refused"}

DrawingInv ==
  /\ DrawingTypes
  /\ phase = "rank" => changed = FALSE /\ iteration = 0 /\ Counted
  /\ phase = "unions" => unseen \subseteq couples
  /\ \A r \in Ranking : Fits(drawn, couples, r) => \A p \in Exported : ranks[p] <= r[p]
  /\ phase \in {"unions", "children"} =>
       \A r : Least(drawn, couples, r)
              => Progress(iteration, changed, phase, unseen, drawn, ranks, r)
  /\ InPlace
  /\ phase = "refused" => \A r \in Ranking : ~ Fits(drawn, couples, r)
  /\ phase = "ok" => Fits(drawn, couples, ranks)

LEMMA DrawingInit ==
  ASSUME V!LayoutAssumption, V!Init  PROVE DrawingInv
<1>1. /\ drawn \subseteq Exported \X Exported /\ \A e \in drawn : e[1] # e[2]
      /\ couples \subseteq SUBSET Exported
      /\ \A Q \in couples : V!Cardinality(Q) >= 2
      /\ ranks = [p \in Exported |-> 0] /\ phase = "rank" /\ changed = FALSE /\ iteration = 0
      /\ above = [p \in Exported |-> V!Cardinality({e \in drawn : e[2] = p})]
      /\ rankable = {p \in Exported : above[p] = 0}
  BY DEF V!Init
<1>2. {} \notin couples
  <2>1. V!Cardinality({}) = 0
    BY DrawingFinite, FS_EmptySet
  <2> QED  BY <1>1, <2>1
<1>3. IsFiniteSet(drawn)
  <2>1. IsFiniteSet(Exported)
    BY DrawingFinite DEF V!LayoutAssumption
  <2>2. IsFiniteSet(Exported \X Exported)
    BY <2>1, FS_Product
  <2> QED  BY <1>1, <2>2, FS_Subset
<1>4. Counted
  <2>1. \A c \in Exported : Unranked(c) = {e \in drawn : e[2] = c}
    BY <1>1 DEF Unranked, Treated
  <2>2. ASSUME NEW c \in Exported
        PROVE  above[c] = Cardinality(Unranked(c)) /\ above[c] \in Nat
    <3> DEFINE X == {e \in drawn : e[2] = c}
    <3>1. X \subseteq drawn /\ above[c] = V!Cardinality(X)
      BY <1>1
    <3>2. X = Unranked(c)
      BY <2>1
    <3> HIDE DEF X
    <3>3. Cardinality(X) \in Nat /\ V!Cardinality(X) = Cardinality(X)
      BY <1>3, <3>1, FS_Subset, FS_CardinalityType, DrawingFinite
    <3> QED  BY <3>1, <3>2, <3>3
  <2>3. above \in [Exported -> Nat]
    <3>1. DOMAIN above = Exported /\ above = [p \in Exported |-> above[p]]
      BY <1>1
    <3> QED  BY <2>2, <3>1
  <2> QED  BY <1>1, <2>2, <2>3 DEF Counted
<1>5. ranks \in Ranking /\ \A r \in Ranking : \A p \in Exported : ranks[p] <= r[p]
  BY <1>1 DEF Ranking
<1> QED  BY <1>1, <1>2, <1>4, <1>5 DEF DrawingInv, DrawingTypes, InPlace

\* Ranking the children of a person keeps the count.
LEMMA RankStep ==
  ASSUME V!LayoutAssumption, DrawingInv, NEW p \in Exported, V!Rank(p)  PROVE DrawingInv'
<1> DEFINE Kids == V!ChildrenOf(p)
<1>1. /\ phase = "rank" /\ p \in rankable
      /\ ranks' = [c \in Exported |->
           IF c \in Kids /\ ranks[c] < ranks[p] + 1 THEN ranks[p] + 1 ELSE ranks[c]]
      /\ above' = [c \in Exported |-> above[c] - (IF c \in Kids THEN 1 ELSE 0)]
      /\ rankable' = (rankable \ {p}) \cup {c \in Kids : above'[c] = 0}
      /\ UNCHANGED <<drawn, couples, phase, unseen, changed, iteration>>
  BY DEF V!Rank
<1>2. /\ DrawingTypes /\ Counted /\ changed = FALSE /\ iteration = 0
      /\ \A r \in Ranking : Fits(drawn, couples, r) => \A q \in Exported : ranks[q] <= r[q]
  BY <1>1 DEF DrawingInv
<1>3. Kids \subseteq Exported /\ \A c \in Exported : c \in Kids <=> <<p, c>> \in drawn
  BY DEF V!ChildrenOf
<1> HIDE DEF Kids
<1>4. p \notin Kids
  BY <1>2, <1>3 DEF DrawingTypes
<1>5. IsFiniteSet(drawn)
  <2>1. IsFiniteSet(Exported)
    BY DrawingFinite DEF V!LayoutAssumption
  <2>2. IsFiniteSet(Exported \X Exported)
    BY <2>1, FS_Product
  <2> QED  BY <1>2, <2>2, FS_Subset DEF DrawingTypes
<1>6. ASSUME NEW c \in Exported
      PROVE  IsFiniteSet(Unranked(c)) /\ Cardinality(Unranked(c)) \in Nat
  <2>1. Unranked(c) \subseteq drawn
    BY DEF Unranked
  <2> QED  BY <1>5, <2>1, FS_Subset, FS_CardinalityType
<1>7. ASSUME NEW c \in Kids  PROVE <<p, c>> \in Unranked(c) /\ above[c] # 0
  <2>1. <<p, c>> \in Unranked(c)
    BY <1>1, <1>3, <1>7 DEF Unranked, Treated
  <2>2. Unranked(c) # {} /\ c \in Exported
    BY <1>3, <2>1
  <2>3. Cardinality(Unranked(c)) # 0
    BY <1>6, <2>2, FS_EmptySet
  <2> QED  BY <1>2, <2>1, <2>2, <2>3 DEF Counted
<1>8. \A q \in Exported : above'[q] = above[q] - (IF q \in Kids THEN 1 ELSE 0)
  BY <1>1
<1>9. above[p] = 0 /\ above \in [Exported -> Nat] /\ rankable \subseteq Exported
  BY <1>1, <1>2 DEF Counted
<1>10. \A q \in Exported : (above'[q] = 0 /\ q \notin rankable') <=> (Treated(q) \/ q = p)
  <2> SUFFICES ASSUME NEW q \in Exported
               PROVE  (above'[q] = 0 /\ q \notin rankable') <=> (Treated(q) \/ q = p)
    OBVIOUS
  <2>1. CASE q = p
    BY <1>1, <1>4, <1>8, <1>9, <2>1
  <2>2. CASE q # p /\ q \notin Kids
    <3>1. above'[q] = above[q] - 0 /\ above[q] \in Nat
      BY <1>8, <1>9, <2>2
    <3>2. q \in rankable' <=> q \in rankable
      BY <1>1, <2>2
    <3> QED  BY <2>2, <3>1, <3>2 DEF Treated
  <2>3. CASE q # p /\ q \in Kids
    <3>1. ~ Treated(q)
      BY <1>7, <2>3 DEF Treated
    <3>2. above'[q] = 0 => q \in rankable'
      BY <1>1, <2>3
    <3> QED  BY <2>3, <3>1, <3>2
  <2> QED  BY <2>1, <2>2, <2>3
<1>11. \A c \in Exported : Unranked(c)' = Unranked(c) \ {<<p, c>>}
  <2> SUFFICES ASSUME NEW c \in Exported  PROVE Unranked(c)' = Unranked(c) \ {<<p, c>>}
    OBVIOUS
  <2>1. Unranked(c)' = {e \in drawn : e[2] = c /\ ~ (above'[e[1]] = 0 /\ e[1] \notin rankable')}
    BY <1>1 DEF Unranked, Treated
  <2>2. ASSUME NEW e \in drawn
        PROVE  /\ e[1] \in Exported /\ e = <<e[1], e[2]>>
               /\ (above'[e[1]] = 0 /\ e[1] \notin rankable') <=> (Treated(e[1]) \/ e[1] = p)
    <3>1. e \in Exported \X Exported
      BY <1>2 DEF DrawingTypes
    <3>2. e[1] \in Exported /\ e = <<e[1], e[2]>>
      BY <3>1
    <3> QED  BY <1>10, <3>2
  <2> QED  BY <2>1, <2>2 DEF Unranked
<1>12. \A c \in Exported : above'[c] = Cardinality(Unranked(c)') /\ above'[c] \in Nat
  <2> SUFFICES ASSUME NEW c \in Exported
               PROVE  above'[c] = Cardinality(Unranked(c)') /\ above'[c] \in Nat
    OBVIOUS
  <2> DEFINE X == Unranked(c)
  <2>1. above[c] = Cardinality(X) /\ IsFiniteSet(X) /\ Cardinality(X) \in Nat
    BY <1>2, <1>6 DEF Counted
  <2>2. Unranked(c)' = X \ {<<p, c>>}
    BY <1>11
  <2>3. CASE c \in Kids
    <3>1. <<p, c>> \in X /\ above[c] # 0
      BY <1>7, <2>3
    <3> HIDE DEF X
    <3>2. Cardinality(X \ {<<p, c>>}) = Cardinality(X) - 1
      BY <2>1, <3>1, FS_RemoveElement
    <3> QED  BY <1>8, <2>1, <2>2, <2>3, <3>1, <3>2
  <2>4. CASE c \notin Kids
    <3>1. <<p, c>> \notin X
      BY <1>3, <2>4 DEF Unranked
    <3> HIDE DEF X
    <3>2. X \ {<<p, c>>} = X
      BY <3>1
    <3>3. above'[c] = above[c] - 0 /\ above[c] \in Nat
      BY <1>8, <1>9, <2>4
    <3>4. above'[c] = above[c]
      BY <3>3
    <3> QED  BY <2>1, <2>2, <3>2, <3>3, <3>4
  <2> QED  BY <2>3, <2>4
<1>13. Counted'
  <2>1. rankable' \subseteq Exported
    BY <1>1, <1>3, <1>9
  <2>2. above' \in [Exported -> Nat]
    <3>1. above' = [q \in Exported |-> above'[q]]
      BY <1>1
    <3> QED  BY <1>12, <3>1
  <2>3. \A q \in rankable' : above'[q] = 0
    <3> SUFFICES ASSUME NEW q \in rankable'  PROVE above'[q] = 0
      OBVIOUS
    <3>1. CASE q \in rankable /\ q # p
      <4>1. above[q] = 0 /\ q \in Exported /\ q \notin Kids
        BY <1>2, <1>7, <1>9, <3>1 DEF Counted
      <4> QED  BY <1>8, <4>1
    <3> QED  BY <1>1, <3>1
  <2> QED  BY <1>12, <2>1, <2>2, <2>3 DEF Counted
<1>14. ranks' \in Ranking
  BY <1>1, <1>2 DEF DrawingTypes, Ranking
<1>15. ASSUME NEW r \in Ranking, Fits(drawn, couples, r), NEW c \in Exported
       PROVE  ranks'[c] <= r[c]
  <2>1. ranks[c] <= r[c] /\ ranks[p] <= r[p]
    BY <1>2, <1>15
  <2>2. ASSUME c \in Kids  PROVE r[p] < r[c]
    <3>1. <<p, c>> \in drawn
      BY <1>3, <2>2
    <3>2. \A e \in drawn : r[e[1]] < r[e[2]]
      BY <1>15 DEF Fits
    <3> QED  BY <3>1, <3>2
  <2>3. /\ ranks[c] \in Nat /\ ranks[p] \in Nat /\ r[c] \in Nat /\ r[p] \in Nat
    BY <1>2 DEF DrawingTypes, Ranking
  <2> QED  BY <1>1, <2>1, <2>2, <2>3
<1>16. DrawingTypes' /\ InPlace'
  BY <1>1, <1>2, <1>14 DEF DrawingTypes, InPlace
<1> QED  BY <1>1, <1>2, <1>13, <1>15, <1>16 DEF DrawingInv

\* Where nobody can be ranked any more and somebody was not, no drawing exists: each who was not
\* has a parent who was not.
LEMMA NoRankNoDrawing ==
  ASSUME V!LayoutAssumption, DrawingTypes, Counted, rankable = {},
         NEW x \in Exported, above[x] # 0, NEW r \in Ranking, Fits(drawn, couples, r)
  PROVE  FALSE
<1> DEFINE X == {p \in Exported : above[p] # 0}
           T == {r[p] : p \in X}
<1>1. r \in [Exported -> Nat]
  BY DEF Ranking
<1>2. T \subseteq Nat /\ T # {}
  BY <1>1
<1>3. PICK m \in T : \A n \in T : m <= n
  <2> HIDE DEF T
  <2> QED  BY <1>2, LeastNatural
<1>4. PICK p \in X : r[p] = m
  BY <1>3
<1>5. Unranked(p) # {}
  <2>1. Cardinality(Unranked(p)) # 0
    BY <1>4 DEF Counted
  <2> QED  BY <2>1, FS_EmptySet
<1>6. PICK e \in drawn : e[2] = p /\ ~ Treated(e[1])
  BY <1>5 DEF Unranked
<1>7. e[1] \in X /\ r[e[1]] < r[p]
  BY <1>6 DEF Treated, DrawingTypes, Fits
<1>8. r[e[1]] \in Nat /\ r[p] \in Nat /\ r[p] <= r[e[1]]
  BY <1>1, <1>3, <1>4, <1>7
<1> QED  BY <1>7, <1>8

\* At the start of an iteration somebody is next.
LEMMA ProgressStarts ==
  ASSUME IsFiniteSet(Exported), DrawingTypes, NEW r, Least(drawn, couples, r),
         \A p \in Exported : ranks[p] <= r[p], NEW count \in Nat,
         count = 0 \/ Cardinality(Sure(ranks, r)) >= count + 1
  PROVE  Progress(count, FALSE, "unions", couples, drawn, ranks, r)
<1>1. CASE ranks = r
  BY <1>1 DEF Progress
<1>2. CASE ranks # r
  <2>1. \/ \E Q \in couples : \E a, b \in Q : ranks[a] = r[a] /\ ranks[b] # r[b]
        \/ \E e \in drawn : Behind(ranks, r, e)
    BY <1>2, SomebodyIsNext DEF DrawingTypes, Behind
  <2>2. Due("unions", couples, drawn, ranks, r)
    BY <2>1 DEF Due
  <2>3. \E p \in Exported : ranks[p] = r[p]
    BY <2>1 DEF Behind, DrawingTypes
  <2>4. Cardinality(Sure(ranks, r)) >= 1 /\ Cardinality(Sure(ranks, r)) \in Nat
    <3> DEFINE X == Sure(ranks, r)
    <3>1. X \subseteq Exported /\ X # {}
      BY <2>3 DEF Sure
    <3> HIDE DEF X
    <3>2. IsFiniteSet(X) /\ Cardinality(X) \in Nat /\ Cardinality(X) # 0
      BY <3>1, FS_Subset, FS_CardinalityType, FS_EmptySet
    <3>3. Cardinality(X) >= 1
      BY <3>2
    <3> QED  BY <3>2, <3>3 DEF X
  <2>5. Cardinality(Sure(ranks, r)) >= count + 1
    BY <2>4
  <2> QED  BY <2>2, <2>5 DEF Progress
<1> QED  BY <1>1, <1>2

LEMMA RankedStep ==
  ASSUME V!LayoutAssumption, DrawingInv, V!Ranked  PROVE DrawingInv'
<1>1. /\ phase = "rank" /\ rankable = {}
      /\ UNCHANGED <<drawn, couples, above, rankable, ranks, changed, iteration>>
  BY DEF V!Ranked
<1>2. /\ DrawingTypes /\ Counted /\ changed = FALSE /\ iteration = 0
      /\ \A r \in Ranking : Fits(drawn, couples, r) => \A q \in Exported : ranks[q] <= r[q]
  BY <1>1 DEF DrawingInv
<1>3. IsFiniteSet(Exported)
  BY DrawingFinite DEF V!LayoutAssumption
<1>4. CASE \A p \in Exported : above[p] = 0
  <2>1. phase' = "unions" /\ unseen' = couples
    BY <1>4 DEF V!Ranked
  <2>2. ASSUME NEW r, Least(drawn, couples, r)
        PROVE  Progress(iteration', changed', phase', unseen', drawn', ranks', r)
    <3>1. \A p \in Exported : ranks[p] <= r[p]
      BY <1>2, <2>2 DEF Least
    <3>2. Progress(0, FALSE, "unions", couples, drawn, ranks, r)
      BY <1>2, <1>3, <2>2, <3>1, ProgressStarts
    <3> QED  BY <1>1, <1>2, <2>1, <3>2
  <2>3. DrawingTypes' /\ InPlace'
    BY <1>1, <1>2, <2>1 DEF DrawingTypes, InPlace
  <2> QED  BY <1>1, <1>2, <2>1, <2>2, <2>3 DEF DrawingInv
<1>5. CASE ~ \A p \in Exported : above[p] = 0
  <2>1. phase' = "refused"
    BY <1>5 DEF V!Ranked
  <2>2. \A r \in Ranking : ~ Fits(drawn, couples, r)
    BY <1>1, <1>2, <1>5, NoRankNoDrawing
  <2>3. DrawingTypes' /\ InPlace'
    BY <1>1, <1>2, <2>1 DEF DrawingTypes, InPlace
  <2> QED  BY <1>1, <1>2, <2>1, <2>2, <2>3 DEF DrawingInv
<1> QED  BY <1>4, <1>5

\* One visit of an iteration: ranks grow below every drawing, and whoever was due still is, or
\* has found a place.
LEMMA RaiseStep ==
  ASSUME IsFiniteSet(Exported), DrawingInv, phase \in {"unions", "children"},
         NEW new \in Ranking, V!Raise(new), unseen' \subseteq unseen,
         \A p \in Exported : ranks[p] <= new[p],
         \A r \in Ranking : Fits(drawn, couples, r) => \A p \in Exported : new[p] <= r[p],
         \A r : Least(drawn, couples, r) /\ Due(phase, unseen, drawn, ranks, r)
                => \/ Due(phase, unseen', drawn, new, r)
                   \/ \E p \in Exported : ranks[p] # r[p] /\ new[p] = r[p],
         InPlace'
  PROVE  DrawingInv'
<1>1. /\ ranks' = new /\ UNCHANGED <<drawn, couples, above, rankable, phase, iteration>>
      /\ changed' \in BOOLEAN /\ (changed' = FALSE <=> changed = FALSE /\ new = ranks)
  <2>1. DrawingTypes
    BY DEF DrawingInv
  <2> QED  BY <2>1 DEF V!Raise, DrawingTypes
<1>2. DrawingTypes'
  BY <1>1 DEF DrawingInv, DrawingTypes
<1>3. ASSUME NEW r, Least(drawn, couples, r)
      PROVE  Progress(iteration, changed', phase, unseen', drawn, new, r)
  <2>1. r \in Ranking /\ Fits(drawn, couples, r) /\ iteration \in Nat /\ ranks \in Ranking
    BY <1>3 DEF Least, DrawingInv, DrawingTypes
  <2>2. \A p \in Exported : ranks[p] <= new[p] /\ new[p] <= r[p]
    BY <2>1
  <2>3. Progress(iteration, changed, phase, unseen, drawn, ranks, r)
    BY <1>3 DEF DrawingInv
  <2>4. /\ Cardinality(Sure(ranks, r)) \in Nat /\ Cardinality(Sure(new, r)) \in Nat
        /\ Cardinality(Sure(ranks, r)) <= Cardinality(Sure(new, r))
        /\ \A p \in Exported : ranks[p] # r[p] /\ new[p] = r[p]
             => Cardinality(Sure(ranks, r)) + 1 <= Cardinality(Sure(new, r))
    BY <2>1, <2>2, SureGrows
  <2>5. CASE changed = FALSE /\ ranks = r
    <3>1. \A p \in Exported : new[p] = r[p]
      BY <2>1, <2>2, <2>5 DEF Ranking
    <3>2. new = r
      BY <2>1, <3>1 DEF Ranking
    <3> QED  BY <1>1, <2>5, <3>2 DEF Progress
  <2>6. CASE Cardinality(Sure(ranks, r)) >= iteration + 2
    <3>1. Cardinality(Sure(new, r)) >= iteration + 2 /\ Cardinality(Sure(new, r)) >= iteration + 1
      BY <2>1, <2>4, <2>6
    <3> QED  BY <3>1 DEF Progress
  <2>7. CASE Cardinality(Sure(ranks, r)) >= iteration + 1 /\ Due(phase, unseen, drawn, ranks, r)
    <3>1. Cardinality(Sure(new, r)) >= iteration + 1
      BY <2>1, <2>4, <2>7
    <3>2. CASE Due(phase, unseen', drawn, new, r)
      BY <3>1, <3>2 DEF Progress
    <3>3. CASE \E p \in Exported : ranks[p] # r[p] /\ new[p] = r[p]
      <4>1. Cardinality(Sure(ranks, r)) + 1 <= Cardinality(Sure(new, r))
        BY <2>4, <3>3
      <4>2. Cardinality(Sure(new, r)) >= iteration + 2
        BY <2>1, <2>4, <2>7, <4>1
      <4> QED  BY <3>1, <4>2 DEF Progress
    <3> QED  BY <1>3, <2>7, <3>2, <3>3
  <2> QED  BY <2>3, <2>5, <2>6, <2>7 DEF Progress
<1>4. phase' \in {"unions", "children"} /\ (phase' = "unions" => unseen' \subseteq couples')
  BY <1>1 DEF DrawingInv
<1>5. \A r \in Ranking : Fits(drawn', couples', r) => \A p \in Exported : ranks'[p] <= r[p]
  BY <1>1
<1>6. \A r : Least(drawn', couples', r)
             => Progress(iteration', changed', phase', unseen', drawn', ranks', r)
  BY <1>1, <1>3
<1> QED  BY <1>2, <1>4, <1>5, <1>6 DEF DrawingInv

LEMMA LowestMeant ==
  ASSUME IsFiniteSet(Exported), NEW Q, Q \subseteq Exported, Q # {}, NEW k \in Ranking
  PROVE  /\ V!Max({k[q] : q \in Q}) \in Nat
         /\ \E q \in Q : k[q] = V!Max({k[p] : p \in Q})
         /\ \A q \in Q : k[q] <= V!Max({k[p] : p \in Q})
<1> DEFINE T == {k[q] : q \in Q}
<1>1. T \subseteq Nat /\ T # {}
  BY DEF Ranking
<1>2. IsFiniteSet(T)
  <2>1. IsFiniteSet(Q)
    BY FS_Subset
  <2> DEFINE f == [q \in Q |-> k[q]]
  <2>2. f \in [Q -> T] /\ \A n \in T : \E q \in Q : f[q] = n
    OBVIOUS
  <2> HIDE DEF f, T
  <2>3. f \in Surjection(Q, T)
    BY <2>2 DEF Surjection
  <2> QED  BY <2>1, <2>3, FS_Surjection
<1>3. \E m \in T : \A n \in T : n <= m
  <2> HIDE DEF T
  <2> QED  BY <1>1, <1>2, GreatestNatural
<1>4. \E m \in T : \A n \in T : m >= n
  <2> HIDE DEF T
  <2> QED  BY <1>1, <1>3
<1>5. V!Max(T) \in T /\ \A n \in T : V!Max(T) >= n
  <2> HIDE DEF T
  <2> QED  BY <1>4 DEF V!Max
<1>6. V!Max(T) \in Nat /\ \A n \in T : n <= V!Max(T)
  <2> HIDE DEF T
  <2> QED  BY <1>1, <1>5
<1> QED  BY <1>5, <1>6

\* The members of a union move down to the lowest of them.
LEMMA AlignStep ==
  ASSUME V!LayoutAssumption, DrawingInv, NEW Q, V!AlignUnion(Q)  PROVE DrawingInv'
<1> DEFINE low == V!Max({ranks[q] : q \in Q})
           new == [p \in Exported |-> IF p \in Q THEN low ELSE ranks[p]]
<1>1. phase = "unions" /\ Q \in unseen /\ unseen' = unseen \ {Q} /\ V!Raise(new)
  BY DEF V!AlignUnion
<1>2. IsFiniteSet(Exported)
  BY DrawingFinite DEF V!LayoutAssumption
<1>3. /\ DrawingTypes /\ Q \in couples /\ Q \subseteq Exported /\ Q # {}
      /\ \A r \in Ranking : Fits(drawn, couples, r) => \A q \in Exported : ranks[q] <= r[q]
  BY <1>1 DEF DrawingInv, DrawingTypes
<1>4. ranks \in [Exported -> Nat] /\ ranks \in Ranking
  BY <1>3 DEF DrawingTypes, Ranking
<1>5. /\ low \in Nat
      /\ \E q \in Q : ranks[q] = low
      /\ \A q \in Q : ranks[q] <= low
  BY <1>2, <1>3, <1>4, LowestMeant
<1> HIDE DEF low
<1>6. new \in Ranking
  BY <1>4, <1>5 DEF Ranking
<1>7. (\A p \in Q : new[p] = low) /\ \A p \in Exported \ Q : new[p] = ranks[p]
  BY <1>3
<1> HIDE DEF new
<1>8. \A p \in Exported : ranks[p] <= new[p]
  BY <1>4, <1>5, <1>7
<1>9. ASSUME NEW r \in Ranking, Fits(drawn, couples, r)
      PROVE  /\ \A p \in Exported : new[p] <= r[p]
             /\ \A a, b \in Q : ranks[a] = r[a] => new[b] = r[b]
  <2>1. (\A p \in Exported : ranks[p] <= r[p]) /\ \A p, q \in Q : r[p] = r[q]
    BY <1>3, <1>9 DEF Fits
  <2>2. \A p \in Q : low <= r[p]
    BY <1>3, <1>5, <2>1
  <2>3. \A p \in Exported : new[p] <= r[p]
    BY <1>7, <2>1, <2>2
  <2>4. ASSUME NEW a \in Q, NEW b \in Q, ranks[a] = r[a]  PROVE new[b] = r[b]
    <3>1. r[b] = r[a] /\ ranks[a] <= low /\ low <= r[b] /\ new[b] = low
      BY <1>5, <1>7, <2>1, <2>2
    <3>2. r[b] \in Nat
      BY <1>3 DEF Ranking
    <3> QED  BY <1>5, <2>4, <3>1, <3>2
  <2> QED  BY <2>3, <2>4
<1>10. ASSUME NEW r, Least(drawn, couples, r), Due(phase, unseen, drawn, ranks, r),
              \A p \in Exported : ranks[p] # r[p] => new[p] # r[p]
       PROVE  Due(phase, unseen', drawn, new, r)
  <2>1. r \in Ranking /\ Fits(drawn, couples, r)
    BY <1>10 DEF Least
  <2>2. \A p \in Exported : ranks[p] <= new[p] /\ new[p] <= r[p]
    BY <1>8, <1>9, <2>1
  <2>3. \A p \in Exported : ranks[p] = r[p] => new[p] = r[p]
    BY <1>4, <1>6, <2>1, <2>2 DEF Ranking
  <2>4. CASE \E N \in unseen : \E a, b \in N : ranks[a] = r[a] /\ ranks[b] # r[b]
    <3>1. PICK N \in unseen : \E a, b \in N : ranks[a] = r[a] /\ ranks[b] # r[b]
      BY <2>4
    <3>2. PICK a \in N, b \in N : ranks[a] = r[a] /\ ranks[b] # r[b]
      BY <3>1
    <3>3. a \in Exported /\ b \in Exported
      BY <1>1, <3>1 DEF DrawingInv, DrawingTypes
    <3>4. N # Q
      BY <1>9, <1>10, <2>1, <3>2, <3>3
    <3>5. N \in unseen' /\ new[a] = r[a] /\ new[b] # r[b]
      BY <1>1, <1>10, <2>3, <3>2, <3>3, <3>4
    <3> QED  BY <1>1, <3>5 DEF Due
  <2>5. CASE \E e \in drawn : Behind(ranks, r, e)
    <3>1. PICK e \in drawn : Behind(ranks, r, e)
      BY <2>5
    <3>2. e[1] \in Exported /\ e[2] \in Exported
      BY <1>3 DEF DrawingTypes
    <3>3. Behind(new, r, e)
      BY <1>10, <2>3, <3>1, <3>2 DEF Behind
    <3> QED  BY <1>1, <3>3 DEF Due
  <2> QED  BY <1>1, <1>10, <2>4, <2>5 DEF Due
<1>11. InPlace'
  <2> SUFFICES ASSUME changed' = FALSE  PROVE \A N \in couples \ unseen' : Level(N)'
    BY <1>1 DEF InPlace, V!Raise
  <2>1. changed = FALSE /\ ranks' = ranks /\ new = ranks
    BY <1>1, <1>3 DEF V!Raise, DrawingTypes
  <2>2. Level(Q)
    BY <1>7, <2>1 DEF Level
  <2>3. \A N \in couples \ unseen : Level(N)
    BY <1>1, <2>1 DEF DrawingInv, InPlace
  <2> QED  BY <1>1, <2>1, <2>2, <2>3 DEF Level
<1>12. unseen' \subseteq unseen /\ phase \in {"unions", "children"}
  BY <1>1
<1> QED  BY <1>1, <1>2, <1>6, <1>8, <1>9, <1>10, <1>11, <1>12, RaiseStep

\* Children move below their parent.
LEMMA LowerStep ==
  ASSUME V!LayoutAssumption, DrawingInv, NEW p \in Exported, V!LowerChildren(p)
  PROVE  DrawingInv'
<1> DEFINE Kids == V!ChildrenOf(p)
           new == [c \in Exported |->
                     IF c \in Kids /\ ranks[c] <= ranks[p] THEN ranks[p] + 1 ELSE ranks[c]]
<1>1. phase = "children" /\ p \in unseen /\ unseen' = unseen \ {p} /\ V!Raise(new)
  BY DEF V!LowerChildren
<1>2. IsFiniteSet(Exported)
  BY DrawingFinite DEF V!LayoutAssumption
<1>3. /\ DrawingTypes
      /\ \A r \in Ranking : Fits(drawn, couples, r) => \A q \in Exported : ranks[q] <= r[q]
  BY <1>1 DEF DrawingInv, DrawingTypes
<1>4. ranks \in [Exported -> Nat] /\ ranks \in Ranking
  BY <1>3 DEF DrawingTypes, Ranking
<1>5. \A c \in Exported : c \in Kids <=> <<p, c>> \in drawn
  BY DEF V!ChildrenOf
<1> HIDE DEF Kids
<1>6. new \in Ranking
  BY <1>4 DEF Ranking
<1>7. \A c \in Exported :
        new[c] = IF c \in Kids /\ ranks[c] <= ranks[p] THEN ranks[p] + 1 ELSE ranks[c]
  OBVIOUS
<1> HIDE DEF new
<1>8. \A c \in Exported : ranks[c] <= new[c]
  BY <1>4, <1>7
<1>9. ASSUME NEW r \in Ranking, Fits(drawn, couples, r), NEW c \in Exported
      PROVE  new[c] <= r[c]
  <2>1. ranks[c] <= r[c] /\ ranks[p] <= r[p]
    BY <1>3, <1>9
  <2>2. ASSUME c \in Kids  PROVE r[p] < r[c]
    <3>1. <<p, c>> \in drawn
      BY <1>5, <2>2
    <3>2. \A e \in drawn : r[e[1]] < r[e[2]]
      BY <1>9 DEF Fits
    <3> QED  BY <3>1, <3>2
  <2>3. ranks[c] \in Nat /\ ranks[p] \in Nat /\ r[c] \in Nat /\ r[p] \in Nat
    BY <1>4 DEF Ranking
  <2> QED  BY <1>7, <2>1, <2>2, <2>3
<1>10. \A e \in drawn : e[1] \in Exported /\ e[2] \in Exported /\ (e[1] = p => e[2] \in Kids)
  <2> SUFFICES ASSUME NEW e \in drawn
               PROVE  e[1] \in Exported /\ e[2] \in Exported /\ (e[1] = p => e[2] \in Kids)
    OBVIOUS
  <2>1. e \in Exported \X Exported
    BY <1>3 DEF DrawingTypes
  <2>2. e[1] \in Exported /\ e[2] \in Exported /\ e = <<e[1], e[2]>>
    BY <2>1
  <2> QED  BY <1>5, <2>2
<1>11. ASSUME NEW r, Least(drawn, couples, r), Due(phase, unseen, drawn, ranks, r),
              \A q \in Exported : ranks[q] # r[q] => new[q] # r[q]
       PROVE  Due(phase, unseen', drawn, new, r)
  <2>1. r \in Ranking /\ Fits(drawn, couples, r) /\ r \in [Exported -> Nat]
    BY <1>11 DEF Least, Ranking
  <2>2. \A q \in Exported : ranks[q] <= new[q] /\ new[q] <= r[q]
    BY <1>8, <1>9, <2>1
  <2>3. \A q \in Exported : ranks[q] = r[q] => new[q] = r[q]
    BY <1>4, <1>6, <2>1, <2>2 DEF Ranking
  <2>4. PICK e \in drawn : e[1] \in unseen /\ Behind(ranks, r, e)
    BY <1>1, <1>11 DEF Due
  <2>5. e[1] \in Exported /\ e[2] \in Exported
    BY <1>10
  <2>6. Behind(new, r, e)
    BY <1>11, <2>3, <2>4, <2>5 DEF Behind
  <2>7. e[1] # p
    <3> SUFFICES ASSUME e[1] = p  PROVE FALSE
      OBVIOUS
    <3>1. e[2] \in Kids /\ ranks[p] = r[p] /\ r[e[2]] = r[p] + 1 /\ new[e[2]] # r[e[2]]
      BY <1>10, <2>4, <2>6 DEF Behind
    <3>2. new[e[2]] <= r[e[2]] /\ ranks[e[2]] <= new[e[2]]
      BY <2>2, <2>5
    <3>3. ranks[p] \in Nat /\ ranks[e[2]] \in Nat /\ r[e[2]] \in Nat
      BY <1>4, <2>1, <2>5
    <3>4. CASE ranks[e[2]] <= ranks[p]
      BY <1>7, <2>5, <3>1, <3>4
    <3>5. CASE ~ (ranks[e[2]] <= ranks[p])
      BY <1>7, <2>5, <3>1, <3>2, <3>3, <3>5
    <3> QED  BY <3>4, <3>5
  <2> QED  BY <1>1, <2>4, <2>6, <2>7 DEF Due
<1>12. InPlace'
  <2> SUFFICES ASSUME changed' = FALSE
               PROVE  /\ \A N \in couples : Level(N)'
                      /\ \A e \in drawn : e[1] \notin unseen' => ranks'[e[1]] < ranks'[e[2]]
    BY <1>1 DEF InPlace, V!Raise
  <2>1. changed = FALSE /\ ranks' = ranks /\ new = ranks
    BY <1>1, <1>3 DEF V!Raise, DrawingTypes
  <2>2. /\ \A N \in couples : Level(N)
        /\ \A e \in drawn : e[1] \notin unseen => ranks[e[1]] < ranks[e[2]]
    BY <1>1, <2>1 DEF DrawingInv, InPlace
  <2>3. ASSUME NEW e \in drawn, e[1] = p  PROVE ranks[e[1]] < ranks[e[2]]
    <3>1. e[2] \in Exported /\ e[2] \in Kids /\ ranks[p] \in Nat /\ ranks[e[2]] \in Nat
      BY <1>4, <1>10, <2>3
    <3>2. ranks[e[2]] <= ranks[p] => ranks[e[2]] = ranks[p] + 1
      BY <1>7, <2>1, <3>1
    <3> QED  BY <2>3, <3>1, <3>2
  <2>4. \A e \in drawn : e[1] \notin unseen' => ranks[e[1]] < ranks[e[2]]
    BY <1>1, <2>2, <2>3
  <2>5. \A N \in couples : Level(N)'
    BY <2>1, <2>2 DEF Level
  <2> QED  BY <2>1, <2>4, <2>5
<1>13. unseen' \subseteq unseen /\ phase \in {"unions", "children"}
  BY <1>1
<1> QED  BY <1>1, <1>2, <1>6, <1>8, <1>9, <1>11, <1>12, <1>13, RaiseStep

LEMMA PartnersPlaced ==
  ASSUME V!LayoutAssumption, DrawingInv, V!UnionsAligned  PROVE DrawingInv'
<1>1. /\ phase = "unions" /\ unseen = {} /\ phase' = "children" /\ unseen' = V!Parents
      /\ UNCHANGED <<drawn, couples, above, rankable, ranks, changed, iteration>>
  BY DEF V!UnionsAligned
<1>2. \A e \in drawn : e[1] \in V!Parents
  <2> SUFFICES ASSUME NEW e \in drawn  PROVE e[1] \in V!Parents
    OBVIOUS
  <2>1. e \in Exported \X Exported
    BY DEF DrawingInv, DrawingTypes
  <2>2. e[1] \in Exported /\ e[2] \in Exported /\ e = <<e[1], e[2]>>
    BY <2>1
  <2>3. e[2] \in V!ChildrenOf(e[1])
    BY <2>2 DEF V!ChildrenOf
  <2> QED  BY <2>2, <2>3 DEF V!Parents
<1>3. ASSUME NEW r, Least(drawn, couples, r)
      PROVE  Progress(iteration, changed, "children", unseen', drawn, ranks, r)
  <2>1. Progress(iteration, changed, "unions", {}, drawn, ranks, r)
    BY <1>1, <1>3 DEF DrawingInv
  <2>2. Due("unions", {}, drawn, ranks, r) => Due("children", unseen', drawn, ranks, r)
    BY <1>1, <1>2 DEF Due
  <2> QED  BY <2>1, <2>2 DEF Progress
<1>4. InPlace'
  BY <1>1, <1>2 DEF DrawingInv, InPlace, Level
<1>5. DrawingTypes'
  BY <1>1 DEF DrawingInv, DrawingTypes
<1>6. \A r : Least(drawn', couples', r)
             => Progress(iteration', changed', phase', unseen', drawn', ranks', r)
  BY <1>1, <1>3
<1>7. \A r \in Ranking : Fits(drawn', couples', r) => \A p \in Exported : ranks'[p] <= r[p]
  BY <1>1 DEF DrawingInv
<1> QED  BY <1>1, <1>4, <1>5, <1>6, <1>7 DEF DrawingInv

\* The last visit of an iteration: either all have their places, or one more of them has.
LEMMA LoweredStep ==
  ASSUME V!LayoutAssumption, DrawingInv, V!ChildrenLowered  PROVE DrawingInv'
<1>1. /\ phase = "children" /\ unseen = {} /\ iteration' = iteration + 1 /\ changed' = FALSE
      /\ UNCHANGED <<drawn, couples, above, rankable, ranks>>
      /\ \/ changed = FALSE /\ phase' = "ok"
         \/ changed = TRUE /\ iteration >= V!LastIteration /\ phase' = "refused"
         \/ changed = TRUE /\ phase' = "unions" /\ unseen' = couples
  BY DEF V!ChildrenLowered, DrawingInv, DrawingTypes
<1>2. IsFiniteSet(Exported)
  BY DrawingFinite DEF V!LayoutAssumption
<1>3. /\ DrawingTypes
      /\ \A r \in Ranking : Fits(drawn, couples, r) => \A q \in Exported : ranks[q] <= r[q]
  BY DEF DrawingInv
<1>4. ASSUME NEW r, Least(drawn, couples, r), changed = TRUE
      PROVE  /\ \A p \in Exported : ranks[p] <= r[p]
             /\ Cardinality(Sure(ranks, r)) \in Nat
             /\ Cardinality(Sure(ranks, r)) >= iteration + 2
             /\ Cardinality(Sure(ranks, r)) <= Cardinality(Exported)
  <2>1. Progress(iteration, changed, "children", {}, drawn, ranks, r)
    BY <1>1, <1>4 DEF DrawingInv
  <2>2. ~ Due("children", {}, drawn, ranks, r)
    BY DEF Due
  <2>3. r \in Ranking /\ ranks \in Ranking /\ \A p \in Exported : ranks[p] <= r[p]
    BY <1>3, <1>4 DEF Least, DrawingTypes
  <2>4. \A p \in Exported : ranks[p] <= ranks[p] /\ ranks[p] <= r[p]
    BY <2>3 DEF Ranking
  <2>5. /\ Cardinality(Sure(ranks, r)) \in Nat
        /\ Cardinality(Sure(ranks, r)) <= Cardinality(Exported)
    BY <1>2, <2>3, <2>4, SureGrows
  <2> QED  BY <1>4, <2>1, <2>2, <2>3, <2>5 DEF Progress
<1>5. DrawingTypes'
  <2>1. iteration' \in Nat /\ changed' \in BOOLEAN
    <3>1. iteration \in Nat /\ iteration' = iteration + 1
      BY <1>1, <1>3 DEF DrawingTypes
    <3>2. changed' \in BOOLEAN
      BY <1>1, Zenon
    <3> QED  BY <3>1, <3>2
  <2>2. phase' \in {"rank", "unions", "children", "ok", "refused"}
    BY <1>1
  <2>3. /\ drawn' \subseteq Exported \X Exported /\ \A e \in drawn' : e[1] # e[2]
        /\ couples' \subseteq SUBSET Exported /\ {} \notin couples'
        /\ ranks' \in Ranking
    BY <1>1, <1>3 DEF DrawingTypes
  <2> QED  BY <2>1, <2>2, <2>3 DEF DrawingTypes
<1>6. \A r \in Ranking : Fits(drawn', couples', r) => \A p \in Exported : ranks'[p] <= r[p]
  BY <1>1, <1>3
<1>7. CASE changed = FALSE /\ phase' = "ok"
  <2>1. Fits(drawn, couples, ranks)
    BY <1>1, <1>7 DEF DrawingInv, InPlace, Level, Fits
  <2> QED  BY <1>1, <1>5, <1>6, <1>7, <2>1 DEF DrawingInv, InPlace
<1>8. CASE changed = TRUE /\ iteration >= V!LastIteration /\ phase' = "refused"
  <2>1. ASSUME NEW s \in Ranking, Fits(drawn, couples, s)  PROVE FALSE
    <3>1. PICK r : Least(drawn, couples, r)
      BY <1>3, <2>1, LeastExists DEF DrawingTypes
    <3>2. /\ Cardinality(Sure(ranks, r)) \in Nat
          /\ Cardinality(Sure(ranks, r)) >= iteration + 2
          /\ Cardinality(Sure(ranks, r)) <= Cardinality(Exported)
      BY <1>4, <1>8, <3>1
    <3>3. V!LastIteration = Cardinality(Exported) /\ Cardinality(Exported) \in Nat
      BY <1>2, DrawingFinite, FS_CardinalityType DEF V!LastIteration
    <3>4. iteration \in Nat
      BY <1>3 DEF DrawingTypes
    <3> QED  BY <1>8, <3>2, <3>3, <3>4
  <2> QED  BY <1>1, <1>5, <1>6, <1>8, <2>1 DEF DrawingInv, InPlace
<1>9. CASE changed = TRUE /\ phase' = "unions" /\ unseen' = couples
  <2>1. ASSUME NEW r, Least(drawn, couples, r)
        PROVE  Progress(iteration + 1, FALSE, "unions", couples, drawn, ranks, r)
    <3>1. iteration \in Nat /\ iteration + 1 \in Nat
      BY <1>3 DEF DrawingTypes
    <3>2. Cardinality(Sure(ranks, r)) >= (iteration + 1) + 1
      BY <1>4, <1>9, <2>1, <3>1
    <3>3. \A p \in Exported : ranks[p] <= r[p]
      BY <1>4, <1>9, <2>1
    <3> QED  BY <1>2, <1>3, <2>1, <3>1, <3>2, <3>3, ProgressStarts
  <2>2. \A r : Least(drawn', couples', r)
               => Progress(iteration', changed', phase', unseen', drawn', ranks', r)
    BY <1>1, <1>9, <2>1
  <2> QED  BY <1>1, <1>5, <1>6, <1>9, <2>2 DEF DrawingInv, InPlace
<1> QED  BY <1>1, <1>7, <1>8, <1>9

LEMMA DrawingInvariance ==
  ASSUME V!LayoutAssumption, DrawingInv, [V!Next]_(V!vars)  PROVE DrawingInv'
<1>1. CASE UNCHANGED V!vars
  BY <1>1 DEF V!vars, DrawingInv, DrawingTypes, Counted, Unranked, Treated, InPlace, Level
<1>2. ASSUME NEW p \in Exported, V!Rank(p)  PROVE DrawingInv'
  BY <1>2, RankStep
<1>3. ASSUME NEW p \in Exported, V!LowerChildren(p)  PROVE DrawingInv'
  BY <1>3, LowerStep
<1>4. ASSUME NEW Q, V!AlignUnion(Q)  PROVE DrawingInv'
  BY <1>4, AlignStep
<1> QED
  BY <1>1, <1>2, <1>3, <1>4, RankedStep, PartnersPlaced, LoweredStep DEF V!Next

LEMMA DrawingsFit ==
  ASSUME DrawingTypes
  PROVE  /\ V!Drawings \subseteq Ranking
         /\ \A r \in Ranking : r \in V!Drawings
              <=> Fits(drawn, couples, r) /\ r \in [Exported -> 0 .. Cardinality(Exported) - 1]
<1>1. V!Cardinality(Exported) = Cardinality(Exported)
  BY DrawingFinite
<1>2. \A r \in Ranking : V!Generations(r) <=> Fits(drawn, couples, r)
  BY DEF V!Generations, Fits, DrawingTypes
<1>3. [Exported -> 0 .. Cardinality(Exported) - 1] \subseteq Ranking
  BY DEF Ranking
<1> QED  BY <1>1, <1>2, <1>3 DEF V!Drawings

\* The layout of a drawing (generationRanks, alignUnionRanks) gives up exactly when the tree has
\* no drawing, and finds the flattest otherwise: for any persons and unions, any relations that
\* Init admits (all those without a cycle, up to the numbering, and those that one relation closes
\* to cycles) and any order of the maps.  In an iteration that changes something at least one more
\* person finds the place that the flattest drawing has for them, so that the bound of the loop is
\* never too small.
THEOREM FlattestDrawingHolds ==
  ASSUME V!LayoutAssumption  PROVE V!Spec => []FlattestDrawing
<1>1. ASSUME DrawingInv  PROVE FlattestDrawing
  <2>1. IsFiniteSet(Exported) /\ DrawingTypes
    BY <1>1, DrawingFinite DEF V!LayoutAssumption, DrawingInv
  <2>2. phase = "refused" => V!Drawings = {}
    BY <1>1, <2>1, DrawingsFit DEF DrawingInv
  <2>3. ASSUME phase = "ok"
        PROVE  ranks \in V!Drawings /\ \A r \in V!Drawings, p \in Exported : ranks[p] <= r[p]
    <3>1. ranks \in Ranking /\ Fits(drawn, couples, ranks)
      BY <1>1, <2>1, <2>3 DEF DrawingInv, DrawingTypes
    <3>2. \A r \in Ranking : Fits(drawn, couples, r) => \A p \in Exported : ranks[p] <= r[p]
      BY <1>1 DEF DrawingInv
    <3>3. Least(drawn, couples, ranks)
      BY <3>1, <3>2 DEF Least
    <3>4. ranks \in [Exported -> 0 .. Cardinality(Exported) - 1]
      BY <2>1, <3>3, LeastIsFlat DEF DrawingTypes
    <3> QED  BY <2>1, <3>1, <3>2, <3>4, DrawingsFit
  <2> QED  BY <2>2, <2>3 DEF FlattestDrawing, V!FlattestDrawing
<1>2. V!Init => DrawingInv
  BY DrawingInit
<1>3. DrawingInv /\ [V!Next]_(V!vars) => DrawingInv'
  BY DrawingInvariance
<1> QED  BY <1>1, <1>2, <1>3, PTL DEF V!Spec
=============================================================================
