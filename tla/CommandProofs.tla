--------------------------- MODULE CommandProofs ---------------------------
(***************************************************************************)
(* Theorems about the parts of the program that share no state with the    *)
(* others: the restore of a tree, for any number of runs, media and        *)
(* faults; the migrations, for any deployers and builds; the periodic      *)
(* cleanups, for any processes and interval; the delay of a retry, at      *)
(* every width; and the families of a GEDCOM export, for any tree.  The    *)
(* restore is extended, the others are instances.                          *)
(***************************************************************************)
EXTENDS Commands, FiniteSetTheorems, WellFoundedInduction, TLAPS

-----------------------------------------------------------------------------
(* Numbers and lists *)

\* Every set of natural numbers has a least one: what the proofs have for induction.
LEMMA LeastNatural ==
  ASSUME NEW T, T \subseteq Nat, T # {}
  PROVE  \E m \in T : \A n \in T : m <= n
<1> DEFINE R == OpToRel(<, Nat)
<1>1. IsWellFoundedOn(R, Nat)
  BY NatLessThanWellFounded
<1>2. \A x, y \in Nat : x < y => <<x, y>> \in R
  BY DEF OpToRel
<1> HIDE DEF R
<1>3. PICK m \in T : \A n \in T : ~ (<<n, m>> \in R)
  BY <1>1, WFMin, Zenon
<1>4. ASSUME NEW n \in T  PROVE m <= n
  <2>1. n \in Nat /\ m \in Nat /\ ~ (n < m)
    BY <1>2, <1>3, Zenon
  <2> QED  BY <2>1
<1> QED  BY <1>4

\* f lists each of its values once, in the order R.
InOrder(f, n, R) == \A i, j \in 1 .. n : i < j => <<f[i], f[j]>> \in R

\* A finite set can be listed in any total order: each member at the place that the number of
\* those before it gives.
LEMMA OrderExists ==
  ASSUME NEW S, IsFiniteSet(S), NEW R,
         \A x \in S : <<x, x>> \notin R,
         \A x, y \in S : x # y => <<x, y>> \in R \/ <<y, x>> \in R,
         \A x, y, z \in S : <<x, y>> \in R /\ <<y, z>> \in R => <<x, z>> \in R
  PROVE  /\ Cardinality(S) \in Nat
         /\ \E f \in [1 .. Cardinality(S) -> S] : InOrder(f, Cardinality(S), R)
<1> DEFINE n == Cardinality(S)
           Lower(x) == {y \in S : <<y, x>> \in R}
           rank == [x \in S |-> Cardinality(Lower(x)) + 1]
<1>1. n \in Nat
  BY FS_CardinalityType
<1>2. ASSUME NEW x \in S
      PROVE  IsFiniteSet(Lower(x)) /\ Cardinality(Lower(x)) \in Nat /\ Cardinality(Lower(x)) < n
  <2> DEFINE U == Lower(x)
  <2>1. U \in SUBSET S /\ x \in S /\ x \notin U
    OBVIOUS
  <2> HIDE DEF U
  <2>2. IsFiniteSet(U) /\ Cardinality(U) \in Nat /\ Cardinality(U) <= n /\ Cardinality(U) # n
    BY <2>1, FS_Subset, FS_CardinalityType
  <2>3. Cardinality(U) < n
    BY <1>1, <2>2
  <2> QED  BY <2>2, <2>3 DEF U
<1>3. ASSUME NEW x \in S, NEW y \in S, <<x, y>> \in R
      PROVE  Cardinality(Lower(x)) < Cardinality(Lower(y))
  <2> DEFINE U == Lower(x)
             W == Lower(y)
  <2>1. U \in SUBSET W /\ x \in W /\ x \notin U
    BY <1>3
  <2>2. IsFiniteSet(W) /\ Cardinality(U) \in Nat /\ Cardinality(W) \in Nat
    BY <1>2
  <2> HIDE DEF U, W
  <2>3. Cardinality(U) <= Cardinality(W) /\ Cardinality(U) # Cardinality(W)
    BY <2>1, <2>2, FS_Subset
  <2>4. Cardinality(U) < Cardinality(W)
    BY <2>2, <2>3
  <2> QED  BY <2>4 DEF U, W
<1> HIDE DEF Lower
<1>4. rank \in [S -> 1 .. n]
  <2>1. \A x \in S : Cardinality(Lower(x)) + 1 \in 1 .. n
    BY <1>1, <1>2
  <2> HIDE DEF n
  <2> QED  BY <2>1
<1>5. ASSUME NEW x \in S, NEW y \in S, <<x, y>> \in R  PROVE rank[x] < rank[y]
  <2>1. Cardinality(Lower(x)) < Cardinality(Lower(y))
    BY <1>3, <1>5
  <2>2. Cardinality(Lower(x)) \in Nat /\ Cardinality(Lower(y)) \in Nat
    BY <1>2
  <2> QED  BY <2>1, <2>2
<1>6. \A x \in S : rank[x] \in Int
  BY <1>2
<1> HIDE DEF rank
<1>7. \A x, y \in S : x # y => rank[x] # rank[y]
  <2> SUFFICES ASSUME NEW x \in S, NEW y \in S, x # y  PROVE rank[x] # rank[y]
    OBVIOUS
  <2>1. rank[x] < rank[y] \/ rank[y] < rank[x]
    BY <1>5
  <2> QED  BY <1>6, <2>1
<1>8. rank \in Surjection(S, 1 .. n)
  <2>1. rank \in Injection(S, 1 .. n)
    BY <1>4, <1>7 DEF Injection, IsInjective
  <2>2. IsFiniteSet(1 .. n) /\ Cardinality(1 .. n) = n
    BY <1>1, FS_Interval
  <2> HIDE DEF n
  <2>3. Cardinality(S) = Cardinality(1 .. n)
    BY <2>2 DEF n
  <2> QED  BY <2>1, <2>2, <2>3, FS_Injection
<1> HIDE DEF n
<1>9. \A i \in 1 .. n : \E x \in S : rank[x] = i
  BY <1>8 DEF Surjection
<1> DEFINE f == [i \in 1 .. n |-> CHOOSE x \in S : rank[x] = i]
<1>10. \A i \in 1 .. n : f[i] \in S /\ rank[f[i]] = i
  BY <1>9
<1>11. f \in [1 .. n -> S]
  BY <1>10
<1> HIDE DEF f
<1>12. ASSUME NEW i \in 1 .. n, NEW j \in 1 .. n, i < j  PROVE <<f[i], f[j]>> \in R
  <2>1. f[i] # f[j]
    BY <1>10, <1>12
  <2>2. ASSUME <<f[j], f[i]>> \in R  PROVE FALSE
    <3>1. rank[f[j]] < rank[f[i]]
      BY <1>5, <1>10, <2>2
    <3> QED  BY <1>10, <1>12, <3>1
  <2> QED  BY <1>10, <2>1, <2>2
<1>13. InOrder(f, n, R)
  BY <1>12 DEF InOrder
<1>14. \E g \in [1 .. n -> S] : InOrder(g, n, R)
  BY <1>11, <1>13
<1> QED  BY <1>1, <1>14 DEF n

\* A finite set of natural numbers has a greatest one: the one with the fewest above it.
LEMMA GreatestNatural ==
  ASSUME NEW S, S \subseteq Nat, S # {}, IsFiniteSet(S)
  PROVE  \E m \in S : \A n \in S : n <= m
<1> DEFINE Above(m) == {n \in S : n > m}
           T == {Cardinality(Above(m)) : m \in S}
<1>1. \A m \in S : IsFiniteSet(Above(m)) /\ Cardinality(Above(m)) \in Nat
  BY FS_Subset, FS_CardinalityType
<1>2. T \subseteq Nat /\ T # {}
  BY <1>1
<1>3. PICK t \in T : \A u \in T : t <= u
  BY <1>2, LeastNatural
<1>4. PICK m \in S : t = Cardinality(Above(m))
  OBVIOUS
<1>5. ASSUME NEW n \in S, ~ (n <= m)  PROVE FALSE
  <2>1. m \in Nat /\ n \in Nat /\ n > m /\ n \in Above(m) /\ n \notin Above(n)
    BY <1>5
  <2>6. ASSUME NEW k \in Above(n)  PROVE k \in Above(m)
    <3>1. k \in Nat /\ k > n
      OBVIOUS
    <3> QED  BY <2>1, <3>1
  <2>2. t <= Cardinality(Above(n))
    BY <1>3
  <2>3. Above(n) # Above(m)
    BY <2>1
  <2> HIDE DEF Above
  <2>4. Cardinality(Above(n)) <= Cardinality(Above(m))
        /\ Cardinality(Above(n)) # Cardinality(Above(m))
    BY <1>1, <2>6, <2>3, FS_Subset
  <2>5. Cardinality(Above(n)) \in Nat /\ Cardinality(Above(m)) \in Nat
    BY <1>1
  <2> QED  BY <1>4, <2>2, <2>4, <2>5
<1> QED  BY <1>5

\* Induction: a set that holds zero and the successor of each of its numbers holds all.
LEMMA AllNaturals ==
  ASSUME NEW T, 0 \in T, \A n \in Nat : n \in T => n + 1 \in T
  PROVE  \A n \in Nat : n \in T
<1> SUFFICES ASSUME NEW n \in Nat, n \notin T  PROVE FALSE
  OBVIOUS
<1>1. PICK m \in Nat \ T : \A k \in Nat \ T : m <= k
  BY LeastNatural
<1>2. m # 0 /\ m - 1 \in Nat
  BY <1>1
<1>3. m - 1 \in T
  BY <1>1, <1>2
<1> QED  BY <1>1, <1>2, <1>3

-----------------------------------------------------------------------------
(* The restore of a tree.  The inductive invariant says who has put an object that a run remembers, *)
(* and what a run may conclude from where it is.                                                     *)

\* The open transaction as the run that has it sees it.
Has(r) == tx = [by |-> r, state |-> "open"]

\* What a run remembers is its own.
Owned == \A r \in Runs : \A a \in run[r].uploaded : objects[a] = r

\* Where a run has its transaction, where it has put every file, and what success means.
Placed(r) ==
  /\ run[r].pc \in {"upload", "records", "commit", "rollback"} => Has(r)
  /\ run[r].pc \in {"records", "commit", "check", "done"} => Files \subseteq run[r].uploaded
  /\ run[r].pc = "done" => Committed

\* Two trees are never committed: whoever has the transaction knows that there is none.
OneTree == tx # NoTx => ~ Committed

\* Without doubt a committed tree has a run that tells so.
Undoubted ==
  ~ doubted => /\ tx.state # "committing"
               /\ \A r \in Runs : run[r].pc # "check"
               /\ Committed => \E r \in Runs : run[r].pc = "done"

IInv == TypeOK /\ Owned /\ OneTree /\ Undoubted /\ \A r \in Runs : Placed(r)

----------------------------------------------------------------------------
LEMMA InitIInv == Init => IInv
<1> SUFFICES ASSUME Init PROVE IInv
  OBVIOUS
<1>1. TypeOK
  <2>1. backup \in [Assets -> Statuses] /\ faults \in 0 .. MaxFaults
    BY RestoreAssumption DEF Init
  <2>6. doubted \in BOOLEAN
    BY DEF Init
  <2>2. media \in [Assets -> [status : Statuses \cup {"none"}, job : BOOLEAN]]
    BY DEF Init, NoMedia
  <2>3. objects \in [Assets -> Runs \cup {Nobody}]
    BY DEF Init
  <2>4. tx \in [by : Runs \cup {Nobody}, state : {"none", "open", "rollingBack", "committing"}]
    BY DEF Init, NoTx
  <2>5. run \in [Runs -> [pc : {"insert", "upload", "records", "commit", "check", "rollback",
                               "cleanup", "done", "failed"}, uploaded : SUBSET Assets]]
    BY DEF Init, Idle
  <2> QED
    BY <2>1, <2>2, <2>3, <2>4, <2>5, <2>6 DEF TypeOK
<1> QED
  BY <1>1 DEF Init, IInv, Owned, OneTree, Undoubted, Placed, Committed, NoMedia, NoTx, Idle

\* The commit of a tree is seen.
LEMMA RestoredIsCommitted ==
  ASSUME TypeOK
  PROVE  /\ Restored \in [Assets -> [status : Statuses \cup {"none"}, job : BOOLEAN]]
         /\ \A a \in Assets : Restored[a] # NoMedia
<1>1. \A s \in Statuses : /\ RestoredMediaState(s) \in [status : Statuses \cup {"none"}, job : BOOLEAN]
                          /\ RestoredMediaState(s) # NoMedia
  BY DEF Statuses, RestoredMediaState, NoMedia
<1> QED
  BY <1>1 DEF Restored, TypeOK

\* A step of run r alone, after which it remembers no more than before and puts nothing.
LEMMA MoveKeeps ==
  ASSUME IInv, NEW r \in Runs,
         NEW pc \in {"upload", "records", "commit", "check", "rollback", "cleanup", "done", "failed"},
         Goto(r, pc), UNCHANGED <<backup, media, objects, doubted>>,
         faults' \in 0 .. MaxFaults,
         tx' = tx,
         pc \in {"records", "commit", "rollback"} => Has(r),
         pc # "upload", pc # "check",
         pc \in {"records", "commit", "done"} => Files \subseteq run[r].uploaded,
         pc = "done" => Committed,
         run[r].pc # "done"
  PROVE  IInv'
<1> USE DEF IInv
<1>1. run \in [Runs -> [pc : {"insert", "upload", "records", "commit", "check", "rollback",
                              "cleanup", "done", "failed"}, uploaded : SUBSET Assets]]
  BY DEF TypeOK
<1>2. /\ run' \in [Runs -> [pc : {"insert", "upload", "records", "commit", "check", "rollback",
                              "cleanup", "done", "failed"}, uploaded : SUBSET Assets]]
      /\ run'[r].pc = pc /\ \A s \in Runs : run'[s].uploaded = run[s].uploaded
      /\ \A s \in Runs \ {r} : run'[s] = run[s]
  BY <1>1 DEF Goto
<1>3. TypeOK'
  BY <1>2 DEF TypeOK
<1>4. (Owned /\ OneTree)'
  BY <1>2 DEF Owned, OneTree, Committed
<1>5. Undoubted'
  BY <1>2 DEF Undoubted, Committed
<1>6. \A s \in Runs : Placed(s)'
  BY <1>2 DEF Placed, Has, Files, Committed
<1> QED
  BY <1>3, <1>4, <1>5, <1>6

\* The transaction of a run that is not finished ends or begins its end without a commit.
LEMMA LeaveKeeps ==
  ASSUME IInv, NEW r \in Runs,
         NEW uploaded \in SUBSET run[r].uploaded,
         NEW pc \in {"cleanup", "failed"},
         run' = [run EXCEPT ![r] = [pc |-> pc, uploaded |-> uploaded]],
         UNCHANGED <<backup, media, objects, doubted>>,
         faults' \in 0 .. MaxFaults,
         run[r].pc # "done",
         tx' = tx \/ (Has(r) /\ tx' \in {NoTx, [by |-> r, state |-> "rollingBack"]})
  PROVE  IInv'
<1> USE DEF IInv
<1>1. run \in [Runs -> [pc : {"insert", "upload", "records", "commit", "check", "rollback",
                              "cleanup", "done", "failed"}, uploaded : SUBSET Assets]]
  BY DEF TypeOK
<1>2. /\ run' \in [Runs -> [pc : {"insert", "upload", "records", "commit", "check", "rollback",
                              "cleanup", "done", "failed"}, uploaded : SUBSET Assets]]
      /\ run'[r].pc = pc /\ run'[r].uploaded \subseteq run[r].uploaded
      /\ \A s \in Runs \ {r} : run'[s] = run[s]
  BY <1>1
<1>3. /\ tx' \in [by : Runs \cup {Nobody}, state : {"none", "open", "rollingBack", "committing"}]
      /\ tx' # NoTx => tx # NoTx
      /\ tx'.state = "committing" => tx.state = "committing"
      /\ \A s \in Runs \ {r} : Has(s) => Has(s)'
  BY DEF TypeOK, Has, NoTx
<1>4. TypeOK'
  BY <1>2, <1>3 DEF TypeOK
<1>5. Owned'
  BY <1>2 DEF Owned
<1>6. OneTree'
  BY <1>3 DEF OneTree, Committed
<1>7. Undoubted'
  BY <1>2, <1>3 DEF Undoubted, Committed
<1>8. \A s \in Runs : Placed(s)'
  BY <1>2, <1>3 DEF Placed, Files, Committed
<1> QED
  BY <1>4, <1>5, <1>6, <1>7, <1>8

----------------------------------------------------------------------------
(* The steps that do more than move on *)

LEMMA InsertTreeKeeps == ASSUME IInv, NEW r \in Runs, InsertTree(r) PROVE IInv'
<1>1. CASE Committed
  <2>1. Goto(r, "failed") /\ UNCHANGED <<backup, media, objects, tx, faults, doubted>>
        /\ run[r].pc = "insert" /\ faults \in 0 .. MaxFaults
    BY <1>1 DEF InsertTree, At, IInv, TypeOK
  <2> QED
    BY <2>1, MoveKeeps
<1>2. CASE ~ Committed
  <2>1. /\ run' = [run EXCEPT ![r].pc = "upload"] /\ tx' = [by |-> r, state |-> "open"]
        /\ tx = NoTx /\ UNCHANGED <<backup, media, objects, faults, doubted>>
        /\ run[r].pc = "insert"
    BY <1>2 DEF InsertTree, Goto, At
  <2>2. /\ run' \in [Runs -> [pc : {"insert", "upload", "records", "commit", "check", "rollback",
                              "cleanup", "done", "failed"}, uploaded : SUBSET Assets]]
        /\ run'[r].pc = "upload" /\ \A s \in Runs : run'[s].uploaded = run[s].uploaded
        /\ \A s \in Runs \ {r} : run'[s] = run[s]
    BY <2>1 DEF IInv, TypeOK
  <2>3. TypeOK'
    BY <2>1, <2>2 DEF IInv, TypeOK
  <2>4. \A s \in Runs : ~ Has(s)
    BY <2>1 DEF Has, NoTx
  <2>5. (Owned /\ OneTree)'
    BY <1>2, <2>1, <2>2 DEF IInv, Owned, OneTree, Committed
  <2>6. Undoubted'
    BY <1>2, <2>1, <2>2 DEF IInv, Undoubted, Committed
  <2>7. \A s \in Runs : Placed(s)'
    BY <2>1, <2>2, <2>4 DEF IInv, Placed, Has, Files, Committed
  <2> QED
    BY <2>3, <2>5, <2>6, <2>7 DEF IInv
<1> QED
  BY <1>1, <1>2

\* An object is put where there is none, by the run that has the transaction.
LEMMA PutKeeps ==
  ASSUME IInv, NEW r \in Runs, NEW a \in Assets, objects[a] = Nobody, At(r, "upload"),
         objects' = [objects EXCEPT ![a] = r],
         UNCHANGED <<backup, media, tx, doubted>>,
         faults' \in 0 .. MaxFaults,
         \/ run' = [run EXCEPT ![r].uploaded = @ \cup {a}]
         \/ Goto(r, "rollback")
  PROVE  IInv'
<1> USE DEF IInv
<1>1. /\ run' \in [Runs -> [pc : {"insert", "upload", "records", "commit", "check", "rollback",
                              "cleanup", "done", "failed"}, uploaded : SUBSET Assets]]
      /\ run'[r].pc \in {"upload", "rollback"}
      /\ run'[r].uploaded \subseteq run[r].uploaded \cup {a}
      /\ \A s \in Runs \ {r} : run'[s] = run[s]
  <2>1. CASE run' = [run EXCEPT ![r].uploaded = @ \cup {a}]
    BY <2>1 DEF TypeOK, At
  <2>2. CASE Goto(r, "rollback")
    BY <2>2 DEF TypeOK, Goto
  <2> QED
    BY <2>1, <2>2
<1>2. objects' \in [Assets -> Runs \cup {Nobody}] /\ objects'[a] = r
      /\ \A b \in Assets \ {a} : objects'[b] = objects[b]
  BY DEF TypeOK
<1>3. \A s \in Runs : a \notin run[s].uploaded
  BY RestoreAssumption DEF Owned
<1>4. TypeOK'
  BY <1>1, <1>2 DEF TypeOK
<1>5. Owned'
  BY <1>1, <1>2, <1>3 DEF Owned, TypeOK
<1>6. (OneTree /\ Undoubted)'
  BY <1>1 DEF OneTree, Undoubted, Committed, At
<1>7. \A s \in Runs : Placed(s)'
  BY <1>1 DEF Placed, Has, Files, Committed, At
<1> QED
  BY <1>4, <1>5, <1>6, <1>7

LEMMA PutObjectKeeps == ASSUME IInv, NEW r \in Runs, PutObject(r) PROVE IInv'
<1>1. PICK a \in Files \ run[r].uploaded :
        IF objects[a] = Nobody
        THEN /\ objects' = [objects EXCEPT ![a] = r]
             /\ run' = [run EXCEPT ![r].uploaded = @ \cup {a}]
        ELSE Goto(r, "rollback") /\ UNCHANGED objects
  BY DEF PutObject
<1>2. /\ At(r, "upload") /\ UNCHANGED <<backup, media, tx, faults, doubted>> /\ Has(r)
      /\ faults \in 0 .. MaxFaults /\ a \in Assets /\ run[r].pc = "upload"
  BY DEF PutObject, IInv, TypeOK, Placed, At, Files
<1>3. CASE objects[a] = Nobody
  BY <1>1, <1>2, <1>3, PutKeeps
<1>4. CASE objects[a] # Nobody
  BY <1>1, <1>2, <1>4, MoveKeeps
<1> QED
  BY <1>3, <1>4

LEMMA PutFailsKeeps == ASSUME IInv, NEW r \in Runs, PutFails(r) PROVE IInv'
<1>1. PICK a \in Files \ run[r].uploaded :
        objects' \in {objects, [objects EXCEPT ![a] = IF @ = Nobody THEN r ELSE @]}
  BY DEF PutFails
<1>2. /\ At(r, "upload") /\ UNCHANGED <<backup, media, tx, doubted>> /\ Has(r)
      /\ faults' \in 0 .. MaxFaults /\ a \in Assets /\ run[r].pc = "upload"
      /\ Goto(r, "rollback") /\ objects \in [Assets -> Runs \cup {Nobody}]
  BY RestoreAssumption DEF PutFails, Fault, IInv, TypeOK, Placed, At, Files
<1>3. CASE objects[a] = Nobody /\ objects' = [objects EXCEPT ![a] = r]
  BY <1>2, <1>3, PutKeeps
<1>4. CASE objects' = objects
  BY <1>2, <1>4, MoveKeeps
<1>5. \/ objects' = objects
      \/ objects[a] = Nobody /\ objects' = [objects EXCEPT ![a] = r]
  BY <1>1, <1>2
<1> QED
  BY <1>3, <1>4, <1>5

LEMMA CommitKeeps == ASSUME IInv, NEW r \in Runs, Commit(r) PROVE IInv'
<1> USE DEF IInv
<1>1. /\ run[r].pc = "commit" /\ media' = Restored /\ tx' = NoTx
      /\ run' = [run EXCEPT ![r].pc = "done"] /\ UNCHANGED <<backup, objects, faults, doubted>>
      /\ Has(r) /\ Files \subseteq run[r].uploaded
  BY DEF Commit, Goto, At, Placed
<1>2. /\ run' \in [Runs -> [pc : {"insert", "upload", "records", "commit", "check", "rollback",
                              "cleanup", "done", "failed"}, uploaded : SUBSET Assets]]
      /\ run'[r].pc = "done" /\ \A s \in Runs : run'[s].uploaded = run[s].uploaded
      /\ \A s \in Runs \ {r} : run'[s] = run[s]
  BY <1>1 DEF TypeOK
<1>3. tx' \in [by : Runs \cup {Nobody}, state : {"none", "open", "rollingBack", "committing"}]
      /\ tx'.state = "none"
  BY <1>1 DEF NoTx
<1>4. TypeOK'
  BY <1>1, <1>2, <1>3, RestoredIsCommitted DEF TypeOK
<1>5. Committed'
  BY <1>1, RestoredIsCommitted, RestoreAssumption DEF Committed
<1>6. \A s \in Runs \ {r} : ~ Has(s)
  BY <1>1 DEF Has
<1>7. (Owned /\ OneTree)'
  BY <1>1, <1>2 DEF Owned, OneTree
<1>8. Undoubted'
  BY <1>1, <1>2, <1>3 DEF Undoubted
<1>9. \A s \in Runs : Placed(s)'
  BY <1>1, <1>2, <1>5, <1>6 DEF Placed, Files
<1> QED
  BY <1>4, <1>7, <1>8, <1>9

LEMMA CommitFailsKeeps == ASSUME IInv, NEW r \in Runs, CommitFails(r) PROVE IInv'
<1> USE DEF IInv
<1>1. PICK state \in {"committing", "rollingBack"} : tx' = [by |-> r, state |-> state]
  BY DEF CommitFails
<1>2. /\ run[r].pc = "commit" /\ doubted' = TRUE /\ faults' \in 0 .. MaxFaults
      /\ run' = [run EXCEPT ![r].pc = "check"] /\ UNCHANGED <<backup, media, objects>>
      /\ Has(r) /\ Files \subseteq run[r].uploaded
  BY RestoreAssumption DEF CommitFails, Fault, Goto, At, Placed, TypeOK
<1>3. /\ run' \in [Runs -> [pc : {"insert", "upload", "records", "commit", "check", "rollback",
                              "cleanup", "done", "failed"}, uploaded : SUBSET Assets]]
      /\ run'[r].pc = "check" /\ \A s \in Runs : run'[s].uploaded = run[s].uploaded
      /\ \A s \in Runs \ {r} : run'[s] = run[s]
  BY <1>2 DEF TypeOK
<1>4. tx' \in [by : Runs \cup {Nobody}, state : {"none", "open", "rollingBack", "committing"}]
      /\ tx # NoTx
  BY <1>1, <1>2 DEF NoTx, Has
<1>5. TypeOK'
  BY <1>2, <1>3, <1>4 DEF TypeOK
<1>6. \A s \in Runs \ {r} : ~ Has(s)
  BY <1>2 DEF Has
<1>7. (Owned /\ OneTree /\ Undoubted)'
  BY <1>2, <1>3, <1>4 DEF Owned, OneTree, Undoubted, Committed
<1>8. \A s \in Runs : Placed(s)'
  BY <1>2, <1>3, <1>6 DEF Placed, Files, Committed
<1> QED
  BY <1>5, <1>7, <1>8

LEMMA ServerEndsKeeps == ASSUME IInv, ServerEnds PROVE IInv'
<1> USE DEF IInv
<1>1. /\ tx.state \in {"committing", "rollingBack"} /\ tx' = NoTx
      /\ UNCHANGED <<backup, objects, run, faults, doubted>> /\ tx # NoTx
  BY DEF ServerEnds, NoTx
<1>2. tx' \in [by : Runs \cup {Nobody}, state : {"none", "open", "rollingBack", "committing"}]
      /\ tx'.state = "none"
  BY <1>1 DEF NoTx
<1>3. media' \in {media, Restored} /\ (tx.state = "rollingBack" => media' = media)
  BY DEF ServerEnds
<1>4. TypeOK'
  BY <1>1, <1>2, <1>3, RestoredIsCommitted DEF TypeOK
<1>5. Committed => Committed'
  BY <1>1 DEF OneTree
<1>6. \A s \in Runs : ~ Has(s)
  BY <1>1 DEF Has
<1>7. (Owned /\ OneTree)'
  BY <1>1 DEF Owned, OneTree
<1>8. Undoubted'
  BY <1>1, <1>2, <1>3 DEF Undoubted, Committed
<1>9. \A s \in Runs : Placed(s)'
  BY <1>1, <1>5, <1>6 DEF Placed, Files
<1> QED
  BY <1>4, <1>7, <1>8, <1>9

LEMMA DeleteObjectKeeps ==
  ASSUME IInv, NEW r \in Runs, NEW a \in Assets, DeleteObject(r, a)
  PROVE  IInv'
<1> USE DEF IInv
<1>1. /\ run[r].pc = "cleanup" /\ a \in run[r].uploaded
      /\ run' = [run EXCEPT ![r].uploaded = @ \ {a}]
      /\ objects' \in {objects, [objects EXCEPT ![a] = Nobody]}
      /\ faults' \in 0 .. MaxFaults /\ UNCHANGED <<backup, media, tx, doubted>>
  BY RestoreAssumption DEF DeleteObject, At, NextToDelete, Fault, TypeOK
<1>2. /\ run' \in [Runs -> [pc : {"insert", "upload", "records", "commit", "check", "rollback",
                              "cleanup", "done", "failed"}, uploaded : SUBSET Assets]]
      /\ run'[r].pc = "cleanup" /\ run'[r].uploaded = run[r].uploaded \ {a}
      /\ \A s \in Runs \ {r} : run'[s] = run[s]
  BY <1>1 DEF TypeOK
<1>3. objects' \in [Assets -> Runs \cup {Nobody}]
      /\ \A b \in Assets \ {a} : objects'[b] = objects[b]
  BY <1>1 DEF TypeOK
<1>4. \A s \in Runs \ {r} : a \notin run[s].uploaded
  BY <1>1 DEF Owned
<1>5. TypeOK'
  BY <1>1, <1>2, <1>3 DEF TypeOK
<1>6. Owned'
  BY <1>2, <1>3, <1>4 DEF Owned, TypeOK
<1>7. (OneTree /\ Undoubted)'
  BY <1>1, <1>2 DEF OneTree, Undoubted, Committed
<1>8. \A s \in Runs : Placed(s)'
  BY <1>1, <1>2 DEF Placed, Has, Files, Committed
<1> QED
  BY <1>5, <1>6, <1>7, <1>8

----------------------------------------------------------------------------
(* Theorems *)

LEMMA StepIInv == IInv /\ [Next]_vars => IInv'
<1> SUFFICES ASSUME IInv, [Next]_vars PROVE IInv'
  OBVIOUS
<1>1. ASSUME NEW r \in Runs, Step(r) PROVE IInv'
  <2>0. /\ faults \in 0 .. MaxFaults /\ (Fault => faults' \in 0 .. MaxFaults) /\ Placed(r)
        /\ run \in [Runs -> [pc : {"insert", "upload", "records", "commit", "check", "rollback",
                              "cleanup", "done", "failed"}, uploaded : SUBSET Assets]]
    BY RestoreAssumption DEF IInv, TypeOK, Fault
  <2>1. CASE InsertTree(r) \/ PutObject(r) \/ PutFails(r)
    BY <2>1, InsertTreeKeeps, PutObjectKeeps, PutFailsKeeps
  <2>2. CASE AllPut(r)
    <3>1. /\ Goto(r, "records") /\ UNCHANGED <<backup, media, objects, tx, faults, doubted>>
          /\ Has(r) /\ Files \subseteq run[r].uploaded /\ run[r].pc # "done"
      BY <2>0, <2>2 DEF AllPut, At, Placed
    <3> QED
      BY <2>0, <3>1, MoveKeeps
  <2>3. CASE RestoreRecords(r)
    <3>1. /\ Goto(r, "commit") \/ Goto(r, "rollback")
          /\ UNCHANGED <<backup, media, objects, tx, doubted>> /\ faults' \in 0 .. MaxFaults
          /\ Has(r) /\ Files \subseteq run[r].uploaded /\ run[r].pc # "done"
      BY <2>0, <2>3 DEF RestoreRecords, At, Placed
    <3> QED
      BY <3>1, MoveKeeps
  <2>4. CASE Commit(r) \/ CommitFails(r)
    BY <2>4, CommitKeeps, CommitFailsKeeps
  <2>5. CASE RestoreCommitted(r)
    <3>1. /\ (Goto(r, "done") /\ Committed) \/ Goto(r, "cleanup")
          /\ UNCHANGED <<backup, media, objects, tx, faults, doubted>>
          /\ Files \subseteq run[r].uploaded /\ run[r].pc # "done"
      BY <2>0, <2>5 DEF RestoreCommitted, At, Placed
    <3> QED
      BY <2>0, <3>1, MoveKeeps
  <2>6. CASE CheckFails(r) \/ CleanedUp(r)
    <3>1. /\ Goto(r, "cleanup") \/ Goto(r, "failed")
          /\ UNCHANGED <<backup, media, objects, tx, doubted>> /\ faults' \in 0 .. MaxFaults
          /\ run[r].pc # "done"
      BY <2>0, <2>6 DEF CheckFails, CleanedUp, At
    <3> QED
      BY <3>1, MoveKeeps
  <2>7. CASE Rollback(r)
    <3>1. /\ Has(r) /\ run[r].pc # "done" /\ UNCHANGED <<backup, media, objects, doubted>>
          /\ tx' \in {NoTx, [by |-> r, state |-> "rollingBack"]} /\ faults' \in 0 .. MaxFaults
      BY <2>0, <2>7 DEF Rollback, At, Placed
    <3>2. run' = [run EXCEPT ![r] = [pc |-> "cleanup", uploaded |-> run[r].uploaded]]
      <4>1. run[r] = [pc |-> run[r].pc, uploaded |-> run[r].uploaded]
        BY <2>0
      <4>2. [run[r] EXCEPT !.pc = "cleanup"] = [pc |-> "cleanup", uploaded |-> run[r].uploaded]
        BY <4>1
      <4>3. run' = [run EXCEPT ![r] = [run[r] EXCEPT !.pc = "cleanup"]]
        BY <2>7 DEF Rollback, Goto
      <4> QED
        BY <4>2, <4>3
    <3> QED
      BY <3>1, <3>2, LeaveKeeps
  <2>8. CASE \E a \in Assets : DeleteObject(r, a)
    BY <2>8, DeleteObjectKeeps
  <2>9. CASE Crash(r)
    <3>1. /\ run' = [run EXCEPT ![r] = [pc |-> "failed", uploaded |-> {}]]
          /\ run[r].pc # "done" /\ UNCHANGED <<backup, media, objects, doubted>>
          /\ faults' \in 0 .. MaxFaults
      BY <2>0, <2>9 DEF Crash, At
    <3>2. tx' = tx \/ (Has(r) /\ tx' \in {NoTx, [by |-> r, state |-> "rollingBack"]})
      BY <2>9 DEF Crash, Has
    <3> QED
      BY <3>1, <3>2, LeaveKeeps
  <2> QED
    BY <1>1, <2>1, <2>2, <2>3, <2>4, <2>5, <2>6, <2>7, <2>8, <2>9 DEF Step
<1>2. CASE ServerEnds
  BY <1>2, ServerEndsKeeps
<1>3. CASE UNCHANGED vars
  BY <1>3 DEF vars, IInv, TypeOK, Owned, OneTree, Undoubted, Placed, Has, Files, Committed
<1> QED
  BY <1>1, <1>2, <1>3 DEF Next

LEMMA InvariantHolds == Spec => []IInv
BY InitIInv, StepIInv, PTL DEF Spec

\* Type correctness of the tree, the objects, the transaction and the runs.
THEOREM RestoreTypeCorrect == Spec => []TypeOK
<1>1. IInv => TypeOK
  BY DEF IInv
<1> QED
  BY <1>1, InvariantHolds, PTL

\* For any number of runs and failures: a run that reports success has restored the tree, and
\* every file is the one it put.
THEOREM SuccessIsOwnHolds == Spec => []SuccessIsOwn
<1>1. IInv => SuccessIsOwn
  BY DEF IInv, SuccessIsOwn, Placed, Owned, At
<1> QED
  BY <1>1, InvariantHolds, PTL

\* For any number of runs and failures, as long as every COMMIT is answered: a tree that is
\* restored has all of its files.
THEOREM CompleteUnlessDoubtedHolds == Spec => []CompleteUnlessDoubted
<1>1. IInv => CompleteUnlessDoubted
  BY RestoreAssumption
     DEF IInv, CompleteUnlessDoubted, CommittedTreeIsComplete, Undoubted, Placed, Owned
<1> QED
  BY <1>1, InvariantHolds, PTL

\* The compensation of a failed run deletes no object of another run.
THEOREM CompensatesOwnObjectsHolds == Spec => CompensatesOwnObjects
<1>1. IInv => DeletesOwnObject
  BY DEF IInv, Owned, DeletesOwnObject, DeleteObject, NextToDelete
<1> QED
  BY <1>1, InvariantHolds, PTL DEF CompensatesOwnObjects

-----------------------------------------------------------------------------
(* Migrations *)

\* The instance has the same finite sets.
LEMMA MigrationsFinite ==
  ASSUME NEW S
  PROVE  (M!IsFiniteSet(S) <=> IsFiniteSet(S)) /\ M!Cardinality(S) = Cardinality(S)
<1>1. M!IsFiniteSet(S) <=> IsFiniteSet(S)
  BY DEF M!IsFiniteSet, IsFiniteSet
<1>2. M!Cardinality(S) = Cardinality(S)
  BY DEF M!Cardinality, Cardinality
<1> QED  BY <1>1, <1>2

MigratorState ==
  [pc : {"idle", "lock", "load", "validate", "work", "commit"},
   action : {"none", "up", "down"}, build : {{}} \cup {M!Of(b) : b \in Builds},
   steps : 0 .. M!Cardinality(Versions), loaded : SUBSET M!Migration,
   up : SUBSET M!Migration, down : SUBSET M!Migration]

Working(d) == deployer[d].pc \in {"load", "validate", "work", "commit"}

\* A run has a build, and while it holds the lock it knows what is applied; what it applies or
\* undoes is of its build.
MigratorMeant(d) ==
  LET x == deployer[d]
  IN /\ Working(d) <=> lock = d
     /\ x.pc # "idle" => (\E b \in Builds : x.build = M!Of(b)) /\ x.action \in {"up", "down"}
     /\ x.pc \in {"validate", "work", "commit"} => x.loaded = applied
     /\ x.pc \in {"lock", "load", "validate"} => x.up = {} /\ x.down = {}
     /\ x.pc \in {"work", "commit"} =>
          /\ x.loaded \subseteq x.build
          /\ x.action = "up" => x.up \subseteq x.build /\ x.down = {}
          /\ x.action = "down" => x.down \subseteq x.loaded /\ x.up = {}
     /\ x.pc = "commit" /\ x.action = "up" => M!Missing(d) = {}

\* The migrations that a run has undone are the last ones.
UndoesLast(d) ==
  \A m \in deployer[d].loaded, n \in deployer[d].down :
    n.version < m.version => m \in deployer[d].down

MigrationsInv ==
  /\ M!TypeOK /\ M!AtSomeVersionOfABuild
  /\ \A d \in Deployers :
       MigratorMeant(d) /\ (deployer[d].pc \in {"work", "commit"} => UndoesLast(d))

\* A build has one migration for each of its versions.
LEMMA BuildMeant ==
  ASSUME M!MigrationsAssumption, NEW b \in Builds
  PROVE  /\ M!Of(b) \subseteq M!Migration
         /\ \A m, n \in M!Of(b) : m.version = n.version => m = n
         /\ \A m \in M!Of(b) : m.version \in Nat /\ m.version \in DOMAIN b
         /\ \A v \in DOMAIN b : v \in Nat /\ \E m \in M!Of(b) : m.version = v
<1>1. DOMAIN b \subseteq Versions /\ Versions \subseteq Nat
  BY DEF M!MigrationsAssumption
<1>2. \A v \in DOMAIN b : [version |-> v, checksum |-> b[v]] \in M!Migration
  BY <1>1 DEF M!Migration
<1>3. ASSUME NEW m \in M!Of(b)
      PROVE  \E v \in DOMAIN b : m = [version |-> v, checksum |-> b[v]] /\ m.version = v
  BY DEF M!Of
<1>4. ASSUME NEW m \in M!Of(b), NEW n \in M!Of(b), m.version = n.version  PROVE m = n
  BY <1>3, <1>4
<1>5. \A m \in M!Of(b) : m.version \in DOMAIN b /\ m \in M!Migration
  BY <1>2, <1>3
<1>6. ASSUME NEW v \in DOMAIN b  PROVE v \in Nat /\ \E m \in M!Of(b) : m.version = v
  <2>1. [version |-> v, checksum |-> b[v]] \in M!Of(b)
    BY DEF M!Of
  <2> QED  BY <1>1, <2>1
<1> QED  BY <1>1, <1>4, <1>5, <1>6

\* The last of the records that may still be undone.
LEMMA GreatestMeant ==
  ASSUME M!MigrationsAssumption, NEW S, S \subseteq M!Migration, S # {}
  PROVE  M!Greatest(S) \in S /\ \A n \in S : n.version <= M!Greatest(S).version
<1> DEFINE numbers == {m.version : m \in S}
<1>1. numbers \subseteq Versions /\ numbers # {}
  BY DEF M!Migration
<1>2. numbers \subseteq Nat /\ IsFiniteSet(numbers)
  BY <1>1, FS_Subset, MigrationsFinite DEF M!MigrationsAssumption
<1>3. PICK v \in numbers : \A w \in numbers : w <= v
  BY <1>1, <1>2, GreatestNatural
<1>4. PICK m \in S : m.version = v
  OBVIOUS
<1>5. \A n \in S : n.version <= m.version
  BY <1>3, <1>4
<1> QED  BY <1>5 DEF M!Greatest

\* A step of one run that leaves the database alone.
LEMMA MigratorStep ==
  ASSUME M!MigrationsAssumption, MigrationsInv,
         NEW d \in Deployers, NEW x, deployer' = [deployer EXCEPT ![d] = x],
         UNCHANGED <<schema, applied>>,
         lock' \in {lock, d, NoOne},
         lock' = NoOne => lock \in {d, NoOne}, lock' = d => lock \in {d, NoOne},
         x \in MigratorState,
         MigratorMeant(d)', x.pc \in {"work", "commit"} => UndoesLast(d)'
  PROVE  MigrationsInv'
<1>1. deployer'[d] = x /\ \A e \in Deployers : e # d => deployer'[e] = deployer[e]
  BY DEF MigrationsInv, M!TypeOK
<1>2. NoOne \notin Deployers /\ lock' \in Deployers \cup {NoOne}
  BY DEF M!MigrationsAssumption, MigrationsInv, M!TypeOK
<1>3. M!TypeOK'
  BY <1>2 DEF MigrationsInv, M!TypeOK, MigratorState
<1>4. ASSUME NEW e \in Deployers, e # d
      PROVE  MigratorMeant(e)' /\ (deployer'[e].pc \in {"work", "commit"} => UndoesLast(e)')
  <2>1. deployer'[e] = deployer[e]
    BY <1>1, <1>4
  <2>2. lock' = e <=> lock = e
    BY <1>2, <1>4
  <2>3. MigratorMeant(e) /\ (deployer[e].pc \in {"work", "commit"} => UndoesLast(e))
    BY DEF MigrationsInv
  <2> QED  BY <2>1, <2>2, <2>3
           DEF MigratorMeant, Working, UndoesLast, M!Missing, M!Versioned
<1>5. M!AtSomeVersionOfABuild'
  BY DEF MigrationsInv, M!AtSomeVersionOfABuild, M!Versioned
<1>6. MigratorMeant(d)' /\ (deployer'[d].pc \in {"work", "commit"} => UndoesLast(d)')
  BY <1>1
<1> QED  BY <1>3, <1>4, <1>5, <1>6 DEF MigrationsInv

LEMMA MigratorTypes ==
  ASSUME M!MigrationsAssumption, MigrationsInv, NEW d \in Deployers
  PROVE  /\ deployer[d] \in MigratorState
         /\ applied \subseteq M!Migration /\ schema = applied
         /\ lock \in Deployers \cup {NoOne} /\ d # NoOne
         /\ M!Idle \in MigratorState /\ M!Idle.pc = "idle"
<1>1. M!Idle \in MigratorState /\ M!Idle.pc = "idle"
  <2>1. 0 \in 0 .. M!Cardinality(Versions)
    BY MigrationsFinite, FS_CardinalityType DEF M!MigrationsAssumption
  <2> QED  BY <2>1 DEF M!Idle, MigratorState
<1> QED  BY <1>1 DEF MigrationsInv, M!TypeOK, M!AtSomeVersionOfABuild, MigratorState,
                    M!MigrationsAssumption

LEMMA MigratorFails ==
  ASSUME M!MigrationsAssumption, MigrationsInv, NEW d \in Deployers, M!Fail(d)
  PROVE  MigrationsInv'
<1>1. /\ deployer' = [deployer EXCEPT ![d] = M!Idle] /\ UNCHANGED <<schema, applied>>
      /\ lock' = IF lock = d THEN NoOne ELSE lock
  BY DEF M!Fail
<1>2. M!Idle \in MigratorState /\ M!Idle.pc = "idle" /\ d # NoOne
  BY MigratorTypes
<1>3. deployer'[d] = M!Idle
  BY <1>1 DEF MigrationsInv, M!TypeOK
<1>4. MigratorMeant(d)'
  BY <1>1, <1>2, <1>3 DEF MigratorMeant, Working
<1> HIDE DEF M!Idle
<1> QED  BY <1>1, <1>2, <1>4, MigratorStep

LEMMA BeginMigration ==
  ASSUME M!MigrationsAssumption, MigrationsInv, NEW d \in Deployers, M!Begin(d)
  PROVE  MigrationsInv'
<1>1. PICK b \in Builds, action \in {"up", "down"}, steps \in 0 .. M!Cardinality(Versions) :
        /\ (action = "up") = (steps = 0)
        /\ deployer' = [deployer EXCEPT ![d] = [M!Idle EXCEPT !.pc = "lock", !.action = action,
                                                   !.build = M!Of(b), !.steps = steps]]
  BY DEF M!Begin
<1> DEFINE x == [M!Idle EXCEPT !.pc = "lock", !.action = action, !.build = M!Of(b), !.steps = steps]
<1>2. x \in MigratorState /\ x.pc = "lock" /\ x.action = action /\ x.build = M!Of(b)
      /\ x.up = {} /\ x.down = {}
  BY DEF MigratorState, M!Idle
<1>3. UNCHANGED <<schema, applied, lock>> /\ deployer[d].pc = "idle"
  BY DEF M!Begin, M!At
<1>4. deployer'[d] = x
  BY <1>1 DEF MigrationsInv, M!TypeOK
<1>5. lock # d
  BY <1>3 DEF MigrationsInv, MigratorMeant, Working
<1> HIDE DEF x
<1>6. MigratorMeant(d)'
  BY <1>2, <1>3, <1>4, <1>5 DEF MigratorMeant, Working
<1> QED  BY <1>1, <1>2, <1>3, <1>6, MigratorStep DEF x

LEMMA AcquireMigrationLock ==
  ASSUME M!MigrationsAssumption, MigrationsInv, NEW d \in Deployers, M!AcquireLock(d)
  PROVE  MigrationsInv'
<1> DEFINE x == [deployer[d] EXCEPT !.pc = "load"]
<1>1. deployer' = [deployer EXCEPT ![d] = x] /\ UNCHANGED <<schema, applied>> /\ lock' = d
      /\ lock = NoOne /\ deployer[d].pc = "lock"
  BY DEF M!AcquireLock, M!LockFree, M!At
<1>2. deployer[d] \in MigratorState /\ MigratorMeant(d)
  BY MigratorTypes DEF MigrationsInv
<1>3. x \in MigratorState /\ x.pc = "load" /\ x.action = deployer[d].action
      /\ x.build = deployer[d].build /\ x.up = deployer[d].up /\ x.down = deployer[d].down
  BY <1>2 DEF MigratorState
<1>4. deployer'[d] = x
  BY <1>1 DEF MigrationsInv, M!TypeOK
<1> HIDE DEF x
<1>5. MigratorMeant(d)'
  BY <1>1, <1>2, <1>3, <1>4 DEF MigratorMeant, Working
<1> QED  BY <1>1, <1>3, <1>5, MigratorStep

LEMMA LoadAppliedStep ==
  ASSUME M!MigrationsAssumption, MigrationsInv, NEW d \in Deployers, M!LoadApplied(d)
  PROVE  MigrationsInv'
<1> DEFINE x == [deployer[d] EXCEPT !.loaded = applied, !.pc = "validate"]
<1>1. deployer' = [deployer EXCEPT ![d] = x] /\ UNCHANGED <<schema, applied, lock>>
      /\ deployer[d].pc = "load"
  BY DEF M!LoadApplied, M!At
<1>2. deployer[d] \in MigratorState /\ MigratorMeant(d) /\ applied \in SUBSET M!Migration
  BY MigratorTypes DEF MigrationsInv
<1>3. x \in MigratorState /\ x.pc = "validate" /\ x.action = deployer[d].action /\ x.loaded = applied
      /\ x.build = deployer[d].build /\ x.up = deployer[d].up /\ x.down = deployer[d].down
  BY <1>2 DEF MigratorState
<1>4. deployer'[d] = x
  BY <1>1 DEF MigrationsInv, M!TypeOK
<1> HIDE DEF x
<1>5. MigratorMeant(d)'
  BY <1>1, <1>2, <1>3, <1>4 DEF MigratorMeant, Working
<1> QED  BY <1>1, <1>3, <1>5, MigratorStep

LEMMA ValidateAppliedStep ==
  ASSUME M!MigrationsAssumption, MigrationsInv, NEW d \in Deployers, M!ValidateApplied(d)
  PROVE  MigrationsInv'
<1>1. CASE M!Fail(d)
  BY <1>1, MigratorFails
<1>2. CASE ~ M!Fail(d)
  <2> DEFINE x == [deployer[d] EXCEPT !.pc = "work"]
  <2>1. deployer' = [deployer EXCEPT ![d] = x] /\ UNCHANGED <<schema, applied, lock>>
        /\ deployer[d].pc = "validate" /\ deployer[d].loaded \subseteq deployer[d].build
    BY <1>2 DEF M!ValidateApplied, M!At, M!Known
  <2>2. deployer[d] \in MigratorState /\ MigratorMeant(d)
    BY MigratorTypes DEF MigrationsInv
  <2>3. x \in MigratorState /\ x.pc = "work" /\ x.action = deployer[d].action
        /\ x.loaded = deployer[d].loaded
        /\ x.build = deployer[d].build /\ x.up = deployer[d].up /\ x.down = deployer[d].down
    BY <2>2 DEF MigratorState
  <2>4. deployer'[d] = x
    BY <2>1 DEF MigrationsInv, M!TypeOK
  <2> HIDE DEF x
  <2>5. MigratorMeant(d)'
    BY <2>1, <2>2, <2>3, <2>4 DEF MigratorMeant, Working
  <2>6. UndoesLast(d)'
    BY <2>1, <2>2, <2>3, <2>4 DEF MigratorMeant, UndoesLast
  <2> QED  BY <2>1, <2>3, <2>5, <2>6, MigratorStep
<1> QED  BY <1>1, <1>2

\* At work the loaded migrations are those of the database, and of the run's build.
LEMMA AtWork ==
  ASSUME M!MigrationsAssumption, MigrationsInv, NEW d \in Deployers,
         deployer[d].pc \in {"work", "commit"}
  PROVE  /\ \E b \in Builds : deployer[d].build = M!Of(b)
         /\ deployer[d].build \subseteq M!Migration
         /\ \A m, n \in deployer[d].build : m.version = n.version => m = n
         /\ deployer[d].loaded = applied /\ applied \subseteq deployer[d].build
         /\ lock = d /\ deployer[d].action \in {"up", "down"}
<1>1. MigratorMeant(d)
  BY DEF MigrationsInv
<1>2. PICK b \in Builds : deployer[d].build = M!Of(b)
  BY <1>1 DEF MigratorMeant
<1>3. M!Of(b) \subseteq M!Migration /\ \A m, n \in M!Of(b) : m.version = n.version => m = n
  BY BuildMeant
<1> QED  BY <1>1, <1>2, <1>3 DEF MigratorMeant, Working

LEMMA ApplyUpStep ==
  ASSUME M!MigrationsAssumption, MigrationsInv, NEW d \in Deployers, M!ApplyUp(d)
  PROVE  MigrationsInv'
<1> DEFINE m == M!Least(M!Missing(d))
           x == [deployer[d] EXCEPT !.up = @ \cup {m}]
<1>1. deployer' = [deployer EXCEPT ![d] = x] /\ UNCHANGED <<schema, applied, lock>>
      /\ deployer[d].pc = "work" /\ deployer[d].action = "up" /\ M!Missing(d) # {}
  BY DEF M!ApplyUp, M!At
<1>2. deployer[d] \in MigratorState /\ MigratorMeant(d)
  BY MigratorTypes DEF MigrationsInv
<1>3. M!Missing(d) \subseteq deployer[d].build /\ deployer[d].build \subseteq M!Migration
  BY <1>1, AtWork DEF M!Missing
<1>4. m \in M!Missing(d)
  <2> DEFINE numbers == {n.version : n \in M!Missing(d)}
  <2>1. numbers \subseteq Versions /\ numbers # {}
    BY <1>1, <1>3 DEF M!Migration
  <2>2. numbers \subseteq Nat
    BY <2>1 DEF M!MigrationsAssumption
  <2>3. PICK v \in numbers : \A w \in numbers : v <= w
    BY <2>1, <2>2, LeastNatural
  <2>4. \E n \in M!Missing(d) : \A k \in M!Missing(d) : n.version <= k.version
    <3>1. PICK n \in M!Missing(d) : n.version = v
      OBVIOUS
    <3>2. \A k \in M!Missing(d) : n.version <= k.version
      BY <2>3, <3>1
    <3> QED  BY <3>2
  <2> QED  BY <2>4 DEF M!Least
<1> HIDE DEF m
<1>5. x \in MigratorState /\ x.pc = "work" /\ x.action = "up" /\ x.loaded = deployer[d].loaded
      /\ x.build = deployer[d].build /\ x.up = deployer[d].up \cup {m} /\ x.down = deployer[d].down
  BY <1>1, <1>2, <1>3, <1>4 DEF MigratorState
<1>6. deployer'[d] = x
  BY <1>1 DEF MigrationsInv, M!TypeOK
<1> HIDE DEF x
<1>7. MigratorMeant(d)'
  BY <1>1, <1>2, <1>3, <1>4, <1>5, <1>6 DEF MigratorMeant, Working
<1>8. UndoesLast(d)'
  BY <1>1, <1>2, <1>5, <1>6 DEF MigratorMeant, UndoesLast
<1> QED  BY <1>1, <1>5, <1>7, <1>8, MigratorStep

LEMMA ApplyDownStep ==
  ASSUME M!MigrationsAssumption, MigrationsInv, NEW d \in Deployers, M!ApplyDown(d)
  PROVE  MigrationsInv'
<1> DEFINE top == M!Greatest(M!Undoable(d))
<1>1. PICK m \in deployer[d].build :
        /\ m.version = top.version
        /\ deployer' = [deployer EXCEPT ![d].down = @ \cup {m}]
  BY DEF M!ApplyDown
<1> DEFINE x == [deployer[d] EXCEPT !.down = @ \cup {m}]
<1>2. deployer' = [deployer EXCEPT ![d] = x] /\ UNCHANGED <<schema, applied, lock>>
      /\ deployer[d].pc = "work" /\ deployer[d].action = "down" /\ M!Undoable(d) # {}
  BY <1>1 DEF M!ApplyDown, M!At
<1>3. deployer[d] \in MigratorState /\ MigratorMeant(d) /\ UndoesLast(d)
  BY <1>2, MigratorTypes DEF MigrationsInv
<1>4. /\ M!Undoable(d) \subseteq deployer[d].loaded
      /\ deployer[d].loaded \subseteq deployer[d].build /\ deployer[d].build \subseteq M!Migration
      /\ \A p, q \in deployer[d].build : p.version = q.version => p = q
  BY <1>2, AtWork DEF M!Undoable
<1>5. top \in M!Undoable(d) /\ \A n \in M!Undoable(d) : n.version <= top.version
  BY <1>2, <1>4, GreatestMeant
<1> HIDE DEF top
<1>6. m = top /\ m \in deployer[d].loaded
  BY <1>1, <1>4, <1>5
<1>7. x \in MigratorState /\ x.pc = "work" /\ x.action = "down" /\ x.loaded = deployer[d].loaded
      /\ x.build = deployer[d].build /\ x.up = deployer[d].up /\ x.down = deployer[d].down \cup {m}
  BY <1>2, <1>3, <1>4 DEF MigratorState
<1>8. deployer'[d] = x
  BY <1>2 DEF MigrationsInv, M!TypeOK
<1> HIDE DEF x
<1>9. MigratorMeant(d)'
  BY <1>2, <1>3, <1>6, <1>7, <1>8 DEF MigratorMeant, Working
<1>10. UndoesLast(d)'
  <2> SUFFICES ASSUME NEW p \in deployer[d].loaded, NEW n \in deployer[d].down \cup {m},
                      n.version < p.version
               PROVE  p \in deployer[d].down \cup {m}
    BY <1>7, <1>8 DEF UndoesLast
  <2>1. CASE n \in deployer[d].down
    BY <1>3, <2>1 DEF UndoesLast
  <2>2. CASE n = m
    <3>5. p \in M!Migration /\ m \in M!Migration
      BY <1>4, <1>6
    <3>6. p.version \in Versions /\ m.version \in Versions
      BY <3>5 DEF M!Migration
    <3>7. p.version \in Nat /\ m.version \in Nat /\ m.version < p.version
      BY <2>2, <3>6 DEF M!MigrationsAssumption
    <3>1. ~ (p.version <= m.version)
      BY <3>7
    <3>2. p \notin M!Undoable(d)
      BY <1>5, <1>6, <3>1
    <3>3. PICK q \in deployer[d].down : q.version = p.version
      BY <3>2 DEF M!Undoable, M!Versioned
    <3>4. q \in deployer[d].loaded
      BY <1>2, <1>3 DEF MigratorMeant
    <3> QED  BY <1>4, <3>3, <3>4
  <2> QED  BY <2>1, <2>2
<1> QED  BY <1>2, <1>7, <1>9, <1>10, MigratorStep

LEMMA WorkedStep ==
  ASSUME M!MigrationsAssumption, MigrationsInv, NEW d \in Deployers, M!Worked(d)
  PROVE  MigrationsInv'
<1> DEFINE x == [deployer[d] EXCEPT !.pc = "commit"]
<1>1. deployer' = [deployer EXCEPT ![d] = x] /\ UNCHANGED <<schema, applied, lock>>
      /\ deployer[d].pc = "work" /\ (deployer[d].action = "up" => M!Missing(d) = {})
  BY DEF M!Worked, M!At
<1>2. deployer[d] \in MigratorState /\ MigratorMeant(d) /\ UndoesLast(d)
  BY <1>1, MigratorTypes DEF MigrationsInv
<1>3. x \in MigratorState /\ x.pc = "commit" /\ x.action = deployer[d].action
      /\ x.loaded = deployer[d].loaded
      /\ x.build = deployer[d].build /\ x.up = deployer[d].up /\ x.down = deployer[d].down
  BY <1>2 DEF MigratorState
<1>4. deployer'[d] = x
  BY <1>1 DEF MigrationsInv, M!TypeOK
<1> HIDE DEF x
<1>5. M!Missing(d)' = M!Missing(d)
  BY <1>3, <1>4 DEF M!Missing
<1>6. MigratorMeant(d)'
  BY <1>1, <1>2, <1>3, <1>4, <1>5 DEF MigratorMeant, Working
<1>7. UndoesLast(d)'
  BY <1>2, <1>3, <1>4 DEF UndoesLast
<1> QED  BY <1>1, <1>3, <1>6, <1>7, MigratorStep

\* A commit of an Up leaves all migrations of its build, a commit of a Down those that were there
\* without the last ones.
LEMMA CommitMigrations ==
  ASSUME M!MigrationsAssumption, MigrationsInv, NEW d \in Deployers, M!Commit(d)
  PROVE  M!AtSomeVersionOfABuild' /\ applied' \subseteq M!Migration
<1> DEFINE x == deployer[d]
<1>1. /\ x.pc = "commit"
      /\ schema' = (schema \cup x.up) \ x.down
      /\ applied' = {m \in applied : m.version \notin M!Versioned(x.down)} \cup x.up
  BY DEF M!Commit, M!At
<1>2. MigratorMeant(d) /\ UndoesLast(d) /\ schema = applied
  BY <1>1 DEF MigrationsInv, M!AtSomeVersionOfABuild
<1>3. /\ x.build \subseteq M!Migration
      /\ \A m, n \in x.build : m.version = n.version => m = n
      /\ x.loaded = applied /\ applied \subseteq x.build /\ x.action \in {"up", "down"}
  BY <1>1, AtWork
<1>4. PICK b \in Builds : x.build = M!Of(b)
  BY <1>1, AtWork
<1>5. CASE x.action = "up"
  <2>1. x.up \subseteq x.build /\ x.down = {} /\ M!Missing(d) = {}
    BY <1>1, <1>2, <1>5 DEF MigratorMeant
  <2>2. schema' = applied \cup x.up /\ applied' = applied \cup x.up
    BY <1>1, <1>2, <2>1 DEF M!Versioned
  <2>3. ASSUME NEW m \in x.build  PROVE m \in applied'
    <3>1. m.version \in M!Versioned(x.loaded) \cup M!Versioned(x.up)
      BY <2>1 DEF M!Missing
    <3>2. PICK n \in x.loaded \cup x.up : n.version = m.version
      BY <3>1 DEF M!Versioned
    <3> QED  BY <3>2, <2>1, <2>2, <1>3
  <2>4. applied' = M!Of(b)
    BY <1>3, <1>4, <2>1, <2>2, <2>3
  <2>5. \A v \in DOMAIN b : \E m \in M!Of(b) : m.version = v
    BY BuildMeant
  <2>6. \A w \in DOMAIN b : w \in M!Versioned(applied')
    BY <2>4, <2>5 DEF M!Versioned
  <2>7. M!AtSomeVersionOfABuild'
    BY <2>2, <2>4, <2>6 DEF M!AtSomeVersionOfABuild, M!Versioned
  <2> QED  BY <1>3, <1>4, <2>4, <2>7
<1>6. CASE x.action = "down"
  <2>1. x.down \subseteq applied /\ x.up = {}
    BY <1>1, <1>2, <1>3, <1>6 DEF MigratorMeant
  <2>2. \A m \in applied : m.version \in M!Versioned(x.down) <=> m \in x.down
    BY <1>3, <2>1 DEF M!Versioned
  <2>3. schema' = applied \ x.down /\ applied' = applied \ x.down
    BY <1>1, <1>2, <2>1, <2>2
  <2>4. PICK old \in Builds :
          /\ applied \subseteq M!Of(old)
          /\ \A v, w \in DOMAIN old :
               w < v /\ v \in M!Versioned(applied) => w \in M!Versioned(applied)
    BY DEF MigrationsInv, M!AtSomeVersionOfABuild
  <2>5. ASSUME NEW v \in DOMAIN old, NEW w \in DOMAIN old, w < v, v \in M!Versioned(applied')
        PROVE  w \in M!Versioned(applied')
    <3>1. PICK m \in applied : m \notin x.down /\ m.version = v
      BY <2>3, <2>5 DEF M!Versioned
    <3>2. v \in M!Versioned(applied)
      BY <3>1 DEF M!Versioned
    <3>3. PICK n \in applied : n.version = w
      BY <2>4, <2>5, <3>2 DEF M!Versioned
    <3>4. n \notin x.down
      BY <1>2, <1>3, <2>5, <3>1, <3>3 DEF UndoesLast
    <3> QED  BY <2>3, <3>3, <3>4 DEF M!Versioned
  <2>6. M!AtSomeVersionOfABuild'
    BY <2>3, <2>4, <2>5 DEF M!AtSomeVersionOfABuild, M!Versioned
  <2> QED  BY <1>3, <2>3, <2>6
<1> QED  BY <1>3, <1>5, <1>6

LEMMA CommitStepOfMigrations ==
  ASSUME M!MigrationsAssumption, MigrationsInv, NEW d \in Deployers, M!Commit(d)
  PROVE  MigrationsInv'
<1>1. M!AtSomeVersionOfABuild' /\ applied' \subseteq M!Migration /\ schema' = applied'
  BY CommitMigrations DEF M!AtSomeVersionOfABuild
<1>2. deployer[d].pc = "commit" /\ deployer' = [deployer EXCEPT ![d] = M!Idle]
      /\ lock' = IF lock = d THEN NoOne ELSE lock
  BY DEF M!Commit, M!At
<1>3. lock = d /\ lock' = NoOne /\ NoOne \notin Deployers
  BY <1>2, AtWork DEF M!MigrationsAssumption
<1>4. M!Idle \in MigratorState /\ M!Idle.pc = "idle"
  BY MigratorTypes
<1>5. deployer'[d] = M!Idle /\ \A e \in Deployers : e # d => deployer'[e] = deployer[e]
  BY <1>2 DEF MigrationsInv, M!TypeOK
<1>6. M!TypeOK'
  BY <1>1, <1>2, <1>3, <1>4 DEF MigrationsInv, M!TypeOK, MigratorState
<1>7. MigratorMeant(d)'
  BY <1>3, <1>4, <1>5 DEF MigratorMeant, Working
<1>8. ASSUME NEW e \in Deployers, e # d
      PROVE  MigratorMeant(e)' /\ (deployer'[e].pc \in {"work", "commit"} => UndoesLast(e)')
  <2>1. deployer'[e] = deployer[e] /\ ~ Working(e)
    BY <1>3, <1>5, <1>8 DEF MigrationsInv, MigratorMeant
  <2> QED  BY <2>1, <1>3 DEF MigrationsInv, MigratorMeant, Working
<1> QED  BY <1>1, <1>4, <1>5, <1>6, <1>7, <1>8 DEF MigrationsInv

LEMMA MigrationsInvariance ==
  ASSUME M!MigrationsAssumption
  PROVE  M!Spec => []MigrationsInv
<1>1. M!Init => MigrationsInv
  <2> SUFFICES ASSUME M!Init  PROVE MigrationsInv
    OBVIOUS
  <2>1. 0 \in 0 .. M!Cardinality(Versions)
    BY MigrationsFinite, FS_CardinalityType DEF M!MigrationsAssumption
  <2>2. M!TypeOK
    BY <2>1 DEF M!Init, M!TypeOK, M!Idle
  <2>3. M!AtSomeVersionOfABuild
    BY DEF M!Init, M!AtSomeVersionOfABuild, M!Versioned, M!MigrationsAssumption
  <2>4. \A d \in Deployers : MigratorMeant(d) /\ deployer[d].pc = "idle"
    BY DEF M!Init, M!Idle, MigratorMeant, Working, M!MigrationsAssumption
  <2> QED  BY <2>2, <2>3, <2>4 DEF MigrationsInv
<1>2. MigrationsInv /\ [M!Next]_M!vars => MigrationsInv'
  <2> SUFFICES ASSUME MigrationsInv, [M!Next]_M!vars  PROVE MigrationsInv'
    OBVIOUS
  <2>1. CASE UNCHANGED M!vars
    BY <2>1 DEF M!vars, MigrationsInv, M!TypeOK, M!AtSomeVersionOfABuild, MigratorMeant, Working,
                UndoesLast, M!Missing, M!Versioned
  <2>2. ASSUME NEW d \in Deployers, M!Abort(d)  PROVE MigrationsInv'
    BY <2>2, MigratorFails DEF M!Abort
  <2>3. CASE M!Next
    BY <2>2, <2>3, BeginMigration, AcquireMigrationLock, LoadAppliedStep, ValidateAppliedStep,
       ApplyUpStep, ApplyDownStep, WorkedStep, CommitStepOfMigrations DEF M!Next
  <2> QED  BY <2>1, <2>3
<1> QED  BY <1>1, <1>2, PTL DEF M!Spec

\* For any deployers and builds: the tables are those of the records, and these a prefix of the
\* migrations of one build.
THEOREM AtSomeVersionOfABuildHolds ==
  ASSUME M!MigrationsAssumption
  PROVE  M!Spec => []AtSomeVersionOfABuild
<1>1. MigrationsInv => AtSomeVersionOfABuild
  BY DEF MigrationsInv, AtSomeVersionOfABuild
<1> QED  BY <1>1, MigrationsInvariance, PTL

-----------------------------------------------------------------------------
(* Scheduling *)

\* The interval that a moment falls into is the only one around it.
LEMMA BucketMeant ==
  ASSUME C!SchedulingAssumption, NEW t \in Nat
  PROVE  /\ C!Bucket(t) \in Nat /\ C!Bucket(t) <= t
         /\ \A k \in Nat : C!Within(t, k * Interval) => C!Bucket(t) = k * Interval
<1> DEFINE q == t \div Interval
<1>1. Interval \in Nat /\ Interval > 0
  BY DEF C!SchedulingAssumption
<1>2. q \in Nat /\ q * Interval <= t /\ t < q * Interval + Interval
  BY <1>1
<1> HIDE DEF q
<1>5. q * Interval \in Nat
  BY <1>1, <1>2
<1>3. ASSUME NEW k \in Nat, C!Within(t, k * Interval)  PROVE q = k
  <2>1. k * Interval \in Nat /\ k * Interval <= t /\ t < k * Interval + Interval
    BY <1>1, <1>3 DEF C!Within
  <2>2. ASSUME NEW m \in Nat, NEW n \in Nat, m < n  PROVE m * Interval + Interval <= n * Interval
    <3>1. n = m + 1 + (n - m - 1) /\ n - m - 1 \in Nat
      BY <2>2
    <3>2. (n - m - 1) * Interval \in Nat
      BY <3>1, <1>1
    <3>3. n * Interval = m * Interval + Interval + (n - m - 1) * Interval
      BY <3>1, <1>1
    <3>4. m * Interval \in Nat
      BY <1>1
    <3> QED  BY <3>2, <3>3, <3>4, <1>1
  <2>3. ~ (k < q)
    BY <2>1, <2>2, <1>1, <1>2, <1>5
  <2>4. ~ (q < k)
    BY <2>1, <2>2, <1>1, <1>2, <1>5
  <2> QED  BY <2>3, <2>4, <1>2
<1>4. C!Bucket(t) = q * Interval
  BY DEF C!Bucket, q
<1> QED  BY <1>2, <1>3, <1>4, <1>5

ProcessState == [pc : {"down", "booting", "enqueued", "running"}, since : Nat \cup {C!None},
                 ticker : Nat \cup {C!None}, next : Nat \cup {C!None}, tick : Nat \cup {C!None}]

\* What keeps an interval from missing its cleanup.
Provided(w, i) ==
  \/ i \in jobs
  \/ \E t \in lost : C!Within(t, i)
  \/ process[w].tick # C!None /\ C!Within(process[w].tick, i)

\* The ticks of a process that runs have come up to one interval before the next, and every interval
\* that begins between the start of the ticker and its last tick is provided for.
Ticking(w) ==
  /\ process[w].ticker \in Nat /\ process[w].next \in Nat
  /\ now < process[w].next /\ process[w].next <= now + Interval
  /\ process[w].tick # C!None => process[w].tick <= now
  /\ \A k \in Nat :
       process[w].ticker < k * Interval /\ k * Interval + Interval <= process[w].next =>
         Provided(w, k * Interval)

\* How far a process has come.
Staged(w) ==
  /\ process[w].pc # "down" => process[w].since \in Nat /\ process[w].since <= now
  /\ process[w].pc \in {"enqueued", "running"} => C!Bucket(process[w].since) \in jobs
  /\ process[w].pc # "running" => process[w].next = C!None /\ process[w].tick = C!None
  /\ process[w].pc = "running" => Ticking(w)

SchedulingInv ==
  /\ now \in Nat /\ jobs \subseteq Nat /\ lost \subseteq Nat
  /\ process \in [Processes -> ProcessState]
  /\ \A i \in jobs : i <= now
  /\ \A w \in Processes : Staged(w)

LEMMA NoneMeant == /\ C!None \notin Nat /\ C!Down \in ProcessState /\ C!Down.pc = "down"
                   /\ C!Down.next = C!None /\ C!Down.tick = C!None /\ C!Down.ticker = C!None
                   /\ [C!Down EXCEPT !.pc = "booting"] \in ProcessState
  BY DEF C!None, C!Down, ProcessState

LEMMA SchedulingInit ==
  ASSUME C!SchedulingAssumption, C!Init  PROVE SchedulingInv
<1>1. \A w \in Processes : process[w] = C!Down
  BY DEF C!Init
<1> QED  BY <1>1, NoneMeant DEF C!Init, SchedulingInv, Staged

\* Jobs and losses only grow.
LEMMA ProvidedGrows ==
  ASSUME NEW w, NEW k, Provided(w, k), jobs \subseteq jobs', lost \subseteq lost',
         process'[w].tick = process[w].tick
  PROVE  Provided(w, k)'
  BY DEF Provided, C!Within

\* What a step of another process leaves of one.
LEMMA OtherStaged ==
  ASSUME NEW w, Staged(w), jobs \subseteq jobs', lost \subseteq lost', now' = now,
         process'[w] = process[w]
  PROVE  Staged(w)'
  BY ProvidedGrows DEF Staged, Ticking, C!Bucket

\* A step of one process, which inserts no job of the future: what is left to show is how far that
\* process has come.
LEMMA OneStaged ==
  ASSUME SchedulingInv, NEW w \in Processes, NEW x \in ProcessState,
         process' = [process EXCEPT ![w] = x], now' = now, jobs \subseteq jobs',
         \A i \in jobs' : i \in jobs \/ (i \in Nat /\ i <= now),
         lost \subseteq lost', lost' \subseteq Nat, Staged(w)'
  PROVE  SchedulingInv'
<1>1. \A v \in Processes : v # w => process'[v] = process[v]
  BY DEF SchedulingInv
<1>2. \A v \in Processes : Staged(v)'
  BY <1>1, OtherStaged DEF SchedulingInv
<1>3. process' \in [Processes -> ProcessState]
  BY DEF SchedulingInv
<1>4. jobs' \subseteq Nat /\ \A j \in jobs' : j <= now'
  BY DEF SchedulingInv
<1> QED  BY <1>2, <1>3, <1>4 DEF SchedulingInv

LEMMA StartStep ==
  ASSUME C!SchedulingAssumption, SchedulingInv, NEW w \in Processes, C!Start(w)
  PROVE  SchedulingInv'
<1> DEFINE x == [C!Down EXCEPT !.pc = "booting", !.since = now]
<1>1. process' = [process EXCEPT ![w] = x] /\ now' = now /\ jobs' = jobs /\ lost' = lost
  BY DEF C!Start
<1>2. now \in Nat /\ lost \subseteq Nat
  BY DEF SchedulingInv
<1>3. x \in ProcessState /\ x.pc = "booting" /\ x.since = now /\ x.next = C!None /\ x.tick = C!None
  BY <1>2 DEF ProcessState, C!Down
<1> HIDE DEF x
<1>4. process'[w] = x
  BY <1>1 DEF SchedulingInv
<1>5. Staged(w)'
  BY <1>1, <1>2, <1>3, <1>4 DEF Staged
<1> QED  BY <1>1, <1>2, <1>3, <1>5, OneStaged

LEMMA EnqueueFirstStep ==
  ASSUME C!SchedulingAssumption, SchedulingInv, NEW w \in Processes, C!EnqueueFirst(w)
  PROVE  SchedulingInv'
<1> DEFINE i == C!Bucket(process[w].since)
           x == [process[w] EXCEPT !.pc = "enqueued"]
<1>1. /\ process[w] \in ProcessState /\ Staged(w) /\ process[w].pc = "booting"
      /\ now \in Nat /\ lost \subseteq Nat
  BY DEF SchedulingInv, C!EnqueueFirst
<1>2. process[w].since \in Nat /\ process[w].since <= now
  BY <1>1 DEF Staged
<1>3. i \in Nat /\ i <= now
  <2>1. i \in Nat /\ i <= process[w].since
    BY <1>2, BucketMeant
  <2> QED  BY <1>1, <1>2, <2>1
<1>4. x \in ProcessState /\ x.pc = "enqueued" /\ x.since = process[w].since
      /\ x.next = C!None /\ x.tick = C!None
  BY <1>1 DEF ProcessState, Staged
<1>5. now' = now /\ lost' = lost
  BY DEF C!EnqueueFirst, C!Enqueue
<1>6. CASE jobs' = jobs \cup {i} /\ process' = [process EXCEPT ![w] = x]
  <2> HIDE DEF x, i
  <2>1. process'[w] = x
    BY <1>6 DEF SchedulingInv
  <2>2. Staged(w)'
    BY <1>2, <1>4, <1>5, <1>6, <2>1 DEF Staged, C!Bucket, i
  <2> QED  BY <1>1, <1>3, <1>4, <1>5, <1>6, <2>2, OneStaged
<1>7. CASE jobs' \in {jobs, jobs \cup {i}} /\ process' = [process EXCEPT ![w] = C!Down]
  <2> HIDE DEF x, i
  <2>1. process'[w] = C!Down
    BY <1>7 DEF SchedulingInv
  <2>2. Staged(w)'
    BY <2>1, NoneMeant DEF Staged
  <2> QED  BY <1>1, <1>3, <1>5, <1>7, <2>2, NoneMeant, OneStaged
<1> QED  BY <1>6, <1>7 DEF C!EnqueueFirst, C!Enqueue

\* Nothing begins between the start of a ticker and its first tick that this tick does not stand for.
LEMMA StartTickerStep ==
  ASSUME C!SchedulingAssumption, SchedulingInv, NEW w \in Processes, C!StartTicker(w)
  PROVE  SchedulingInv'
<1> DEFINE x == [process[w] EXCEPT !.pc = "running", !.ticker = now, !.next = now + Interval]
<1>1. /\ process[w] \in ProcessState /\ Staged(w) /\ process[w].pc = "enqueued"
      /\ now \in Nat /\ lost \subseteq Nat /\ Interval \in Nat /\ Interval > 0
  BY DEF SchedulingInv, C!StartTicker, C!SchedulingAssumption
<1>2. process' = [process EXCEPT ![w] = x] /\ now' = now /\ jobs' = jobs /\ lost' = lost
  BY <1>1 DEF C!StartTicker, SchedulingInv
<1>3. now + Interval \in Nat /\ now < now + Interval
  BY <1>1
<1>4. x \in ProcessState /\ x.pc = "running" /\ x.since = process[w].since
      /\ x.ticker = now /\ x.next = now + Interval /\ x.tick = C!None
  BY <1>1, <1>3 DEF ProcessState, Staged
<1> HIDE DEF x
<1>5. process'[w] = x
  BY <1>2 DEF SchedulingInv
<1>6. ASSUME NEW k \in Nat, now < k * Interval, k * Interval + Interval <= now + Interval
      PROVE  FALSE
  <2>1. k * Interval \in Nat
    BY <1>1
  <2> QED  BY <1>1, <1>6, <2>1
<1>7. Ticking(w)'
  BY <1>1, <1>2, <1>3, <1>4, <1>5, <1>6 DEF Ticking
<1>8. Staged(w)'
  BY <1>1, <1>2, <1>4, <1>5, <1>7 DEF Staged, C!Bucket
<1> QED  BY <1>1, <1>2, <1>4, <1>8, OneStaged DEF SchedulingInv

\* A tick falls into one interval: its job is the job of that one.
LEMMA ScheduleStep ==
  ASSUME C!SchedulingAssumption, SchedulingInv, NEW w \in Processes, C!Schedule(w)
  PROVE  SchedulingInv'
<1> DEFINE t == process[w].tick
           x == [process[w] EXCEPT !.tick = C!None]
<1>1. t # C!None /\ now' = now /\ process' = [process EXCEPT ![w] = x]
      /\ \/ C!Enqueue(t)
         \/ C!EnqueueFails(t)
  BY DEF C!Schedule
<1>2. process[w] \in ProcessState /\ Staged(w) /\ now \in Nat /\ lost \subseteq Nat
  BY DEF SchedulingInv
<1>3. process[w].pc = "running" /\ Ticking(w)
  BY <1>1, <1>2 DEF Staged
<1>4. t \in Nat /\ t <= now
  BY <1>1, <1>2, <1>3 DEF Ticking, ProcessState
<1>5. C!Bucket(t) \in Nat /\ C!Bucket(t) <= now
  <2>1. C!Bucket(t) \in Nat /\ C!Bucket(t) <= t
    BY <1>4, BucketMeant
  <2> QED  BY <1>2, <1>4, <2>1
<1>6. x \in ProcessState /\ x.pc = process[w].pc /\ x.since = process[w].since
      /\ x.ticker = process[w].ticker /\ x.next = process[w].next /\ x.tick = C!None
  BY <1>2 DEF ProcessState
<1>7. process'[w] = x
  BY <1>1 DEF SchedulingInv
<1>8. /\ jobs \subseteq jobs' /\ lost \subseteq lost'
      /\ jobs' \subseteq jobs \cup {C!Bucket(t)} /\ lost' \subseteq lost \cup {t}
      /\ C!Bucket(t) \in jobs' \/ t \in lost'
  BY <1>1 DEF C!Enqueue, C!EnqueueFails
<1>9. ASSUME NEW k \in Nat, Provided(w, k * Interval)  PROVE Provided(w, k * Interval)'
  <2>1. CASE C!Within(t, k * Interval)
    <3>1. C!Bucket(t) = k * Interval
      BY <1>4, <2>1, BucketMeant
    <3> QED  BY <1>8, <2>1, <3>1 DEF Provided, C!Within
  <2>2. CASE ~ C!Within(t, k * Interval)
    BY <1>8, <1>9, <2>2 DEF Provided, C!Within
  <2> QED  BY <2>1, <2>2
<1> HIDE DEF t, x
<1>10. Ticking(w)'
  BY <1>1, <1>3, <1>6, <1>7, <1>9 DEF Ticking
<1>11. Staged(w)'
  BY <1>1, <1>2, <1>3, <1>6, <1>7, <1>8, <1>10 DEF Staged, C!Bucket
<1>12. lost' \subseteq Nat
  BY <1>2, <1>4, <1>8
<1> QED  BY <1>1, <1>5, <1>6, <1>8, <1>11, <1>12, OneStaged

\* A tick is put into the channel, or dropped, in the interval in which it comes.
LEMMA AdvanceStep ==
  ASSUME C!SchedulingAssumption, SchedulingInv, C!Advance
  PROVE  SchedulingInv'
<1> DEFINE ticking == {w \in Processes : process[w].next = now + 1}
           after(w) == [process[w] EXCEPT !.next = @ + Interval,
                                          !.tick = IF @ = C!None THEN now + 1 ELSE @]
<1>1. /\ now' = now + 1 /\ jobs' = jobs
      /\ process' = [w \in Processes |-> IF w \notin ticking THEN process[w] ELSE after(w)]
      /\ lost' = IF \E w \in ticking : process[w].tick # C!None THEN lost \cup {now + 1} ELSE lost
  BY DEF C!Advance
<1>6. lost \subseteq lost' /\ lost' \subseteq lost \cup {now + 1}
  BY <1>1
<1>7. \A w \in Processes : process'[w] = IF w \notin ticking THEN process[w] ELSE after(w)
  BY <1>1
<1>8. process' = [w \in Processes |-> process'[w]]
  BY <1>1
<1>9. now' = now + 1 /\ jobs' = jobs
  BY <1>1
<1>2. now \in Nat /\ Interval \in Nat /\ Interval > 0 /\ now + 1 \in Nat /\ now <= now + 1
      /\ \A n \in Nat : n <= now => n <= now + 1
  BY DEF SchedulingInv, C!SchedulingAssumption
<1>3. ASSUME NEW w \in Processes
      PROVE  process'[w] \in ProcessState /\ Staged(w)'
  <2>1. process[w] \in ProcessState /\ Staged(w)
    BY DEF SchedulingInv
  <2>2. CASE w \notin ticking
    <3>1. process'[w] = process[w]
      BY <1>7, <2>2
    <3>2. ASSUME process[w].pc = "running"  PROVE Ticking(w)'
      <4>1. Ticking(w) /\ process[w].next # now + 1
        BY <2>1, <2>2, <3>2 DEF Staged
      <4>2. process[w].next \in Nat /\ now < process[w].next /\ process[w].next <= now + Interval
            /\ (process[w].tick # C!None => process[w].tick <= now)
        BY <4>1 DEF Ticking
      <4>3. now + 1 < process[w].next /\ process[w].next <= now + 1 + Interval
        BY <1>2, <4>1, <4>2
      <4>4. process[w].tick # C!None => process[w].tick <= now + 1
        BY <1>2, <4>2, <2>1 DEF ProcessState
      <4>5. process[w].ticker \in Nat
        BY <4>1 DEF Ticking
      <4>6. ASSUME NEW k \in Nat, process[w].ticker < k * Interval,
                   k * Interval + Interval <= process[w].next
            PROVE  Provided(w, k * Interval)'
        <5>1. Provided(w, k * Interval)
          BY <4>1, <4>6 DEF Ticking
        <5> QED  BY <1>6, <1>9, <3>1, <5>1 DEF Provided, C!Within
      <4> HIDE DEF ticking, after
      <4> QED  BY <1>9, <3>1, <4>2, <4>3, <4>4, <4>5, <4>6 DEF Ticking
    <3>3. process[w].pc # "down" => process[w].since \in Nat /\ process[w].since <= now + 1
      BY <1>2, <2>1 DEF Staged
    <3> HIDE DEF ticking, after
    <3> QED  BY <1>9, <2>1, <3>1, <3>2, <3>3 DEF Staged, C!Bucket
  <2>3. CASE w \in ticking
    <3>1. process[w].next = now + 1 /\ process[w].pc = "running"
      BY <1>2, <2>1, <2>3, NoneMeant DEF Staged
    <3>2. Ticking(w)
      BY <2>1, <3>1 DEF Staged
    <3> DEFINE y == after(w)
    <3>3. y \in ProcessState /\ y.pc = "running" /\ y.since = process[w].since
          /\ y.ticker = process[w].ticker /\ y.next = now + 1 + Interval
          /\ y.tick = IF process[w].tick = C!None THEN now + 1 ELSE process[w].tick
      <4>1. process[w].next + Interval = now + 1 + Interval /\ now + 1 + Interval \in Nat
        BY <1>2, <3>1
      <4> DEFINE t == IF process[w].tick = C!None THEN now + 1 ELSE process[w].tick
      <4>2. t \in Nat \cup {C!None}
        BY <1>2, <2>1 DEF ProcessState
      <4>3. y = [process[w] EXCEPT !.next = now + 1 + Interval, !.tick = t]
        BY <4>1
      <4> HIDE DEF t, y
      <4>4. y \in ProcessState /\ y.pc = "running" /\ y.since = process[w].since
            /\ y.ticker = process[w].ticker /\ y.next = now + 1 + Interval /\ y.tick = t
        BY <2>1, <3>1, <4>1, <4>2, <4>3 DEF ProcessState
      <4> QED  BY <4>4 DEF t
    <3>4. process'[w] = y
      BY <1>7, <2>3
    <3> HIDE DEF y
    <3>5. y.tick = now + 1 \/ now + 1 \in lost'
      BY <1>1, <2>3, <3>3
    <3>6. ASSUME NEW k \in Nat, y.ticker < k * Interval, k * Interval + Interval <= y.next
          PROVE  Provided(w, k * Interval)'
      <4>1. k * Interval \in Nat /\ k * Interval <= now + 1
        BY <1>2, <3>3, <3>6
      <4>2. CASE k * Interval + Interval <= now + 1
        <5>1. Provided(w, k * Interval)
          BY <3>1, <3>2, <3>3, <3>6, <4>2 DEF Ticking
        <5>2. process[w].tick # C!None => y.tick = process[w].tick
          BY <3>3
        <5> QED  BY <1>6, <1>9, <3>4, <5>1, <5>2 DEF Provided, C!Within
      <4>3. CASE ~ (k * Interval + Interval <= now + 1)
        <5>1. C!Within(now + 1, k * Interval)
          BY <1>2, <4>1, <4>3 DEF C!Within
        <5>2. now + 1 # C!None
          BY <1>2, NoneMeant
        <5> QED  BY <3>4, <3>5, <5>1, <5>2 DEF Provided, C!Within
      <4> QED  BY <4>2, <4>3
    <3>7. y.tick # C!None => y.tick <= now + 1
      BY <1>2, <2>1, <3>2, <3>3, NoneMeant DEF Ticking, ProcessState
    <3>8. y.ticker \in Nat /\ y.next \in Nat /\ now + 1 < y.next /\ y.next <= now + 1 + Interval
      BY <1>2, <3>2, <3>3 DEF Ticking
    <3>9. Ticking(w)'
      BY <1>9, <3>4, <3>6, <3>7, <3>8 DEF Ticking
    <3>10. y.since \in Nat /\ y.since <= now + 1 /\ C!Bucket(y.since) \in jobs
      BY <1>2, <2>1, <3>1, <3>3 DEF Staged
    <3> HIDE DEF ticking, after
    <3>11. Staged(w)'
      BY <1>9, <3>3, <3>4, <3>9, <3>10 DEF Staged, C!Bucket
    <3> QED  BY <3>3, <3>4, <3>11
  <2> QED  BY <2>2, <2>3
<1>4. process' \in [Processes -> ProcessState]
  BY <1>3, <1>8
<1>5. now' \in Nat /\ jobs' \subseteq Nat /\ lost' \subseteq Nat /\ \A i \in jobs' : i <= now'
  <2>1. jobs \subseteq Nat /\ lost \subseteq Nat /\ \A i \in jobs : i <= now
    BY DEF SchedulingInv
  <2> HIDE DEF ticking, after
  <2>2. \A i \in jobs : i <= now + 1
    BY <1>2, <2>1
  <2> QED  BY <1>2, <1>6, <1>9, <2>1, <2>2
<1> QED  BY <1>3, <1>4, <1>5 DEF SchedulingInv

LEMMA StopStep ==
  ASSUME C!SchedulingAssumption, SchedulingInv, NEW w \in Processes, C!Stop(w)
  PROVE  SchedulingInv'
<1>1. process' = [process EXCEPT ![w] = C!Down] /\ now' = now /\ jobs' = jobs /\ lost' = lost
  BY DEF C!Stop
<1>2. process'[w] = C!Down /\ now \in Nat /\ lost \subseteq Nat
  BY <1>1 DEF SchedulingInv
<1>3. Staged(w)'
  BY <1>2, NoneMeant DEF Staged
<1> QED  BY <1>1, <1>2, <1>3, NoneMeant, OneStaged

LEMMA SchedulingInvariance ==
  ASSUME C!SchedulingAssumption  PROVE C!Spec => []SchedulingInv
<1>1. SchedulingInv /\ [C!Next]_C!vars => SchedulingInv'
  <2> SUFFICES ASSUME SchedulingInv, [C!Next]_C!vars  PROVE SchedulingInv'
    OBVIOUS
  <2>1. CASE UNCHANGED C!vars
    BY <2>1 DEF C!vars, SchedulingInv, Staged, Ticking, Provided, C!Bucket
  <2>2. CASE C!Next
    BY <2>2, StartStep, EnqueueFirstStep, StartTickerStep, ScheduleStep, AdvanceStep, StopStep
       DEF C!Next
  <2> QED  BY <2>1, <2>2
<1> QED  BY <1>1, SchedulingInit, PTL DEF C!Spec

\* For any processes, started and stopped at any time and however slow to start, and any interval:
\* the interval of the first job of each, and every interval that one of them has run through since
\* its ticker was started, has its cleanup, unless a tick of it was dropped, its insertion failed, or
\* it is still waiting; and no cleanup is for an interval that has not begun.
THEOREM CleanupEveryIntervalHolds ==
  ASSUME C!SchedulingAssumption  PROVE C!Spec => []CleanupEveryInterval
<1>1. SchedulingInv => CleanupEveryInterval
  <2> SUFFICES ASSUME SchedulingInv, NEW w \in Processes, NEW i \in C!Intervals,
                      C!Covers(w, i), i + Interval <= now
               PROVE  Provided(w, i)
    BY DEF SchedulingInv, CleanupEveryInterval, C!CleanupEveryInterval, Provided
  <2>1. PICK k \in 0 .. MaxTime \div Interval : i = k * Interval
    BY DEF C!Intervals
  <2>2. Interval \in Nat /\ k \in Nat /\ i \in Nat
    BY <2>1 DEF C!SchedulingAssumption
  <2>3. Staged(w) /\ now \in Nat
    BY DEF SchedulingInv
  <2>4. CASE /\ process[w].pc \in {"enqueued", "running"}
             /\ C!Within(process[w].since, i)
    <3>1. process[w].since \in Nat /\ C!Bucket(process[w].since) \in jobs
      BY <2>3, <2>4 DEF Staged
    <3>2. C!Bucket(process[w].since) = k * Interval
      BY <2>1, <2>2, <2>4, <3>1, BucketMeant
    <3> QED  BY <2>1, <3>1, <3>2 DEF Provided
  <2>5. CASE process[w].pc = "running" /\ process[w].ticker < i
    <3>1. Ticking(w)
      BY <2>3, <2>5 DEF Staged
    <3>2. i + Interval <= process[w].next
      BY <2>2, <2>3, <3>1 DEF Ticking
    <3> QED  BY <2>1, <2>2, <2>5, <3>1, <3>2 DEF Ticking
  <2> QED  BY <2>4, <2>5 DEF C!Covers
<1> QED  BY <1>1, SchedulingInvariance, PTL

-----------------------------------------------------------------------------
(* Retry backoff *)

\* The powers of two are what their definition says: such a function exists.
LEMMA PowersMeant ==
  /\ D!PowerOfTwo[0] = 1
  /\ \A n \in Nat : D!PowerOfTwo[n + 1] = 2 * D!PowerOfTwo[n]
  /\ \A n \in Nat : D!PowerOfTwo[n] \in Nat /\ D!PowerOfTwo[n] >= 1
<1> DEFINE Powers(n) ==
             {f \in [0 .. n -> Nat \ {0}] :
                f[0] = 1 /\ \A k \in 0 .. n : k # 0 => f[k] = 2 * f[k - 1]}
<1>1. \A n \in Nat : Powers(n) # {}
  <2> DEFINE T == {n \in Nat : Powers(n) # {}}
  <2>1. 0 \in T
    <3>1. [k \in 0 .. 0 |-> 1] \in Powers(0)
      OBVIOUS
    <3> QED  BY <3>1
  <2>2. ASSUME NEW n \in Nat, n \in T  PROVE n + 1 \in T
    <3>1. PICK f \in [0 .. n -> Nat \ {0}] : f[0] = 1 /\ \A k \in 0 .. n : k # 0 => f[k] = 2 * f[k - 1]
      BY <2>2
    <3> DEFINE g == [k \in 0 .. n + 1 |-> IF k = n + 1 THEN 2 * f[n] ELSE f[k]]
    <3>2. n \in 0 .. n /\ f[n] \in Nat \ {0} /\ 2 * f[n] \in Nat \ {0}
      OBVIOUS
    <3>3. g \in [0 .. n + 1 -> Nat \ {0}]
      BY <3>2
    <3>4. g[0] = 1
      BY <3>1
    <3>5. ASSUME NEW k \in 0 .. n + 1, k # 0  PROVE g[k] = 2 * g[k - 1]
      <4>1. k - 1 \in 0 .. n /\ k - 1 # n + 1 /\ g[k - 1] = f[k - 1]
        BY <3>5
      <4>2. CASE k = n + 1
        BY <4>1, <4>2
      <4>3. CASE k # n + 1
        BY <3>1, <3>5, <4>1, <4>3
      <4> QED  BY <4>2, <4>3
    <3> HIDE DEF g
    <3>6. g \in Powers(n + 1)
      BY <3>3, <3>4, <3>5
    <3> HIDE DEF Powers
    <3> QED  BY <3>6
  <2> HIDE DEF T
  <2>3. \A n \in Nat : n \in T
    BY <2>1, <2>2, AllNaturals
  <2> QED  BY <2>3 DEF T
<1>2. ASSUME NEW n \in Nat, NEW f \in Powers(n), NEW h \in Powers(n + 1)
      PROVE  \A k \in Nat : k <= n => f[k] = h[k]
  <2> DEFINE T == {k \in Nat : k <= n => f[k] = h[k]}
  <2>1. 0 \in T
    OBVIOUS
  <2>2. ASSUME NEW k \in Nat, k \in T  PROVE k + 1 \in T
    <3>1. CASE k + 1 <= n
      <4>1. k + 1 \in 0 .. n /\ k + 1 \in 0 .. n + 1 /\ k + 1 # 0 /\ (k + 1) - 1 = k
        BY <3>1
      <4>2. f[k + 1] = 2 * f[k] /\ h[k + 1] = 2 * h[k]
        BY <4>1
      <4> QED  BY <2>2, <3>1, <4>2
    <3> QED  BY <3>1
  <2> HIDE DEF T
  <2>3. \A k \in Nat : k \in T
    BY <2>1, <2>2, AllNaturals
  <2> QED  BY <2>3 DEF T
<1> DEFINE a(n) == CHOOSE f : f \in Powers(n)
           g == [n \in Nat |-> a(n)[n]]
<1>3. \A n \in Nat : a(n) \in Powers(n)
  BY <1>1
<1> HIDE DEF a
<1>4. g[0] = 1 /\ \A n \in Nat : g[n] \in Nat \ {0}
  BY <1>3
<1>5. ASSUME NEW n \in Nat  PROVE g[n + 1] = 2 * g[n]
  <2>1. a(n + 1)[n + 1] = 2 * a(n + 1)[n]
    <3>1. n + 1 \in 0 .. n + 1 /\ n + 1 # 0 /\ (n + 1) - 1 = n
      OBVIOUS
    <3> QED  BY <1>3, <3>1
  <2>2. a(n)[n] = a(n + 1)[n]
    <3> HIDE DEF Powers
    <3>1. n + 1 \in Nat /\ n <= n
      OBVIOUS
    <3>2. a(n) \in Powers(n) /\ a(n + 1) \in Powers(n + 1)
      BY <1>3, <3>1
    <3> QED  BY <1>2, <3>1, <3>2
  <2> QED  BY <2>1, <2>2
<1>6. g = [n \in Nat |-> IF n = 0 THEN 1 ELSE 2 * g[n - 1]]
  <2>1. ASSUME NEW n \in Nat  PROVE g[n] = IF n = 0 THEN 1 ELSE 2 * g[n - 1]
    <3>1. CASE n = 0
      BY <1>4, <3>1
    <3>2. CASE n # 0
      <4>1. n - 1 \in Nat /\ (n - 1) + 1 = n
        BY <3>2
      <4> HIDE DEF g
      <4> QED  BY <1>5, <3>2, <4>1
    <3> QED  BY <3>1, <3>2
  <2>2. g = [n \in Nat |-> g[n]]
    OBVIOUS
  <2> HIDE DEF g
  <2> QED  BY <2>1, <2>2
<1> HIDE DEF g
<1>7. D!PowerOfTwo = [n \in Nat |-> IF n = 0 THEN 1 ELSE 2 * D!PowerOfTwo[n - 1]]
  BY <1>6, Zenon DEF D!PowerOfTwo
<1>8. D!PowerOfTwo[0] = 1
  BY <1>7
<1>9. ASSUME NEW n \in Nat  PROVE D!PowerOfTwo[n + 1] = 2 * D!PowerOfTwo[n]
  <2>1. n + 1 \in Nat /\ n + 1 # 0 /\ (n + 1) - 1 = n
    OBVIOUS
  <2> QED  BY <1>7, <2>1
<1>10. \A n \in Nat : D!PowerOfTwo[n] \in Nat /\ D!PowerOfTwo[n] >= 1
  <2> DEFINE T == {n \in Nat : D!PowerOfTwo[n] \in Nat /\ D!PowerOfTwo[n] >= 1}
  <2>1. 0 \in T /\ \A n \in Nat : n \in T => n + 1 \in T
    BY <1>8, <1>9
  <2> HIDE DEF T
  <2>2. \A n \in Nat : n \in T
    BY <2>1, AllNaturals
  <2> QED  BY <2>2 DEF T
<1> QED  BY <1>8, <1>9, <1>10

\* The doublings of a delay only grow.
LEMMA DoublingsGrow ==
  ASSUME NEW b \in Nat, NEW m \in Nat, NEW n \in Nat, m <= n
  PROVE  /\ b * D!PowerOfTwo[m] \in Nat /\ b * D!PowerOfTwo[m] <= b * D!PowerOfTwo[n]
         /\ b * D!PowerOfTwo[m + 1] = 2 * (b * D!PowerOfTwo[m])
<1> DEFINE p(k) == b * D!PowerOfTwo[k]
<1>1. ASSUME NEW k \in Nat  PROVE p(k) \in Nat /\ p(k + 1) = 2 * p(k)
  <2> DEFINE q == D!PowerOfTwo[k]
  <2>1. q \in Nat /\ D!PowerOfTwo[k + 1] = 2 * q
    BY PowersMeant
  <2> HIDE DEF q
  <2>2. b * (2 * q) = 2 * (b * q) /\ b * q \in Nat
    BY <2>1
  <2> QED  BY <2>1, <2>2 DEF q
<1> HIDE DEF p
<1> DEFINE T == {d \in Nat : p(m) <= p(m + d)}
<1>2. 0 \in T
  BY <1>1
<1>3. ASSUME NEW d \in Nat, d \in T  PROVE d + 1 \in T
  <2>1. m + d \in Nat /\ (m + d) + 1 = m + (d + 1)
    OBVIOUS
  <2>2. p(m) \in Nat /\ p(m + d) \in Nat /\ p(m + (d + 1)) = 2 * p(m + d)
    BY <1>1, <2>1
  <2> QED  BY <1>3, <2>2
<1> HIDE DEF T
<1>4. n - m \in Nat /\ m + (n - m) = n /\ n - m \in T
  BY <1>2, <1>3, AllNaturals
<1>5. p(m) <= p(n)
  BY <1>4 DEF T
<1> QED  BY <1>1, <1>5 DEF p
\* A delay that was doubled is the exact one, until it reaches the largest.
BackoffInv ==
  /\ base \in 1 .. MaxDuration /\ max \in base .. MaxDuration
  /\ attempt \in Nat /\ current \in 1 .. attempt /\ returned \in BOOLEAN
  /\ D!DelayInRange
  /\ ~ returned => delay = base * D!PowerOfTwo[current - 1]
  /\ D!DelayIsCappedDoubling

LEMMA DoubleInRange ==
  ASSUME D!BackoffAssumption, BackoffInv, ~ (delay > max \div 2)
  PROVE  D!Wrap(delay * 2) = delay * 2 /\ delay * 2 \in base .. max
<1>1. delay \in Nat /\ base \in Nat /\ max \in Nat /\ max <= MaxDuration /\ base <= delay
  BY DEF D!BackoffAssumption, BackoffInv, D!DelayInRange
<1>2. delay * 2 <= max
  BY <1>1
<1> QED  BY <1>1, <1>2 DEF D!Wrap, D!BackoffAssumption

LEMMA BackoffInit ==
  ASSUME D!BackoffAssumption, D!Init  PROVE BackoffInv
<1>1. base \in 1 .. MaxDuration /\ max \in base .. MaxDuration /\ MaxDuration \in Nat
      /\ attempt \in 1 .. MaxAttempt /\ MaxAttempt \in Nat
      /\ current = 1 /\ delay = base /\ returned = FALSE
  BY DEF D!BackoffAssumption, D!Init
<1>2. delay = base * D!PowerOfTwo[current - 1]
  <2>1. current - 1 = 0 /\ base \in Nat
    BY <1>1
  <2> QED  BY <1>1, <2>1, PowersMeant
<1>3. attempt \in Nat /\ current \in 1 .. attempt /\ delay \in base .. max
  BY <1>1
<1> QED  BY <1>1, <1>2, <1>3 DEF BackoffInv, D!DelayInRange, D!DelayIsCappedDoubling

\* What a step that returns must give.
LEMMA BackoffReturns ==
  ASSUME BackoffInv, UNCHANGED <<base, max, attempt, current>>, returned' = TRUE,
         delay' \in base .. max, delay' = D!CappedDoubling
  PROVE  BackoffInv'
<1>1. D!CappedDoubling' = D!CappedDoubling
  BY DEF D!CappedDoubling
<1> QED  BY <1>1 DEF BackoffInv, D!DelayInRange, D!DelayIsCappedDoubling

LEMMA CapStep ==
  ASSUME D!BackoffAssumption, BackoffInv, D!Cap  PROVE BackoffInv'
<1>1. /\ ~ returned /\ current < attempt /\ delay > max \div 2
      /\ delay' = max /\ returned' = TRUE /\ UNCHANGED <<base, max, attempt, current>>
  BY DEF D!Cap, D!Looping
<1>2. /\ base \in Nat /\ max \in Nat /\ base <= max /\ delay \in Nat
      /\ current \in Nat /\ current >= 1 /\ attempt \in Nat
      /\ delay = base * D!PowerOfTwo[current - 1]
  BY <1>1 DEF BackoffInv, D!DelayInRange, D!BackoffAssumption
<1> DEFINE exact == base * D!PowerOfTwo[attempt - 1]
<1>3. exact \in Nat /\ 2 * delay <= exact
  <2>1. current - 1 \in Nat /\ (current - 1) + 1 = current /\ attempt - 1 \in Nat
        /\ current <= attempt - 1
    BY <1>1, <1>2
  <2>2. base * D!PowerOfTwo[current] = 2 * delay
    BY <1>2, <2>1, DoublingsGrow
  <2>3. base * D!PowerOfTwo[current] <= exact
    BY <1>2, <2>1, DoublingsGrow
  <2>4. exact \in Nat
    <3>1. attempt - 1 <= attempt - 1
      BY <2>1
    <3> QED  BY <1>2, <2>1, <3>1, DoublingsGrow
  <2> QED  BY <2>2, <2>3, <2>4
<1> HIDE DEF exact
<1>4. ~ (exact < max)
  BY <1>1, <1>2, <1>3
<1>5. D!CappedDoubling = max
  BY <1>4 DEF D!CappedDoubling, exact
<1>6. delay' \in base .. max
  BY <1>1, <1>2
<1> QED  BY <1>1, <1>5, <1>6, BackoffReturns

LEMMA DoubleStep ==
  ASSUME D!BackoffAssumption, BackoffInv, D!Double  PROVE BackoffInv'
<1>1. /\ ~ returned /\ current < attempt /\ ~ (delay > max \div 2)
      /\ delay' = D!Wrap(delay * 2) /\ current' = current + 1
      /\ UNCHANGED <<base, max, attempt, returned>>
  BY DEF D!Double, D!Looping
<1>2. /\ base \in Nat /\ max \in Nat /\ delay \in Nat
      /\ current \in Nat /\ current >= 1 /\ attempt \in Nat
      /\ delay = base * D!PowerOfTwo[current - 1]
  BY <1>1 DEF BackoffInv, D!DelayInRange, D!BackoffAssumption
<1>3. delay' = 2 * delay /\ delay' \in base .. max
  BY <1>1, <1>2, DoubleInRange
<1>4. delay' = base * D!PowerOfTwo[current' - 1]
  <2>1. current - 1 \in Nat /\ current' - 1 = (current - 1) + 1
    BY <1>1, <1>2
  <2>2. base * D!PowerOfTwo[(current - 1) + 1] = 2 * (base * D!PowerOfTwo[current - 1])
    BY <1>2, <2>1, DoublingsGrow
  <2> QED  BY <1>2, <1>3, <2>1, <2>2
<1>5. current' \in 1 .. attempt
  BY <1>1, <1>2
<1> QED  BY <1>1, <1>3, <1>4, <1>5 DEF BackoffInv, D!DelayInRange, D!DelayIsCappedDoubling

LEMMA ReturnStep ==
  ASSUME D!BackoffAssumption, BackoffInv, D!Return  PROVE BackoffInv'
<1>1. /\ ~ returned /\ ~ (current < attempt /\ delay < max)
      /\ delay' = IF delay > max THEN max ELSE delay
      /\ returned' = TRUE /\ UNCHANGED <<base, max, attempt, current>>
  BY DEF D!Return
<1>2. /\ base \in Nat /\ max \in Nat /\ delay \in Nat /\ base <= delay /\ delay <= max
      /\ current \in Nat /\ current >= 1 /\ current <= attempt /\ attempt \in Nat
      /\ delay = base * D!PowerOfTwo[current - 1]
  BY <1>1 DEF BackoffInv, D!DelayInRange, D!BackoffAssumption
<1>3. delay' = delay
  BY <1>1, <1>2
<1> DEFINE exact == base * D!PowerOfTwo[attempt - 1]
<1>4. exact \in Nat /\ delay <= exact /\ (current = attempt => delay = exact)
  <2>1. current - 1 \in Nat /\ attempt - 1 \in Nat /\ current - 1 <= attempt - 1
    BY <1>2
  <2>2. base * D!PowerOfTwo[current - 1] <= exact
    BY <1>2, <2>1, DoublingsGrow
  <2>3. exact \in Nat
    <3>1. attempt - 1 <= attempt - 1
      BY <2>1
    <3> QED  BY <1>2, <2>1, <3>1, DoublingsGrow
  <2> QED  BY <1>2, <2>2, <2>3
<1> HIDE DEF exact
<1>5. delay = IF exact < max THEN exact ELSE max
  BY <1>1, <1>2, <1>4
<1>6. delay' = D!CappedDoubling /\ delay' \in base .. max
  BY <1>2, <1>3, <1>5 DEF D!CappedDoubling, exact
<1> QED  BY <1>1, <1>6, BackoffReturns

LEMMA BackoffInvariance ==
  ASSUME D!BackoffAssumption  PROVE D!Spec => []BackoffInv
<1>1. BackoffInv /\ [D!Next]_D!vars => BackoffInv'
  <2> SUFFICES ASSUME BackoffInv, [D!Next]_D!vars  PROVE BackoffInv'
    OBVIOUS
  <2>1. CASE UNCHANGED D!vars
    BY <2>1 DEF D!vars, BackoffInv, D!DelayInRange, D!DelayIsCappedDoubling, D!CappedDoubling
  <2>2. CASE D!Next
    BY <2>2, CapStep, DoubleStep, ReturnStep DEF D!Next
  <2> QED  BY <2>1, <2>2
<1> QED  BY <1>1, BackoffInit, PTL DEF D!Spec

\* At every width of time.Duration, for every configuration New accepts and every attempt: no
\* product wraps round, and the delay stays between base and max.
THEOREM DelayInRangeHolds ==
  ASSUME D!BackoffAssumption  PROVE D!Spec => []D!DelayInRange
<1>1. BackoffInv => D!DelayInRange
  BY DEF BackoffInv
<1> QED  BY <1>1, BackoffInvariance, PTL

\* And the delay that is returned is the base delay doubled for each earlier attempt, or the largest
\* delay when that is less.
THEOREM DelayIsCappedDoublingHolds ==
  ASSUME D!BackoffAssumption  PROVE D!Spec => []DelayIsCappedDoubling
<1>1. BackoffInv => DelayIsCappedDoubling
  BY DEF BackoffInv, DelayIsCappedDoubling
<1> QED  BY <1>1, BackoffInvariance, PTL

-----------------------------------------------------------------------------
(* The families of a GEDCOM export.  The inductive invariant says that the records so far are      *)
(* true and mutual, and that what they do not say yet is still to be written.                      *)

LEMMA GedcomFinite ==
  ASSUME NEW S
  PROVE  (F!IsFiniteSet(S) <=> IsFiniteSet(S)) /\ F!Cardinality(S) = Cardinality(S)
<1>1. F!IsFiniteSet(S) <=> IsFiniteSet(S)
  BY DEF F!IsFiniteSet, IsFiniteSet
<1>2. F!Cardinality(S) = Cardinality(S)
  BY DEF F!Cardinality, Cardinality
<1> QED  BY <1>1, <1>2

\* s lists every member of S once.
Lists(s, S) ==
  /\ s \in Seq(S) /\ Len(s) = Cardinality(S) /\ Cardinality(S) \in Nat
  /\ \A i, j \in 1 .. Len(s) : s[i] = s[j] => i = j
  /\ \A x \in S : \E i \in 1 .. Len(s) : s[i] = x

LEMMA OrderLists ==
  ASSUME NEW S, IsFiniteSet(S), NEW R, \A x \in S : <<x, x>> \notin R,
         NEW s \in [1 .. Cardinality(S) -> S], InOrder(s, Cardinality(S), R)
  PROVE  Lists(s, S)
<1> DEFINE n == Cardinality(S)
<1>1. n \in Nat
  BY FS_CardinalityType
<1>2. \A i, j \in 1 .. n : i < j => s[i] # s[j]
  BY DEF InOrder
<1>3. s \in [1 .. n -> S]
  OBVIOUS
<1> HIDE DEF n
<1>4. \A i, j \in 1 .. n : s[i] = s[j] => i = j
  <2> SUFFICES ASSUME NEW i \in 1 .. n, NEW j \in 1 .. n, i # j  PROVE s[i] # s[j]
    OBVIOUS
  <2>1. i < j \/ j < i
    BY <1>1
  <2> QED  BY <1>2, <2>1
<1>5. s \in Seq(S) /\ Len(s) = n
  BY <1>1, <1>3
<1>6. \A x \in S : \E i \in 1 .. n : s[i] = x
  <2>1. s \in Injection(1 .. n, S)
    BY <1>3, <1>4 DEF Injection, IsInjective
  <2>2. IsFiniteSet(1 .. n) /\ Cardinality(1 .. n) = Cardinality(S)
    BY <1>1, FS_Interval DEF n
  <2>3. s \in Surjection(1 .. n, S)
    BY <2>1, <2>2, FS_Injection
  <2> QED  BY <2>3 DEF Surjection
<1> QED  BY <1>1, <1>4, <1>5, <1>6 DEF Lists, n

\* Sorting lists every number once.
LEMMA SortedMeant ==
  ASSUME NEW S, S \subseteq Nat, IsFiniteSet(S)
  PROVE  Lists(F!Sorted(S), S)
<1> DEFINE R == {x \in S \X S : x[1] < x[2]}
           s == F!Sorted(S)
<1>1. \A x, y \in S : <<x, y>> \in R <=> x < y
  OBVIOUS
<1> HIDE DEF R
<1>2. /\ \A x \in S : <<x, x>> \notin R
      /\ \A x, y \in S : x # y => <<x, y>> \in R \/ <<y, x>> \in R
      /\ \A x, y, z \in S : <<x, y>> \in R /\ <<y, z>> \in R => <<x, z>> \in R
  <2>1. \A x, y \in S : x \in Nat /\ y \in Nat
    OBVIOUS
  <2> QED  BY <1>1, <2>1
<1>3. F!Cardinality(S) = Cardinality(S)
  BY GedcomFinite
<1>4. PICK t \in [1 .. Cardinality(S) -> S] : InOrder(t, Cardinality(S), R)
  BY <1>2, OrderExists
<1>5. \A i, j \in 1 .. F!Cardinality(S) : i < j => t[i] < t[j]
  BY <1>1, <1>3, <1>4 DEF InOrder
<1>6. \E u \in [1 .. F!Cardinality(S) -> S] :
        \A i, j \in 1 .. F!Cardinality(S) : i < j => u[i] < u[j]
  BY <1>3, <1>4, <1>5
<1>7. /\ s \in [1 .. F!Cardinality(S) -> S]
      /\ \A i, j \in 1 .. F!Cardinality(S) : i < j => s[i] < s[j]
  BY <1>6 DEF F!Sorted
<1> HIDE DEF s
<1>8. InOrder(s, Cardinality(S), R)
  BY <1>1, <1>3, <1>7 DEF InOrder
<1>9. Lists(s, S)
  BY <1>2, <1>3, <1>7, <1>8, OrderLists
<1> QED  BY <1>9 DEF s

\* The parts of a list of persons, no more than two in each.
Parts(s, k, S) ==
  /\ s \in [1 .. k -> SUBSET S] /\ k \in Nat
  /\ \A i \in 1 .. k : Cardinality(s[i]) \in 1 .. 2
  /\ \A x \in S : \E i \in 1 .. k : x \in s[i]

LEMMA PairSize ==
  ASSUME NEW a, NEW b  PROVE Cardinality({a, b}) \in 1 .. 2
<1>1. IsFiniteSet({a}) /\ Cardinality({a}) = 1
  BY FS_Singleton
<1>2. CASE a = b
  <2>1. {a, b} = {a}
    BY <1>2
  <2> QED  BY <1>1, <2>1
<1>3. CASE a # b
  <2>1. {a, b} = {a} \cup {b} /\ b \notin {a}
    BY <1>3
  <2>2. Cardinality({a} \cup {b}) = 2
    BY <1>1, <2>1, FS_AddElement
  <2> QED  BY <2>1, <2>2
<1> QED  BY <1>2, <1>3

\* Partner pairs cover the members of a union, and there is one if there is a member.
LEMMA PairsMeant ==
  ASSUME NEW S, IsFiniteSet(S), NEW s, Lists(s, S)
  PROVE  \E k : Parts(F!PartnerPairs(s), k, S)
<1>1. s \in [1 .. Len(s) -> S] /\ Len(s) \in Nat /\ \A x \in S : \E i \in 1 .. Len(s) : s[i] = x
  BY DEF Lists
<1>2. CASE Len(s) = 1
  <2> DEFINE p == << {s[1]} >>
  <2>1. F!PartnerPairs(s) = p
    BY <1>2 DEF F!PartnerPairs
  <2>2. p \in [1 .. 1 -> SUBSET S] /\ p[1] = {s[1]}
    BY <1>1, <1>2
  <2>3. \A x \in S : x = s[1]
    BY <1>1, <1>2
  <2>4. Cardinality({s[1]}) = 1
    BY FS_Singleton
  <2> HIDE DEF p
  <2>5. Parts(p, 1, S)
    BY <2>2, <2>3, <2>4 DEF Parts
  <2> QED  BY <2>1, <2>5
<1>3. CASE Len(s) # 1
  <2> DEFINE k == IF Len(s) = 0 THEN 0 ELSE Len(s) - 1
             p == [i \in 1 .. Len(s) - 1 |-> {s[1], s[i + 1]}]
  <2>1. F!PartnerPairs(s) = p
    BY <1>3 DEF F!PartnerPairs
  <2>2. k \in Nat /\ 1 .. Len(s) - 1 = 1 .. k
    BY <1>1, <1>3
  <2>3. \A i \in 1 .. k : p[i] = {s[1], s[i + 1]} /\ s[1] \in S /\ s[i + 1] \in S
    BY <1>1, <1>3, <2>2
  <2>4. p \in [1 .. k -> SUBSET S]
    BY <2>2, <2>3
  <2>5. \A i \in 1 .. k : Cardinality(p[i]) \in 1 .. 2
    BY <2>3, PairSize
  <2>6. ASSUME NEW x \in S  PROVE \E i \in 1 .. k : x \in p[i]
    <3>1. PICK j \in 1 .. Len(s) : s[j] = x
      BY <1>1
    <3>2. k = Len(s) - 1 /\ Len(s) >= 2
      BY <1>1, <1>3
    <3>3. CASE j = 1
      <4>1. 1 \in 1 .. k
        BY <3>2, <2>2
      <4> QED  BY <2>3, <3>1, <3>3, <4>1
    <3>4. CASE j # 1
      <4>1. j - 1 \in 1 .. k /\ (j - 1) + 1 = j
        BY <1>1, <3>2, <3>4
      <4> QED  BY <2>3, <3>1, <4>1
    <3> QED  BY <3>3, <3>4
  <2> HIDE DEF p, k
  <2>7. Parts(p, k, S)
    BY <2>2, <2>4, <2>5, <2>6 DEF Parts
  <2> QED  BY <2>1, <2>7
<1> QED  BY <1>2, <1>3

LEMMA Halves ==
  ASSUME NEW n \in Nat
  PROVE  /\ (n + 1) \div 2 \in Nat
         /\ n = 2 * ((n + 1) \div 2) - 1 \/ n = 2 * ((n + 1) \div 2)
OBVIOUS

\* So do the chunks of a child's parents.
LEMMA ParentChunksMeant ==
  ASSUME NEW S, IsFiniteSet(S), NEW s, Lists(s, S)
  PROVE  \E k : k <= Cardinality(S) /\ Parts(F!ParentChunks(s), k, S)
<1> DEFINE k == (Len(s) + 1) \div 2
           p == F!ParentChunks(s)
<1>1. /\ s \in [1 .. Len(s) -> S] /\ Len(s) \in Nat /\ DOMAIN s = 1 .. Len(s)
      /\ \A x \in S : \E i \in 1 .. Len(s) : s[i] = x
      /\ Len(s) = Cardinality(S)
  BY DEF Lists
<1>2. k \in Nat /\ k <= Len(s) /\ 2 * k \in {Len(s), Len(s) + 1}
  <2>1. k \in Nat /\ (Len(s) = 2 * k - 1 \/ Len(s) = 2 * k)
    BY <1>1, Halves
  <2> HIDE DEF k
  <2> QED  BY <1>1, <2>1
<1> HIDE DEF k
<1>3. ASSUME NEW i \in 1 .. k
      PROVE  /\ 2 * i - 1 \in 1 .. Len(s)
             /\ p[i] = IF 2 * i \in 1 .. Len(s) THEN {s[2 * i - 1], s[2 * i]} ELSE {s[2 * i - 1]}
  <2> DEFINE J == {n \in 1 .. Len(s) : (n + 1) \div 2 = i}
  <2>1. p[i] = {s[j] : j \in J}
    BY <1>1 DEF F!ParentChunks, k
  <2>2. 2 * i - 1 \in 1 .. Len(s)
    BY <1>1, <1>2
  <2>3. ASSUME NEW n \in 1 .. Len(s)
        PROVE  n \in J <=> n = 2 * i - 1 \/ n = 2 * i
    <3> DEFINE h == (n + 1) \div 2
    <3>1. h \in Nat /\ (n = 2 * h - 1 \/ n = 2 * h) /\ (n \in J <=> h = i)
      BY Halves
    <3> HIDE DEF h, J
    <3> QED  BY <1>2, <3>1
  <2>4. J \subseteq 1 .. Len(s)
    OBVIOUS
  <2> HIDE DEF J, p
  <2>5. CASE 2 * i \in 1 .. Len(s)
    <3>1. J = {2 * i - 1, 2 * i}
      BY <2>2, <2>3, <2>4, <2>5
    <3> QED  BY <2>1, <2>2, <2>5, <3>1
  <2>6. CASE 2 * i \notin 1 .. Len(s)
    <3>1. J = {2 * i - 1}
      BY <2>2, <2>3, <2>4, <2>6
    <3> QED  BY <2>1, <2>2, <2>6, <3>1
  <2> QED  BY <2>5, <2>6
<1>4. DOMAIN p = 1 .. k /\ p = [i \in 1 .. k |-> p[i]]
  BY DEF F!ParentChunks, k
<1>5. ASSUME NEW x \in S  PROVE \E i \in 1 .. k : x \in p[i]
  <2>1. PICK j \in 1 .. Len(s) : s[j] = x
    BY <1>1
  <2> DEFINE i == (j + 1) \div 2
  <2>2. i \in Nat /\ (j = 2 * i - 1 \/ j = 2 * i)
    BY <1>1, Halves
  <2> HIDE DEF i, p
  <2>3. i \in 1 .. k
    BY <1>1, <1>2, <2>2
  <2>4. x \in p[i]
    BY <1>1, <1>3, <2>1, <2>2, <2>3
  <2> QED  BY <2>3, <2>4
<1> HIDE DEF p
<1>6. ASSUME NEW i \in 1 .. k  PROVE p[i] \in SUBSET S /\ Cardinality(p[i]) \in 1 .. 2
  <2>1. 2 * i - 1 \in 1 .. Len(s) /\ s[2 * i - 1] \in S
    BY <1>1, <1>3
  <2>2. CASE 2 * i \in 1 .. Len(s)
    <3>1. p[i] = {s[2 * i - 1], s[2 * i]} /\ s[2 * i] \in S
      BY <1>1, <1>3, <2>2
    <3>2. Cardinality({s[2 * i - 1], s[2 * i]}) \in 1 .. 2
      BY PairSize
    <3> QED  BY <2>1, <3>1, <3>2
  <2>3. CASE 2 * i \notin 1 .. Len(s)
    <3>1. p[i] = {s[2 * i - 1]}
      BY <1>3, <2>3
    <3>2. Cardinality({s[2 * i - 1]}) = 1
      BY FS_Singleton
    <3>3. Cardinality(p[i]) = 1
      BY <3>1, <3>2
    <3> QED  BY <2>1, <3>1, <3>3
  <2> QED  BY <2>2, <2>3
<1>7. p \in [1 .. k -> SUBSET S]
  BY <1>4, <1>6
<1>8. Parts(p, k, S)
  BY <1>2, <1>5, <1>6, <1>7 DEF Parts
<1> QED  BY <1>1, <1>2, <1>8 DEF p

\* The chunks of a tree, in no order.
ChunkSet(t) == UNION {F!ChunksOf(t, c, y) : c \in Exported, y \in Kinships}

\* What is known of a chunk.
Chunk == [child : Exported, type : Kinships, index : 1 .. Cardinality(Exported),
          parents : SUBSET Exported]

\* The relation that a chunk says of a parent.
Said(p, d) == [parent |-> p, child |-> d.child, type |-> d.type]

Honest(d, t) ==
  /\ d \in Chunk /\ d.child \in t.active /\ d.parents \subseteq t.active
  /\ Cardinality(d.parents) \in 1 .. 2
  /\ \A p \in d.parents : Said(p, d) \in F!Active(t)

LEMMA ExportedNumbers ==
  ASSUME F!GedcomAssumption
  PROVE  /\ Exported \subseteq Nat /\ Kinships \subseteq Nat /\ Marriages \subseteq Nat
         /\ IsFiniteSet(Exported) /\ IsFiniteSet(Kinships) /\ IsFiniteSet(Marriages)
         /\ Cardinality(Exported) \in Nat
<1>1. IsFiniteSet(Exported \cup Marriages \cup Kinships)
  BY GedcomFinite DEF F!GedcomAssumption
<1>2. Exported \cup Marriages \cup Kinships \subseteq Nat
  BY DEF F!GedcomAssumption
<1>3. IsFiniteSet(Exported) /\ IsFiniteSet(Kinships) /\ IsFiniteSet(Marriages)
  <2>1. /\ Exported \subseteq Exported \cup Marriages \cup Kinships
        /\ Kinships \subseteq Exported \cup Marriages \cup Kinships
        /\ Marriages \subseteq Exported \cup Marriages \cup Kinships
    OBVIOUS
  <2> QED  BY <1>1, <2>1, FS_Subset
<1>4. Cardinality(Exported) \in Nat
  BY <1>3, FS_CardinalityType
<1>5. Exported \subseteq Nat /\ Kinships \subseteq Nat /\ Marriages \subseteq Nat
  BY <1>2
<1> QED  BY <1>3, <1>4, <1>5

LEMMA ActiveRelations ==
  ASSUME NEW t, t.relations \subseteq F!Relation, NEW r \in F!Active(t)
  PROVE  /\ r = [parent |-> r.parent, child |-> r.child, type |-> r.type]
         /\ r.parent \in t.active /\ r.child \in t.active
         /\ r.parent \in Exported /\ r.child \in Exported /\ r.type \in Kinships
<1>1. r \in F!Relation /\ {r.parent, r.child} \subseteq t.active
  BY DEF F!Active
<1> QED  BY <1>1 DEF F!Relation

\* The chunks of a child by one type of relation.
LEMMA ChunksOfMeant ==
  ASSUME F!GedcomAssumption, NEW t, t.relations \subseteq F!Relation,
         NEW c \in Exported, NEW y \in Kinships
  PROVE  /\ \A d \in F!ChunksOf(t, c, y) : Honest(d, t) /\ d.child = c /\ d.type = y
         /\ \A d, e \in F!ChunksOf(t, c, y) : d.index = e.index => d = e
         /\ \A r \in F!Active(t) : r.child = c /\ r.type = y
              => \E d \in F!ChunksOf(t, c, y) : r.parent \in d.parents
<1> DEFINE S == F!ParentsOf(t, c, y)
           p == F!ParentChunks(F!Sorted(S))
<1>1. \A x \in S : [parent |-> x, child |-> c, type |-> y] \in F!Active(t)
                   /\ x \in Exported /\ x \in t.active /\ c \in t.active
  <2> SUFFICES ASSUME NEW x \in S
               PROVE  [parent |-> x, child |-> c, type |-> y] \in F!Active(t)
                      /\ x \in Exported /\ x \in t.active /\ c \in t.active
    OBVIOUS
  <2>1. PICK r \in F!Active(t) : r.parent = x /\ r.child = c /\ r.type = y
    BY DEF F!ParentsOf
  <2> QED  BY <2>1, ActiveRelations
<1>2. \A r \in F!Active(t) : r.child = c /\ r.type = y => r.parent \in S
  BY DEF F!ParentsOf
<1>3. IsFiniteSet(S) /\ S \subseteq Nat /\ Cardinality(S) \in Nat
      /\ Cardinality(S) <= Cardinality(Exported)
  <2>1. S \subseteq Exported
    BY <1>1
  <2> HIDE DEF S
  <2> QED  BY <2>1, ExportedNumbers, FS_Subset, FS_CardinalityType
<1>4. F!ChunksOf(t, c, y)
        = {[child |-> c, type |-> y, index |-> i, parents |-> p[i]] : i \in DOMAIN p}
  BY DEF F!ChunksOf
<1> HIDE DEF S, p
<1>5. Lists(F!Sorted(S), S)
  BY <1>3, SortedMeant
<1>6. PICK k : k <= Cardinality(S) /\ Parts(p, k, S)
  BY <1>3, <1>5, ParentChunksMeant DEF p
<1>7. /\ DOMAIN p = 1 .. k /\ k \in Nat
      /\ \A i \in 1 .. k : p[i] \subseteq S /\ Cardinality(p[i]) \in 1 .. 2
      /\ \A x \in S : \E i \in 1 .. k : x \in p[i]
  BY <1>6 DEF Parts
<1>8. ASSUME NEW d \in F!ChunksOf(t, c, y)
      PROVE  /\ d.index \in 1 .. k /\ d.child = c /\ d.type = y /\ d.parents = p[d.index]
             /\ d = [child |-> c, type |-> y, index |-> d.index, parents |-> p[d.index]]
  BY <1>4, <1>7
<1>9. ASSUME NEW d \in F!ChunksOf(t, c, y)
      PROVE  Honest(d, t) /\ d.child = c /\ d.type = y
  <2>1. d.parents \subseteq S /\ Cardinality(d.parents) \in 1 .. 2
    BY <1>7, <1>8
  <2>2. d.parents # {}
    BY <2>1, FS_EmptySet
  <2>3. c \in t.active /\ d.parents \subseteq t.active /\ d.parents \subseteq Exported
    BY <1>1, <2>1, <2>2
  <2>4. d.index \in 1 .. Cardinality(Exported)
    BY <1>3, <1>6, <1>7, <1>8, ExportedNumbers
  <2>5. d \in Chunk
    <3> DEFINE i == d.index
               q == d.parents
    <3>1. d = [child |-> c, type |-> y, index |-> i, parents |-> q]
      BY <1>8
    <3>2. i \in 1 .. Cardinality(Exported) /\ q \in SUBSET Exported
      BY <2>3, <2>4
    <3> HIDE DEF i, q
    <3> QED  BY <3>1, <3>2 DEF Chunk
  <2>6. \A x \in d.parents : Said(x, d) \in F!Active(t)
    BY <1>1, <1>8, <2>1 DEF Said
  <2> QED  BY <1>8, <2>1, <2>3, <2>5, <2>6 DEF Honest
<1>10. \A d, e \in F!ChunksOf(t, c, y) : d.index = e.index => d = e
  BY <1>8
<1>11. ASSUME NEW r \in F!Active(t), r.child = c, r.type = y
       PROVE  \E d \in F!ChunksOf(t, c, y) : r.parent \in d.parents
  <2>1. PICK i \in 1 .. k : r.parent \in p[i]
    BY <1>2, <1>7, <1>11
  <2> DEFINE d == [child |-> c, type |-> y, index |-> i, parents |-> p[i]]
  <2>2. d \in F!ChunksOf(t, c, y) /\ d.parents = p[i]
    BY <1>4, <1>7
  <2> QED  BY <2>1, <2>2
<1> QED  BY <1>9, <1>10, <1>11

LEMMA ChunkSetMeant ==
  ASSUME F!GedcomAssumption, NEW t, t.relations \subseteq F!Relation
  PROVE  /\ IsFiniteSet(ChunkSet(t))
         /\ \A d \in ChunkSet(t) : Honest(d, t)
         /\ \A d, e \in ChunkSet(t) :
              d.child = e.child /\ d.type = e.type /\ d.index = e.index => d = e
         /\ \A r \in F!Active(t) :
              \E d \in ChunkSet(t) : r.parent \in d.parents /\ Said(r.parent, d) = r
<1>1. ASSUME NEW d \in ChunkSet(t)
      PROVE  /\ Honest(d, t)
             /\ d.child \in Exported /\ d.type \in Kinships
             /\ d \in F!ChunksOf(t, d.child, d.type)
  <2>1. PICK c \in Exported, y \in Kinships : d \in F!ChunksOf(t, c, y)
    BY DEF ChunkSet
  <2> QED  BY <2>1, ChunksOfMeant
<1>2. \A d, e \in ChunkSet(t) :
        d.child = e.child /\ d.type = e.type /\ d.index = e.index => d = e
  BY <1>1, ChunksOfMeant
<1>3. ASSUME NEW r \in F!Active(t)
      PROVE  \E d \in ChunkSet(t) : r.parent \in d.parents /\ Said(r.parent, d) = r
  <2>1. /\ r = [parent |-> r.parent, child |-> r.child, type |-> r.type]
        /\ r.child \in Exported /\ r.type \in Kinships
    BY ActiveRelations
  <2>2. PICK d \in F!ChunksOf(t, r.child, r.type) : r.parent \in d.parents
    BY <2>1, ChunksOfMeant
  <2>3. d.child = r.child /\ d.type = r.type
    BY <2>1, <2>2, ChunksOfMeant
  <2>4. d \in ChunkSet(t)
    BY <2>1, <2>2 DEF ChunkSet
  <2> QED  BY <2>1, <2>2, <2>3, <2>4 DEF Said
<1>4. IsFiniteSet(ChunkSet(t))
  <2> DEFINE N == 1 .. Cardinality(Exported)
             P == Exported \X (Kinships \X (N \X SUBSET Exported))
             f == [x \in P |-> [child |-> x[1], type |-> x[2][1], index |-> x[2][2][1],
                                parents |-> x[2][2][2]]]
  <2>1. IsFiniteSet(N) /\ IsFiniteSet(SUBSET Exported)
    <3>1. IsFiniteSet(N)
      BY ExportedNumbers, FS_Interval
    <3>2. IsFiniteSet(SUBSET Exported)
      BY ExportedNumbers, FS_SUBSET
    <3> QED  BY <3>1, <3>2
  <2>2. IsFiniteSet(P)
    <3> HIDE DEF N
    <3>1. IsFiniteSet(N \X SUBSET Exported)
      BY <2>1, FS_Product
    <3>2. IsFiniteSet(Kinships \X (N \X SUBSET Exported))
      BY <3>1, ExportedNumbers, FS_Product
    <3> QED  BY <3>2, ExportedNumbers, FS_Product
  <2>3. f \in Surjection(P, Chunk)
    <3>1. f \in [P -> Chunk]
      BY DEF Chunk
    <3>2. ASSUME NEW d \in Chunk  PROVE \E x \in P : f[x] = d
      <4>1. /\ d.child \in Exported /\ d.type \in Kinships /\ d.index \in N
            /\ d.parents \in SUBSET Exported
            /\ d = [child |-> d.child, type |-> d.type, index |-> d.index,
                    parents |-> d.parents]
        BY DEF Chunk
      <4> DEFINE x == <<d.child, <<d.type, <<d.index, d.parents>>>>>>
      <4>2. x \in P
        BY <4>1
      <4>3. f[x] = d
        BY <4>1, <4>2
      <4> QED  BY <4>2, <4>3
    <3> QED  BY <3>1, <3>2 DEF Surjection
  <2>4. IsFiniteSet(Chunk)
    BY <2>2, <2>3, FS_Surjection
  <2>5. ChunkSet(t) \subseteq Chunk
    BY <1>1 DEF Honest
  <2> QED  BY <2>4, <2>5, FS_Subset
<1> QED  BY <1>1, <1>2, <1>3, <1>4

\* The chunks are listed by child, type and index, each once.
LEMMA ChunksListed ==
  ASSUME F!GedcomAssumption, NEW t, t.relations \subseteq F!Relation
  PROVE  Lists(F!Chunks(t), ChunkSet(t))
<1> DEFINE S == ChunkSet(t)
           R == {x \in S \X S : F!Before(x[1], x[2])}
           s == F!Chunks(t)
<1>1. IsFiniteSet(S)
  BY ChunkSetMeant
<1>2. \A x, y \in S : <<x, y>> \in R <=> F!Before(x, y)
  OBVIOUS
<1>3. /\ \A x \in S : x.child \in Nat /\ x.type \in Nat /\ x.index \in Nat
      /\ \A x, y \in S : x.child = y.child /\ x.type = y.type /\ x.index = y.index => x = y
  <2>1. \A x \in S : x \in Chunk
    BY ChunkSetMeant DEF Honest
  <2>2. \A x \in S : x.child \in Nat /\ x.type \in Nat /\ x.index \in Nat
    BY <2>1, ExportedNumbers DEF Chunk
  <2>3. \A x, y \in S : x.child = y.child /\ x.type = y.type /\ x.index = y.index => x = y
    BY ChunkSetMeant
  <2> QED  BY <2>2, <2>3
<1> HIDE DEF S, R
<1>4. /\ \A x \in S : <<x, x>> \notin R
      /\ \A x, y \in S : x # y => <<x, y>> \in R \/ <<y, x>> \in R
      /\ \A x, y, z \in S : <<x, y>> \in R /\ <<y, z>> \in R => <<x, z>> \in R
  <2>1. \A x \in S : <<x, x>> \notin R
    BY <1>2, <1>3 DEF F!Before
  <2>2. \A x, y \in S : x # y => <<x, y>> \in R \/ <<y, x>> \in R
    BY <1>2, <1>3 DEF F!Before
  <2>3. \A x, y, z \in S : <<x, y>> \in R /\ <<y, z>> \in R => <<x, z>> \in R
    BY <1>2, <1>3 DEF F!Before
  <2> QED  BY <2>1, <2>2, <2>3
<1>5. F!Cardinality(S) = Cardinality(S)
  BY GedcomFinite
<1>6. PICK f \in [1 .. Cardinality(S) -> S] : InOrder(f, Cardinality(S), R)
  BY <1>1, <1>4, OrderExists
<1>7. \A i, j \in 1 .. F!Cardinality(S) : i < j => F!Before(f[i], f[j])
  BY <1>2, <1>5, <1>6 DEF InOrder
<1>8. \E u \in [1 .. F!Cardinality(S) -> S] :
        \A i, j \in 1 .. F!Cardinality(S) : i < j => F!Before(u[i], u[j])
  BY <1>5, <1>6, <1>7
<1>9. s = CHOOSE u \in [1 .. F!Cardinality(S) -> S] :
            \A i, j \in 1 .. F!Cardinality(S) : i < j => F!Before(u[i], u[j])
  BY DEF F!Chunks, S, ChunkSet
<1> HIDE DEF s
<1>10. /\ s \in [1 .. F!Cardinality(S) -> S]
       /\ \A i, j \in 1 .. F!Cardinality(S) : i < j => F!Before(s[i], s[j])
  BY <1>8, <1>9
<1>11. InOrder(s, Cardinality(S), R)
  BY <1>2, <1>5, <1>10 DEF InOrder
<1>12. Lists(s, S)
  BY <1>1, <1>4, <1>5, <1>10, <1>11, OrderLists
<1> QED  BY <1>12 DEF s, S

Xref(d) == <<"relation", d.child, d.type, d.index, d.parents>>

Xrefs == {<<"union", u, n>> : u \in Marriages, n \in Nat} \cup {Xref(d) : d \in Chunk}

\* Maps from some of the keys to types of relations.
LinkMaps(keys) == UNION {[S -> Kinships] : S \in SUBSET keys}

FamRecord == [xref : Xrefs, partners : SUBSET Exported, children : Seq(Exported),
              childLinks : LinkMaps(Exported)]

IndiRecord == [asPartner : SUBSET Xrefs, asChild : LinkMaps(Xrefs)]

TreeTypes(t) ==
  /\ t.active \subseteq Exported
  /\ t.members \in [Marriages -> SUBSET Exported]
  /\ t.relations \subseteq F!Relation

\* The record f and the persons point at each other.
Mutual(f, people, t) ==
  /\ \A p \in t.active : p \in f.partners <=> f.xref \in people[p].asPartner
  /\ \A p \in t.active : p \in DOMAIN f.childLinks <=> f.xref \in DOMAIN people[p].asChild
  /\ \A c \in DOMAIN f.childLinks : people[c].asChild[f.xref] = f.childLinks[c]

\* A record of one or two active partners says nothing that the tree does not.
Truthful(f, t) ==
  /\ f.partners \subseteq t.active /\ Cardinality(f.partners) \in 1 .. 2
  /\ DOMAIN f.childLinks \subseteq t.active
  /\ Len(f.children) = Cardinality(DOMAIN f.childLinks)
  /\ \A p \in f.partners, c \in DOMAIN f.childLinks :
       [parent |-> p, child |-> c, type |-> f.childLinks[c]] \in F!Active(t)

Consistent(recs, people, t) ==
  /\ recs \in Seq(FamRecord)
  /\ people \in [t.active -> IndiRecord]
  /\ \A i, j \in 1 .. Len(recs) : recs[i].xref = recs[j].xref => i = j
  /\ \A p \in t.active, x \in Xrefs :
       x \in people[p].asPartner \/ x \in DOMAIN people[p].asChild
         => \E i \in 1 .. Len(recs) : recs[i].xref = x
  /\ \A i \in 1 .. Len(recs) : Truthful(recs[i], t) /\ Mutual(recs[i], people, t)

\* The record f says the relation r.
Says(f, r) ==
  r.parent \in f.partners /\ r.child \in DOMAIN f.childLinks /\ f.childLinks[r.child] = r.type

\* It says every relation of the chunk d.
Tells(f, d) == \A p \in d.parents : Says(f, Said(p, d))

\* The records stay and go on saying what they said.
Kept(old, new) ==
  \A i \in 1 .. Len(old) :
    /\ new[i].xref = old[i].xref /\ new[i].partners = old[i].partners
    /\ \A r : Says(old[i], r) => Says(new[i], r)

OfUnion(f, u) == f.xref[1] = "union" /\ f.xref[2] = u

\* What is not in the records yet is still to be written, and its records are not there yet.
Remaining(recs, us, ds, t) ==
  /\ us \in Seq(Marriages) /\ ds \in Seq(Chunk)
  /\ \A i, j \in 1 .. Len(us) : us[i] = us[j] => i = j
  /\ \A i, j \in 1 .. Len(ds) : ds[i] = ds[j] => i = j
  /\ \A k \in 1 .. Len(ds) : Honest(ds[k], t)
  /\ \A i \in 1 .. Len(recs), k \in 1 .. Len(us) : ~ OfUnion(recs[i], us[k])
  /\ \A i \in 1 .. Len(recs), k \in 1 .. Len(ds) : recs[i].xref # Xref(ds[k])
  /\ \A r \in F!Active(t) :
       \/ \E i \in 1 .. Len(recs) : Says(recs[i], r)
       \/ \E k \in 1 .. Len(ds) : r.parent \in ds[k].parents /\ Said(r.parent, ds[k]) = r
  /\ \A i \in 1 .. Len(recs), u \in Marriages :
       OfUnion(recs[i], u) => recs[i].partners \subseteq t.members[u]
  /\ \A u \in Marriages : (\A k \in 1 .. Len(us) : us[k] # u) =>
       \A p \in t.members[u] \cap t.active :
         \E i \in 1 .. Len(recs) : OfUnion(recs[i], u) /\ p \in recs[i].partners

GedcomInv ==
  TreeTypes(tree) /\ Consistent(families, links, tree)
    /\ Remaining(families, unionsLeft, chunksLeft, tree)

LEMMA EmptyMap ==
  ASSUME NEW keys
  PROVE  <<>> \in LinkMaps(keys) /\ DOMAIN <<>> = {}
<1>1. <<>> \in [{} -> Kinships] /\ DOMAIN <<>> = {}
  OBVIOUS
<1> QED  BY <1>1 DEF LinkMaps

LEMMA GedcomInit ==
  ASSUME F!GedcomAssumption, F!Init  PROVE GedcomInv
<1>1. /\ tree.active \in SUBSET Exported
      /\ tree.members \in [Marriages -> SUBSET Exported]
      /\ tree.relations \in F!RelationSets \cup {{}}
      /\ unionsLeft = F!Sorted(Marriages) /\ chunksLeft = F!Chunks(tree) /\ families = <<>>
      /\ links = [p \in tree.active |-> [asPartner |-> {}, asChild |-> <<>>]]
  BY DEF F!Init
<1>2. tree.relations \subseteq F!Relation
  <2>1. ASSUME NEW E \in F!RelationSets  PROVE E \subseteq F!Relation
    <3>1. PICK s \in [1 .. MaxDrawn -> {r \in F!Relation : r.parent # r.child}] : E = F!ToSet(s)
      BY DEF F!RelationSets
    <3> QED  BY <3>1 DEF F!ToSet
  <2> QED  BY <1>1, <2>1
<1>3. TreeTypes(tree)
  BY <1>1, <1>2 DEF TreeTypes
<1>4. families \in Seq(FamRecord) /\ Len(families) = 0 /\ 1 .. Len(families) = {}
  BY <1>1
<1>5. Consistent(families, links, tree)
  <2>1. [asPartner |-> {}, asChild |-> <<>>] \in IndiRecord
    BY EmptyMap DEF IndiRecord
  <2>2. links \in [tree.active -> IndiRecord]
    BY <1>1, <2>1
  <2>3. \A p \in tree.active : links[p].asPartner = {} /\ DOMAIN links[p].asChild = {}
    BY <1>1, EmptyMap
  <2> QED  BY <1>4, <2>2, <2>3 DEF Consistent
<1>6. Lists(unionsLeft, Marriages)
  BY <1>1, ExportedNumbers, SortedMeant
<1>7. Lists(chunksLeft, ChunkSet(tree))
  BY <1>1, <1>2, ChunksListed
<1>8. \A d \in ChunkSet(tree) : Honest(d, tree) /\ d \in Chunk
  BY <1>2, ChunkSetMeant DEF Honest
<1>9. /\ chunksLeft \in Seq(Chunk)
      /\ \A k \in 1 .. Len(chunksLeft) : Honest(chunksLeft[k], tree)
  <2>1. chunksLeft \in Seq(ChunkSet(tree))
    BY <1>7 DEF Lists
  <2> QED  BY <1>8, <2>1
<1>10. ASSUME NEW r \in F!Active(tree)
       PROVE  \E k \in 1 .. Len(chunksLeft) :
                r.parent \in chunksLeft[k].parents /\ Said(r.parent, chunksLeft[k]) = r
  <2>1. PICK d \in ChunkSet(tree) : r.parent \in d.parents /\ Said(r.parent, d) = r
    BY <1>2, ChunkSetMeant
  <2>2. PICK k \in 1 .. Len(chunksLeft) : chunksLeft[k] = d
    BY <1>7, <2>1 DEF Lists
  <2> QED  BY <2>1, <2>2
<1>11. Remaining(families, unionsLeft, chunksLeft, tree)
  <2>1. /\ unionsLeft \in Seq(Marriages)
        /\ \A i, j \in 1 .. Len(unionsLeft) : unionsLeft[i] = unionsLeft[j] => i = j
        /\ \A i, j \in 1 .. Len(chunksLeft) : chunksLeft[i] = chunksLeft[j] => i = j
        /\ \A u \in Marriages : \E k \in 1 .. Len(unionsLeft) : unionsLeft[k] = u
    BY <1>6, <1>7 DEF Lists
  <2> QED  BY <1>4, <1>9, <1>10, <2>1 DEF Remaining
<1> QED  BY <1>3, <1>5, <1>11 DEF GedcomInv

\* When nothing remains the records are the active tree.
LEMMA ExportMeant ==
  ASSUME GedcomInv, unionsLeft = <<>>, chunksLeft = <<>>
  PROVE  F!RelationsExact /\ F!PointersMutual /\ F!UnionsKept
<1>1. /\ TreeTypes(tree) /\ Consistent(families, links, tree)
      /\ Remaining(families, unionsLeft, chunksLeft, tree)
  BY DEF GedcomInv
<1>2. /\ families \in Seq(FamRecord) /\ Len(families) \in Nat
      /\ \A f : f \in F!ToSet(families) <=> \E i \in 1 .. Len(families) : f = families[i]
  BY <1>1 DEF Consistent, F!ToSet
<1>3. 1 .. Len(unionsLeft) = {} /\ 1 .. Len(chunksLeft) = {}
  OBVIOUS
<1>4. \A f \in F!ToSet(families) : Truthful(f, tree) /\ Mutual(f, links, tree)
  BY <1>1, <1>2 DEF Consistent
<1>5. F!RelationsExact
  <2>1. ASSUME NEW x \in F!Read  PROVE x \in F!Active(tree)
    <3>1. PICK f \in F!ToSet(families) : \E p \in f.partners, c \in DOMAIN f.childLinks :
            x = [parent |-> p, child |-> c, type |-> f.childLinks[c]]
      BY DEF F!Read
    <3> QED  BY <1>4, <3>1 DEF Truthful
  <2>2. ASSUME NEW r \in F!Active(tree)  PROVE r \in F!Read
    <3>1. r = [parent |-> r.parent, child |-> r.child, type |-> r.type]
      BY <1>1, ActiveRelations DEF TreeTypes
    <3>2. PICK i \in 1 .. Len(families) : Says(families[i], r)
      BY <1>1, <1>3 DEF Remaining
    <3> DEFINE f == families[i]
               p == r.parent
               c == r.child
    <3>3. /\ f \in F!ToSet(families) /\ p \in f.partners /\ c \in DOMAIN f.childLinks
          /\ r = [parent |-> p, child |-> c, type |-> f.childLinks[c]]
      BY <1>2, <3>1, <3>2 DEF Says
    <3> HIDE DEF f, p, c
    <3> QED  BY <3>3 DEF F!Read
  <2> QED  BY <2>1, <2>2 DEF F!RelationsExact
<1>6. F!PointersMutual
  <2>1. ASSUME NEW f \in F!ToSet(families)
        PROVE  /\ Len(f.children) = F!Cardinality(DOMAIN f.childLinks)
               /\ \A p \in tree.active : p \in f.partners <=> f.xref \in links[p].asPartner
               /\ \A p \in tree.active :
                    p \in DOMAIN f.childLinks <=> f.xref \in DOMAIN links[p].asChild
               /\ \A c \in DOMAIN f.childLinks : links[c].asChild[f.xref] = f.childLinks[c]
    BY <1>4, GedcomFinite DEF Truthful, Mutual
  <2>2. F!Cardinality({f.xref : f \in F!ToSet(families)}) = Len(families)
    <3> DEFINE n == Len(families)
               X == {f.xref : f \in F!ToSet(families)}
               h == [i \in 1 .. n |-> families[i].xref]
    <3>1. \A x : x \in X <=> \E i \in 1 .. n : x = families[i].xref
      BY <1>2
    <3>2. n \in Nat /\ \A i, j \in 1 .. n : families[i].xref = families[j].xref => i = j
      BY <1>1, <1>2 DEF Consistent
    <3>3. \A i \in 1 .. n : h[i] = families[i].xref
      OBVIOUS
    <3> HIDE DEF X
    <3>4. h \in [1 .. n -> X]
      BY <3>1
    <3> HIDE DEF h, n
    <3>5. h \in Injection(1 .. n, X) /\ h \in Surjection(1 .. n, X)
      <4>1. \A i, j \in 1 .. n : h[i] = h[j] => i = j
        BY <3>2, <3>3
      <4>2. \A x \in X : \E i \in 1 .. n : h[i] = x
        BY <3>1, <3>3
      <4>3. h \in Injection(1 .. n, X)
        BY <3>4, <4>1 DEF Injection, IsInjective
      <4>4. h \in Surjection(1 .. n, X)
        BY <3>4, <4>2 DEF Surjection
      <4> QED  BY <4>3, <4>4
    <3>6. IsFiniteSet(1 .. n) /\ Cardinality(1 .. n) = n
      BY <3>2, FS_Interval
    <3>7. Cardinality(X) = n
      BY <3>5, <3>6, FS_Surjection
    <3> QED  BY <3>7, GedcomFinite DEF X, n
  <2> QED  BY <2>1, <2>2 DEF F!PointersMutual
<1>7. F!UnionsKept
  <2>1. \A f \in F!ToSet(families) : F!Cardinality(f.partners) \in 1 .. 2
    BY <1>4, GedcomFinite DEF Truthful
  <2>2. ASSUME NEW u \in Marriages
        PROVE  UNION {f.partners : f \in {g \in F!ToSet(families) :
                                             g.xref[1] = "union" /\ g.xref[2] = u}}
                 = tree.members[u] \cap tree.active
    <3>1. ASSUME NEW f \in F!ToSet(families), OfUnion(f, u)
          PROVE  f.partners \subseteq tree.members[u] /\ f.partners \subseteq tree.active
      BY <1>1, <1>2, <1>4, <3>1 DEF Remaining, Truthful
    <3>2. ASSUME NEW p \in tree.members[u] \cap tree.active
          PROVE  \E f \in F!ToSet(families) : OfUnion(f, u) /\ p \in f.partners
      BY <1>1, <1>2, <1>3 DEF Remaining
    <3> QED  BY <3>1, <3>2 DEF OfUnion
  <2> QED  BY <2>1, <2>2 DEF F!UnionsKept
<1> QED  BY <1>5, <1>6, <1>7

LEMMA MapsMeant ==
  ASSUME NEW keys, NEW f \in LinkMaps(keys)
  PROVE  DOMAIN f \subseteq keys /\ \A x \in DOMAIN f : f[x] \in Kinships
BY DEF LinkMaps

\* The map g is the map f with an entry for k.
Extended(g, f, k, v) ==
  DOMAIN g = DOMAIN f \cup {k} /\ g[k] = v /\ \A x \in DOMAIN f : x # k => g[x] = f[x]

LEMMA PutMeant ==
  ASSUME NEW keys, NEW f \in LinkMaps(keys), NEW k \in keys, NEW v \in Kinships
  PROVE  F!Put(f, k, v) \in LinkMaps(keys) /\ Extended(F!Put(f, k, v), f, k, v)
<1> DEFINE S == DOMAIN f \cup {k}
           g == [x \in S |-> IF x = k THEN v ELSE f[x]]
<1>1. F!Put(f, k, v) = g
  BY DEF F!Put
<1>2. S \in SUBSET keys /\ \A x \in DOMAIN f : f[x] \in Kinships
  BY MapsMeant
<1>3. g \in [S -> Kinships]
  BY <1>2
<1>4. DOMAIN g = S /\ g[k] = v /\ \A x \in DOMAIN f : x # k => g[x] = f[x]
  OBVIOUS
<1> HIDE DEF g, S
<1>5. g \in LinkMaps(keys)
  BY <1>2, <1>3 DEF LinkMaps
<1>6. Extended(g, f, k, v)
  BY <1>4 DEF S, Extended
<1> QED  BY <1>1, <1>5, <1>6

\* More records, without children and not there yet.
Fresh(more, recs, t) ==
  /\ more \in Seq(FamRecord)
  /\ \A i \in 1 .. Len(more) :
       /\ more[i].children = <<>> /\ more[i].childLinks = <<>>
       /\ more[i].partners \subseteq t.active /\ Cardinality(more[i].partners) \in 1 .. 2
  /\ \A i, j \in 1 .. Len(more) : more[i].xref = more[j].xref => i = j
  /\ \A i \in 1 .. Len(recs), j \in 1 .. Len(more) : recs[i].xref # more[j].xref

\* The persons point at the records more, too.
Joined(more, people, others, t) ==
  /\ others \in [t.active -> IndiRecord]
  /\ \A p \in t.active :
       /\ others[p].asChild = people[p].asChild
       /\ \A x \in Xrefs : x \in others[p].asPartner <=>
            \/ x \in people[p].asPartner
            \/ \E i \in 1 .. Len(more) : p \in more[i].partners /\ more[i].xref = x

\* New records without children, to which their partners point, keep the file consistent.
LEMMA Adding ==
  ASSUME NEW t, TreeTypes(t), NEW recs, NEW people, Consistent(recs, people, t),
         NEW more, Fresh(more, recs, t), NEW others, Joined(more, people, others, t)
  PROVE  Consistent(recs \o more, others, t)
<1> DEFINE all == recs \o more
<1>0. /\ more \in Seq(FamRecord)
      /\ \A i \in 1 .. Len(more) :
           /\ more[i].children = <<>> /\ more[i].childLinks = <<>>
           /\ more[i].partners \subseteq t.active /\ Cardinality(more[i].partners) \in 1 .. 2
      /\ \A i, j \in 1 .. Len(more) : more[i].xref = more[j].xref => i = j
      /\ \A i \in 1 .. Len(recs), j \in 1 .. Len(more) : recs[i].xref # more[j].xref
      /\ others \in [t.active -> IndiRecord]
      /\ \A p \in t.active :
           /\ others[p].asChild = people[p].asChild
           /\ \A x \in Xrefs : x \in others[p].asPartner <=>
                \/ x \in people[p].asPartner
                \/ \E i \in 1 .. Len(more) : p \in more[i].partners /\ more[i].xref = x
  BY DEF Fresh, Joined
<1>1. /\ recs \in Seq(FamRecord) /\ Len(recs) \in Nat /\ Len(more) \in Nat
      /\ \A i, j \in 1 .. Len(recs) : recs[i].xref = recs[j].xref => i = j
      /\ \A p \in t.active, x \in Xrefs :
           x \in people[p].asPartner \/ x \in DOMAIN people[p].asChild
             => \E i \in 1 .. Len(recs) : recs[i].xref = x
      /\ \A i \in 1 .. Len(recs) : Truthful(recs[i], t) /\ Mutual(recs[i], people, t)
  BY DEF Consistent
<1>2. /\ all \in Seq(FamRecord) /\ Len(all) = Len(recs) + Len(more)
      /\ \A i \in 1 .. Len(recs) : all[i] = recs[i]
      /\ \A i \in 1 .. Len(more) : all[Len(recs) + i] = more[i]
  BY <1>0, <1>1
<1> HIDE DEF all
<1>3. \A k \in 1 .. Len(all) : \/ k \in 1 .. Len(recs)
                               \/ \E i \in 1 .. Len(more) : k = Len(recs) + i
  <2> SUFFICES ASSUME NEW k \in 1 .. Len(all), k \notin 1 .. Len(recs)
               PROVE  \E i \in 1 .. Len(more) : k = Len(recs) + i
    OBVIOUS
  <2>1. k - Len(recs) \in 1 .. Len(more) /\ k = Len(recs) + (k - Len(recs))
    BY <1>1, <1>2
  <2> QED  BY <2>1
<1>4. /\ \A i \in 1 .. Len(recs) : recs[i] \in FamRecord /\ recs[i].xref \in Xrefs
      /\ \A i \in 1 .. Len(more) : more[i] \in FamRecord /\ more[i].xref \in Xrefs
  <2>1. \A f \in FamRecord : f.xref \in Xrefs
    BY DEF FamRecord
  <2> QED  BY <1>0, <1>1, <2>1
<1>5. ASSUME NEW k \in 1 .. Len(all), NEW l \in 1 .. Len(all), all[k].xref = all[l].xref
      PROVE  k = l
  <2>1. CASE k \in 1 .. Len(recs) /\ l \in 1 .. Len(recs)
    BY <1>1, <1>2, <1>5, <2>1
  <2>2. CASE k \in 1 .. Len(recs) /\ l \notin 1 .. Len(recs)
    <3>1. PICK j \in 1 .. Len(more) : l = Len(recs) + j
      BY <1>3, <2>2
    <3>2. recs[k].xref = more[j].xref
      BY <1>2, <1>5, <2>2, <3>1
    <3> QED  BY <1>0, <2>2, <3>2
  <2>3. CASE k \notin 1 .. Len(recs) /\ l \in 1 .. Len(recs)
    <3>1. PICK j \in 1 .. Len(more) : k = Len(recs) + j
      BY <1>3, <2>3
    <3>2. recs[l].xref = more[j].xref
      BY <1>2, <1>5, <2>3, <3>1
    <3> QED  BY <1>0, <2>3, <3>2
  <2>4. CASE k \notin 1 .. Len(recs) /\ l \notin 1 .. Len(recs)
    <3>1. PICK i \in 1 .. Len(more) : k = Len(recs) + i
      BY <1>3, <2>4
    <3>2. PICK j \in 1 .. Len(more) : l = Len(recs) + j
      BY <1>3, <2>4
    <3>3. more[i].xref = more[j].xref
      BY <1>2, <1>5, <3>1, <3>2
    <3> QED  BY <1>0, <3>1, <3>2, <3>3
  <2> QED  BY <2>1, <2>2, <2>3, <2>4
<1>6. ASSUME NEW p \in t.active, NEW x \in Xrefs,
             x \in others[p].asPartner \/ x \in DOMAIN others[p].asChild
      PROVE  \E k \in 1 .. Len(all) : all[k].xref = x
  <2>1. CASE \E i \in 1 .. Len(recs) : recs[i].xref = x
    <3>1. PICK i \in 1 .. Len(recs) : recs[i].xref = x
      BY <2>1
    <3>2. i \in 1 .. Len(all) /\ all[i].xref = x
      BY <1>1, <1>2, <3>1
    <3> QED  BY <3>2
  <2>2. CASE \E i \in 1 .. Len(more) : more[i].xref = x
    <3>1. PICK i \in 1 .. Len(more) : more[i].xref = x
      BY <2>2
    <3>2. Len(recs) + i \in 1 .. Len(all) /\ all[Len(recs) + i].xref = x
      BY <1>1, <1>2, <3>1
    <3> QED  BY <3>2
  <2>3. \/ x \in people[p].asPartner \/ x \in DOMAIN people[p].asChild
        \/ \E i \in 1 .. Len(more) : more[i].xref = x
    BY <1>0, <1>6
  <2>4. x \in people[p].asPartner \/ x \in DOMAIN people[p].asChild
          => \E i \in 1 .. Len(recs) : recs[i].xref = x
    BY <1>1
  <2> QED  BY <2>1, <2>2, <2>3, <2>4
<1>7. ASSUME NEW i \in 1 .. Len(recs)
      PROVE  Truthful(recs[i], t) /\ Mutual(recs[i], others, t)
  <2>1. Truthful(recs[i], t) /\ Mutual(recs[i], people, t) /\ recs[i].xref \in Xrefs
    BY <1>1, <1>4
  <2>2. \A p \in t.active : recs[i].xref \in others[p].asPartner
                            <=> recs[i].xref \in people[p].asPartner
    BY <1>0, <2>1
  <2>3. \A c \in DOMAIN recs[i].childLinks : c \in t.active
    BY <2>1 DEF Truthful
  <2>4. \A p \in t.active :
          /\ p \in recs[i].partners <=> recs[i].xref \in others[p].asPartner
          /\ p \in DOMAIN recs[i].childLinks <=> recs[i].xref \in DOMAIN others[p].asChild
    BY <1>0, <2>1, <2>2 DEF Mutual
  <2>5. ASSUME NEW c \in DOMAIN recs[i].childLinks
        PROVE  others[c].asChild[recs[i].xref] = recs[i].childLinks[c]
    <3>1. c \in t.active /\ people[c].asChild[recs[i].xref] = recs[i].childLinks[c]
      BY <2>1, <2>3 DEF Mutual
    <3> QED  BY <1>0, <3>1
  <2> QED  BY <2>1, <2>4, <2>5 DEF Mutual
<1>8. ASSUME NEW i \in 1 .. Len(more)
      PROVE  Truthful(more[i], t) /\ Mutual(more[i], others, t)
  <2>1. DOMAIN more[i].childLinks = {} /\ Len(more[i].children) = 0
    BY <1>0, EmptyMap
  <2>2. Cardinality(DOMAIN more[i].childLinks) = 0
    BY <2>1, FS_EmptySet
  <2>3. Truthful(more[i], t)
    BY <1>0, <2>1, <2>2 DEF Truthful
  <2>4. more[i].xref \in Xrefs /\ \A j \in 1 .. Len(recs) : recs[j].xref # more[i].xref
    BY <1>0, <1>4
  <2>5. ASSUME NEW p \in t.active
        PROVE  /\ p \in more[i].partners <=> more[i].xref \in others[p].asPartner
               /\ more[i].xref \notin DOMAIN others[p].asChild
    <3>1. more[i].xref \notin people[p].asPartner /\ more[i].xref \notin DOMAIN people[p].asChild
      BY <1>1, <2>4
    <3>2. p \in more[i].partners <=>
            \E j \in 1 .. Len(more) : p \in more[j].partners /\ more[j].xref = more[i].xref
      BY <1>0
    <3> QED  BY <1>0, <2>4, <3>1, <3>2
  <2> QED  BY <2>1, <2>3, <2>5 DEF Mutual
<1>9. \A k \in 1 .. Len(all) : Truthful(all[k], t) /\ Mutual(all[k], others, t)
  BY <1>2, <1>3, <1>7, <1>8
<1>10. Consistent(all, others, t)
  BY <1>0, <1>2, <1>5, <1>6, <1>9 DEF Consistent
<1> QED  BY <1>10 DEF all

LEMMA FieldsChanged ==
  ASSUME NEW f \in FamRecord, NEW a, NEW b
  PROVE  [f EXCEPT !.children = a, !.childLinks = b]
           = [xref |-> f.xref, partners |-> f.partners, children |-> a, childLinks |-> b]
<1> DEFINE g == [f EXCEPT !.children = a, !.childLinks = b]
<1>1. f = [xref |-> f.xref, partners |-> f.partners, children |-> f.children,
           childLinks |-> f.childLinks]
  BY DEF FamRecord
<1>2. PICK x, q, k, l : f = [xref |-> x, partners |-> q, children |-> k, childLinks |-> l]
  BY <1>1
<1> DEFINE h == [xref |-> x, partners |-> q, children |-> a, childLinks |-> l]
<1>3. g = [[f EXCEPT !.children = a] EXCEPT !.childLinks = b]
  OBVIOUS
<1>4. [f EXCEPT !.children = a] = h
  BY <1>2
<1>5. [h EXCEPT !.childLinks = b]
        = [xref |-> x, partners |-> q, children |-> a, childLinks |-> b]
  OBVIOUS
<1>6. f.xref = x /\ f.partners = q
  BY <1>2
<1> HIDE DEF g, h
<1>7. g = [xref |-> x, partners |-> q, children |-> a, childLinks |-> b]
  BY <1>3, <1>4, <1>5
<1> QED  BY <1>6, <1>7 DEF g

LEMMA RecordChanged ==
  ASSUME NEW recs \in Seq(FamRecord), NEW i \in 1 .. Len(recs), NEW g \in FamRecord,
         NEW placed, placed = [recs EXCEPT ![i] = g]
  PROVE  /\ placed \in Seq(FamRecord) /\ Len(placed) = Len(recs)
         /\ placed[i] = g /\ \A j \in 1 .. Len(recs) : j # i => placed[j] = recs[j]
OBVIOUS

LEMMA PointerChanged ==
  ASSUME NEW act, NEW people \in [act -> IndiRecord], NEW c \in act, NEW g \in IndiRecord,
         NEW others, others = [people EXCEPT ![c] = g]
  PROVE  /\ others \in [act -> IndiRecord] /\ others[c] = g
         /\ \A p \in act : p # c => others[p] = people[p]
OBVIOUS

\* The record i of the persons' file gets the child of the chunk d.
GotChild(d, recs, people, i, placed, others, act) ==
  LET c == d.child
      f == recs[i]
  IN  /\ placed \in Seq(FamRecord) /\ Len(placed) = Len(recs)
      /\ \A j \in 1 .. Len(recs) : j # i => placed[j] = recs[j]
      /\ placed[i].xref = f.xref /\ placed[i].partners = f.partners
      /\ placed[i].children = Append(f.children, c)
      /\ Extended(placed[i].childLinks, f.childLinks, c, d.type)
      /\ others \in [act -> IndiRecord]
      /\ \A p \in act : p # c => others[p] = people[p]
      /\ others[c].asPartner = people[c].asPartner
      /\ Extended(others[c].asChild, people[c].asChild, f.xref, d.type)

LEMMA PlaceMeant ==
  ASSUME NEW d \in Chunk, NEW recs \in Seq(FamRecord), NEW i \in 1 .. Len(recs),
         NEW act, NEW people \in [act -> IndiRecord], d.child \in act,
         F!Place(d, recs, people, i)
  PROVE  /\ GotChild(d, recs, people, i, families', links', act)
         /\ chunksLeft' = Tail(chunksLeft) /\ UNCHANGED <<tree, unionsLeft>>
<1> DEFINE c == d.child
           y == d.type
           f == recs[i]
           e == people[c]
           kids == F!Put(f.childLinks, c, y)
           pointers == F!Put(e.asChild, f.xref, y)
           line == Append(f.children, c)
           g == [xref |-> f.xref, partners |-> f.partners, children |-> line,
                 childLinks |-> kids]
           o == [asPartner |-> e.asPartner, asChild |-> pointers]
<1>1. f \in FamRecord /\ e \in IndiRecord /\ c \in Exported /\ y \in Kinships
  BY DEF Chunk
<1>2. /\ families' = [recs EXCEPT ![i].children = line, ![i].childLinks = kids]
      /\ links' = [people EXCEPT ![c].asChild = pointers]
      /\ chunksLeft' = Tail(chunksLeft) /\ UNCHANGED <<tree, unionsLeft>>
  BY DEF F!Place
<1>3. families' = [recs EXCEPT ![i] = [f EXCEPT !.children = line, !.childLinks = kids]]
  <2> HIDE DEF line, kids
  <2> QED  BY <1>2
<1>4. links' = [people EXCEPT ![c] = [e EXCEPT !.asChild = pointers]]
  <2> HIDE DEF pointers
  <2> QED  BY <1>2
<1>5. f.xref \in Xrefs /\ f.partners \subseteq Exported /\ f.children \in Seq(Exported)
      /\ f.childLinks \in LinkMaps(Exported)
  <2> HIDE DEF f
  <2> QED  BY <1>1 DEF FamRecord
<1>6. e.asPartner \subseteq Xrefs /\ e.asChild \in LinkMaps(Xrefs)
      /\ e = [asPartner |-> e.asPartner, asChild |-> e.asChild]
  <2> HIDE DEF e
  <2> QED  BY <1>1 DEF IndiRecord
<1>7. line \in Seq(Exported)
  BY <1>1, <1>5
<1> HIDE DEF c, y, f, e, kids, pointers, line
<1>8. kids \in LinkMaps(Exported) /\ Extended(kids, f.childLinks, c, y)
  <2>1. f.childLinks \in LinkMaps(Exported) /\ c \in Exported /\ y \in Kinships
    BY <1>1, <1>5
  <2> QED  BY <2>1, PutMeant DEF kids
<1>9. pointers \in LinkMaps(Xrefs) /\ Extended(pointers, e.asChild, f.xref, y)
  <2>1. e.asChild \in LinkMaps(Xrefs) /\ f.xref \in Xrefs /\ y \in Kinships
    BY <1>1, <1>5, <1>6
  <2> QED  BY <2>1, PutMeant DEF pointers
<1>10. [f EXCEPT !.children = line, !.childLinks = kids] = g
  BY <1>1, FieldsChanged
<1>11. [e EXCEPT !.asChild = pointers] = o
  BY <1>6
<1>12. g \in FamRecord /\ g.xref = f.xref /\ g.partners = f.partners /\ g.children = line
       /\ g.childLinks = kids
  BY <1>5, <1>7, <1>8 DEF FamRecord
<1>13. o \in IndiRecord /\ o.asPartner = e.asPartner /\ o.asChild = pointers
  BY <1>6, <1>9 DEF IndiRecord
<1> HIDE DEF g, o
<1>14. families' = [recs EXCEPT ![i] = g] /\ links' = [people EXCEPT ![c] = o]
  BY <1>3, <1>4, <1>10, <1>11
<1>15. /\ families' \in Seq(FamRecord) /\ Len(families') = Len(recs)
       /\ families'[i] = g /\ \A j \in 1 .. Len(recs) : j # i => families'[j] = recs[j]
  BY <1>12, <1>14, RecordChanged
<1>16. c \in act
  BY DEF c
<1>17. /\ links' \in [act -> IndiRecord] /\ links'[c] = o
       /\ \A p \in act : p # c => links'[p] = people[p]
  BY <1>13, <1>14, <1>16, PointerChanged
<1>18. GotChild(d, recs, people, i, families', links', act)
  BY <1>8, <1>9, <1>12, <1>13, <1>15, <1>17 DEF GotChild, c, y, f, e, line
<1> QED  BY <1>2, <1>18

\* A child that is placed below exactly its parents keeps the file consistent.
LEMMA Placing ==
  ASSUME F!GedcomAssumption, NEW t, TreeTypes(t), NEW recs, NEW people, Consistent(recs, people, t),
         NEW d, Honest(d, t), NEW i \in 1 .. Len(recs), recs[i].partners = d.parents,
         d.child \notin DOMAIN recs[i].childLinks,
         NEW placed, NEW others, GotChild(d, recs, people, i, placed, others, t.active)
  PROVE  /\ Consistent(placed, others, t) /\ Len(placed) = Len(recs)
         /\ Kept(recs, placed) /\ Tells(placed[i], d)
<1> DEFINE f == recs[i]
           c == d.child
           g == placed[i]
           m == people[c].asChild
           pointers == others[c].asChild
<1>1. /\ recs \in Seq(FamRecord) /\ Len(recs) \in Nat
      /\ people \in [t.active -> IndiRecord]
      /\ \A j, k \in 1 .. Len(recs) : recs[j].xref = recs[k].xref => j = k
      /\ \A p \in t.active, x \in Xrefs :
           x \in people[p].asPartner \/ x \in DOMAIN people[p].asChild
             => \E j \in 1 .. Len(recs) : recs[j].xref = x
      /\ \A j \in 1 .. Len(recs) : Truthful(recs[j], t) /\ Mutual(recs[j], people, t)
  BY DEF Consistent
<1>2. /\ c \in t.active /\ c \in Exported /\ d.type \in Kinships /\ d \in Chunk
      /\ \A p \in d.parents : Said(p, d) \in F!Active(t)
  BY DEF Honest, Chunk
<1>3. \A j \in 1 .. Len(recs) :
        /\ recs[j] \in FamRecord /\ recs[j].xref \in Xrefs
        /\ recs[j].children \in Seq(Exported) /\ recs[j].childLinks \in LinkMaps(Exported)
  <2>1. \A r \in FamRecord : /\ r.xref \in Xrefs /\ r.children \in Seq(Exported)
                             /\ r.childLinks \in LinkMaps(Exported)
    BY DEF FamRecord
  <2> QED  BY <1>1, <2>1
<1>5. /\ DOMAIN g.childLinks = DOMAIN f.childLinks \cup {c} /\ g.childLinks[c] = d.type
      /\ \A x \in DOMAIN f.childLinks : x # c => g.childLinks[x] = f.childLinks[x]
  BY DEF GotChild, Extended
<1>6. /\ DOMAIN pointers = DOMAIN m \cup {f.xref} /\ pointers[f.xref] = d.type
      /\ \A x \in DOMAIN m : x # f.xref => pointers[x] = m[x]
  BY DEF GotChild, Extended
<1>7. /\ placed \in Seq(FamRecord) /\ Len(placed) = Len(recs)
      /\ \A j \in 1 .. Len(recs) : j # i => placed[j] = recs[j]
      /\ g.xref = f.xref /\ g.partners = f.partners
      /\ g.children = Append(f.children, c)
  BY DEF GotChild
<1>8. /\ others \in [t.active -> IndiRecord]
      /\ \A p \in t.active : p # c => others[p] = people[p]
      /\ others[c].asPartner = people[c].asPartner
  BY DEF GotChild
<1>9. \A j \in 1 .. Len(recs) :
         placed[j].xref = recs[j].xref /\ placed[j].partners = recs[j].partners
  BY <1>7
<1>10. ASSUME NEW p \in t.active, NEW x \in Xrefs,
              x \in others[p].asPartner \/ x \in DOMAIN others[p].asChild
       PROVE  \E j \in 1 .. Len(placed) : placed[j].xref = x
  <2>1. \E j \in 1 .. Len(recs) : recs[j].xref = x
    BY <1>1, <1>6, <1>8, <1>10
  <2> QED  BY <1>7, <1>9, <2>1
<1>11. Truthful(g, t)
  <2>1. Truthful(f, t) /\ f.children \in Seq(Exported)
    BY <1>1, <1>3
  <2>2. Len(g.children) = Cardinality(DOMAIN g.childLinks)
    <3>1. IsFiniteSet(DOMAIN f.childLinks) /\ c \notin DOMAIN f.childLinks
      <4>1. DOMAIN f.childLinks \subseteq Exported
        BY <1>3, MapsMeant
      <4> QED  BY <4>1, ExportedNumbers, FS_Subset
    <3>2. Cardinality(DOMAIN f.childLinks \cup {c}) = Cardinality(DOMAIN f.childLinks) + 1
      BY <3>1, FS_AddElement
    <3> QED  BY <1>5, <1>7, <2>1, <3>2 DEF Truthful
  <2>3. ASSUME NEW p \in g.partners, NEW x \in DOMAIN g.childLinks
        PROVE  [parent |-> p, child |-> x, type |-> g.childLinks[x]] \in F!Active(t)
    <3>1. CASE x = c
      BY <1>2, <1>5, <1>7, <3>1 DEF Said
    <3>2. CASE x # c
      BY <1>5, <1>7, <2>1, <3>2 DEF Truthful
    <3> QED  BY <3>1, <3>2
  <2> QED  BY <1>2, <1>5, <1>7, <2>1, <2>2, <2>3 DEF Truthful
<1>12. ASSUME NEW j \in 1 .. Len(recs)
       PROVE  Mutual(placed[j], others, t)
  <2> DEFINE h == recs[j]
  <2>1. Truthful(h, t) /\ Mutual(h, people, t) /\ h.xref \in Xrefs
    BY <1>1, <1>3
  <2>2. \A p \in t.active : others[p].asPartner = people[p].asPartner
    BY <1>8
  <2>3. CASE j # i
    <3>1. placed[j] = h /\ h.xref # f.xref
      BY <1>1, <1>7, <2>3
    <3>2. \A p \in t.active : /\ h.xref \in DOMAIN others[p].asChild
                                 <=> h.xref \in DOMAIN people[p].asChild
                              /\ h.xref \in DOMAIN people[p].asChild
                                 => others[p].asChild[h.xref] = people[p].asChild[h.xref]
      BY <1>6, <1>8, <3>1
    <3>3. \A x \in DOMAIN h.childLinks : x \in t.active
      BY <2>1 DEF Truthful
    <3> HIDE DEF h
    <3>4. Mutual(h, others, t)
      <4>1. \A p \in t.active : p \in h.partners <=> h.xref \in others[p].asPartner
        BY <2>1, <2>2 DEF Mutual
      <4>2. \A p \in t.active : p \in DOMAIN h.childLinks <=> h.xref \in DOMAIN others[p].asChild
        BY <2>1, <3>2 DEF Mutual
      <4>3. ASSUME NEW x \in DOMAIN h.childLinks
            PROVE  others[x].asChild[h.xref] = h.childLinks[x]
        <5>1. /\ x \in t.active /\ people[x].asChild[h.xref] = h.childLinks[x]
              /\ h.xref \in DOMAIN people[x].asChild
          BY <2>1, <3>3 DEF Mutual
        <5> QED  BY <3>2, <5>1
      <4> QED  BY <4>1, <4>2, <4>3 DEF Mutual
    <3> QED  BY <3>1, <3>4
  <2>4. CASE j = i
    <3>1. Mutual(f, people, t) /\ Truthful(f, t)
      BY <1>1
    <3>2. \A p \in t.active : p \in g.partners <=> g.xref \in others[p].asPartner
      BY <1>7, <2>2, <3>1 DEF Mutual
    <3>3. \A p \in t.active : p \in DOMAIN g.childLinks <=> g.xref \in DOMAIN others[p].asChild
      BY <1>5, <1>6, <1>8, <1>7, <3>1 DEF Mutual
    <3>4. \A x \in DOMAIN g.childLinks : others[x].asChild[g.xref] = g.childLinks[x]
      <4> SUFFICES ASSUME NEW x \in DOMAIN g.childLinks
                   PROVE  others[x].asChild[g.xref] = g.childLinks[x]
        OBVIOUS
      <4>1. CASE x = c
        BY <1>5, <1>6, <1>7, <1>8, <4>1
      <4>2. CASE x # c
        <5>1. x \in DOMAIN f.childLinks /\ x \in t.active
          BY <1>5, <1>7, <3>1, <4>2 DEF Truthful
        <5> QED  BY <1>5, <1>8, <1>7, <3>1, <4>2, <5>1 DEF Mutual
      <4> QED  BY <4>1, <4>2
    <3>5. Mutual(g, others, t)
      BY <3>2, <3>3, <3>4 DEF Mutual
    <3> QED  BY <2>4, <3>5
  <2> QED  BY <2>3, <2>4
<1>13. \A j \in 1 .. Len(placed) : Truthful(placed[j], t) /\ Mutual(placed[j], others, t)
  BY <1>1, <1>7, <1>11, <1>12
<1>14. \A j, k \in 1 .. Len(placed) : placed[j].xref = placed[k].xref => j = k
  BY <1>1, <1>7, <1>9
<1>15. Consistent(placed, others, t)
  BY <1>7, <1>8, <1>10, <1>13, <1>14 DEF Consistent
<1>16. \A j \in 1 .. Len(recs) : \A r : Says(recs[j], r) => Says(placed[j], r)
  <2> SUFFICES ASSUME NEW j \in 1 .. Len(recs), NEW r, Says(recs[j], r)
               PROVE  Says(placed[j], r)
    OBVIOUS
  <2>1. CASE j # i
    BY <1>7, <2>1
  <2>2. CASE j = i
    BY <1>5, <1>7, <2>2 DEF Says
  <2> QED  BY <2>1, <2>2
<1>17. \A p \in d.parents : Says(placed[i], Said(p, d))
  BY <1>5, <1>7 DEF Says, Said
<1> QED  BY <1>7, <1>9, <1>15, <1>16, <1>17 DEF Kept, Tells

\* Chunks are told apart by the names of their records.
LEMMA XrefsDiffer ==
  ASSUME NEW d \in Chunk, NEW e \in Chunk, Xref(d) = Xref(e)  PROVE d = e
<1>1. d.child = e.child /\ d.type = e.type /\ d.index = e.index /\ d.parents = e.parents
  BY DEF Xref
<1>2. \A c \in Chunk : c = [child |-> c.child, type |-> c.type, index |-> c.index,
                            parents |-> c.parents]
  BY DEF Chunk
<1> QED  BY <1>1, <1>2

\* What is left of a list when its first member is done.
LEMMA Rest ==
  ASSUME NEW S, NEW s \in Seq(S), s # <<>>, \A i, j \in 1 .. Len(s) : s[i] = s[j] => i = j
  PROVE  /\ Head(s) \in S /\ Head(s) = s[1] /\ Tail(s) \in Seq(S) /\ 1 \in 1 .. Len(s)
         /\ \A i, j \in 1 .. Len(Tail(s)) : Tail(s)[i] = Tail(s)[j] => i = j
         /\ \A k \in 1 .. Len(Tail(s)) :
              /\ k + 1 \in 1 .. Len(s) /\ Tail(s)[k] = s[k + 1] /\ Tail(s)[k] # Head(s)
         /\ \A k \in 1 .. Len(s) :
              s[k] = Head(s) \/ (k - 1 \in 1 .. Len(Tail(s)) /\ Tail(s)[k - 1] = s[k])
<1>1. /\ Len(s) \in Nat \ {0} /\ Head(s) = s[1] /\ s[1] \in S /\ 1 \in 1 .. Len(s)
      /\ Tail(s) \in Seq(S) /\ Len(Tail(s)) = Len(s) - 1
  OBVIOUS
<1>2. \A k \in 1 .. Len(Tail(s)) : k + 1 \in 1 .. Len(s) /\ Tail(s)[k] = s[k + 1]
  OBVIOUS
<1>3. \A k \in 1 .. Len(Tail(s)) : Tail(s)[k] # Head(s)
  <2> SUFFICES ASSUME NEW k \in 1 .. Len(Tail(s)), s[k + 1] = s[1]  PROVE FALSE
    BY <1>1, <1>2
  <2>1. k + 1 \in 1 .. Len(s) /\ k + 1 # 1 /\ 1 \in 1 .. Len(s)
    BY <1>1, <1>2
  <2> QED  BY <2>1
<1>4. ASSUME NEW i \in 1 .. Len(Tail(s)), NEW j \in 1 .. Len(Tail(s)), Tail(s)[i] = Tail(s)[j]
      PROVE  i = j
  <2>1. /\ i + 1 \in 1 .. Len(s) /\ j + 1 \in 1 .. Len(s) /\ s[i + 1] = s[j + 1]
    BY <1>2, <1>4
  <2>2. i + 1 = j + 1
    BY <2>1
  <2> QED  BY <2>2
<1>5. ASSUME NEW k \in 1 .. Len(s), s[k] # Head(s)
      PROVE  k - 1 \in 1 .. Len(Tail(s)) /\ Tail(s)[k - 1] = s[k]
  <2>1. k # 1
    BY <1>1, <1>5
  <2>2. k - 1 \in 1 .. Len(Tail(s)) /\ (k - 1) + 1 = k
    BY <1>1, <2>1
  <2>3. Tail(s)[k - 1] = s[(k - 1) + 1]
    BY <1>2, <2>2
  <2> QED  BY <2>2, <2>3
<1> QED  BY <1>1, <1>2, <1>3, <1>4, <1>5

\* When the first chunk is placed what remains are the others.
LEMMA ChunkDone ==
  ASSUME NEW t, NEW old \in Seq(FamRecord), NEW us, NEW ds, Remaining(old, us, ds, t), ds # <<>>,
         NEW new \in Seq(FamRecord), Len(old) <= Len(new), Kept(old, new),
         \A i \in 1 .. Len(new) : i \in 1 .. Len(old) \/ new[i].xref = Xref(Head(ds)),
         NEW place \in 1 .. Len(new), Tells(new[place], Head(ds))
  PROVE  Remaining(new, us, Tail(ds), t)
<1> DEFINE d == Head(ds)
           rest == Tail(ds)
<1>1. /\ us \in Seq(Marriages) /\ ds \in Seq(Chunk)
      /\ \A i, j \in 1 .. Len(us) : us[i] = us[j] => i = j
      /\ \A i, j \in 1 .. Len(ds) : ds[i] = ds[j] => i = j
      /\ \A k \in 1 .. Len(ds) : Honest(ds[k], t)
      /\ \A i \in 1 .. Len(old), k \in 1 .. Len(us) : ~ OfUnion(old[i], us[k])
      /\ \A i \in 1 .. Len(old), k \in 1 .. Len(ds) : old[i].xref # Xref(ds[k])
      /\ \A r \in F!Active(t) :
           \/ \E i \in 1 .. Len(old) : Says(old[i], r)
           \/ \E k \in 1 .. Len(ds) : r.parent \in ds[k].parents /\ Said(r.parent, ds[k]) = r
      /\ \A i \in 1 .. Len(old), u \in Marriages :
           OfUnion(old[i], u) => old[i].partners \subseteq t.members[u]
      /\ \A u \in Marriages : (\A k \in 1 .. Len(us) : us[k] # u) =>
           \A p \in t.members[u] \cap t.active :
             \E i \in 1 .. Len(old) : OfUnion(old[i], u) /\ p \in old[i].partners
  BY DEF Remaining
<1>2. /\ d \in Chunk /\ rest \in Seq(Chunk)
      /\ \A i, j \in 1 .. Len(rest) : rest[i] = rest[j] => i = j
      /\ \A k \in 1 .. Len(rest) :
           k + 1 \in 1 .. Len(ds) /\ rest[k] = ds[k + 1] /\ rest[k] # d /\ rest[k] \in Chunk
      /\ \A k \in 1 .. Len(ds) :
           ds[k] = d \/ (k - 1 \in 1 .. Len(rest) /\ rest[k - 1] = ds[k])
  <2>1. ds \in Seq(Chunk) /\ \A i, j \in 1 .. Len(ds) : ds[i] = ds[j] => i = j
    BY <1>1
  <2>2. /\ d \in Chunk /\ rest \in Seq(Chunk)
        /\ \A i, j \in 1 .. Len(rest) : rest[i] = rest[j] => i = j
        /\ \A k \in 1 .. Len(rest) :
             k + 1 \in 1 .. Len(ds) /\ rest[k] = ds[k + 1] /\ rest[k] # d
        /\ \A k \in 1 .. Len(ds) :
             ds[k] = d \/ (k - 1 \in 1 .. Len(rest) /\ rest[k - 1] = ds[k])
    BY <2>1, Rest
  <2>3. \A k \in 1 .. Len(rest) : rest[k] \in Chunk
    BY <2>2
  <2> QED  BY <2>2, <2>3
<1>3. /\ Len(old) \in Nat /\ Len(new) \in Nat
      /\ \A i \in 1 .. Len(old) :
           /\ i \in 1 .. Len(new) /\ new[i].xref = old[i].xref /\ new[i].partners = old[i].partners
           /\ \A r : Says(old[i], r) => Says(new[i], r)
  <2>1. Len(old) \in Nat /\ Len(new) \in Nat /\ \A i \in 1 .. Len(old) : i \in 1 .. Len(new)
    OBVIOUS
  <2> QED  BY <2>1 DEF Kept
<1> HIDE DEF d, rest
<1>4. \A i \in 1 .. Len(new) : i \notin 1 .. Len(old) => \A u : ~ OfUnion(new[i], u)
  <2> SUFFICES ASSUME NEW i \in 1 .. Len(new), i \notin 1 .. Len(old), NEW u, OfUnion(new[i], u)
               PROVE  FALSE
    OBVIOUS
  <2>1. new[i].xref = Xref(d)
    BY DEF d
  <2> QED  BY <2>1 DEF OfUnion, Xref
<1>5. \A i \in 1 .. Len(old) : \A u : OfUnion(new[i], u) <=> OfUnion(old[i], u)
  BY <1>3 DEF OfUnion
<1>6. \A k \in 1 .. Len(rest) : Honest(rest[k], t)
  BY <1>1, <1>2
<1>7. \A i \in 1 .. Len(new), k \in 1 .. Len(us) : ~ OfUnion(new[i], us[k])
  BY <1>1, <1>4, <1>5
<1>8. ASSUME NEW i \in 1 .. Len(new), NEW k \in 1 .. Len(rest)
      PROVE  new[i].xref # Xref(rest[k])
  <2>1. CASE i \in 1 .. Len(old)
    BY <1>1, <1>2, <1>3, <2>1
  <2>2. CASE i \notin 1 .. Len(old)
    <3>1. new[i].xref = Xref(d)
      BY <2>2 DEF d
    <3> QED  BY <1>2, <3>1, XrefsDiffer
  <2> QED  BY <2>1, <2>2
<1>9. ASSUME NEW r \in F!Active(t)
      PROVE  \/ \E i \in 1 .. Len(new) : Says(new[i], r)
             \/ \E k \in 1 .. Len(rest) :
                  r.parent \in rest[k].parents /\ Said(r.parent, rest[k]) = r
  <2>1. CASE \E i \in 1 .. Len(old) : Says(old[i], r)
    BY <1>3, <2>1
  <2>2. CASE \E k \in 1 .. Len(ds) : r.parent \in ds[k].parents /\ Said(r.parent, ds[k]) = r
    <3>1. PICK k \in 1 .. Len(ds) : r.parent \in ds[k].parents /\ Said(r.parent, ds[k]) = r
      BY <2>2
    <3>2. CASE ds[k] = d
      <4>1. Says(new[place], Said(r.parent, d))
        BY <3>1, <3>2 DEF d, Tells
      <4> QED  BY <3>1, <3>2, <4>1
    <3>3. CASE k - 1 \in 1 .. Len(rest) /\ rest[k - 1] = ds[k]
      BY <3>1, <3>3
    <3> QED  BY <1>2, <3>2, <3>3
  <2> QED  BY <1>1, <2>1, <2>2
<1>10. \A i \in 1 .. Len(new), u \in Marriages :
         OfUnion(new[i], u) => new[i].partners \subseteq t.members[u]
  BY <1>1, <1>3, <1>4, <1>5
<1>11. ASSUME NEW u \in Marriages, \A k \in 1 .. Len(us) : us[k] # u,
              NEW p \in t.members[u] \cap t.active
       PROVE  \E i \in 1 .. Len(new) : OfUnion(new[i], u) /\ p \in new[i].partners
  <2>1. PICK i \in 1 .. Len(old) : OfUnion(old[i], u) /\ p \in old[i].partners
    BY <1>1, <1>11
  <2> QED  BY <1>3, <1>5, <2>1
<1>12. Remaining(new, us, rest, t)
  BY <1>1, <1>2, <1>6, <1>7, <1>8, <1>9, <1>10, <1>11 DEF Remaining
<1> QED  BY <1>12 DEF rest

LEMMA PartnerChanged ==
  ASSUME NEW e \in IndiRecord, NEW X \in SUBSET Xrefs
  PROVE  /\ [e EXCEPT !.asPartner = X] \in IndiRecord
         /\ [e EXCEPT !.asPartner = X].asPartner = X
         /\ [e EXCEPT !.asPartner = X].asChild = e.asChild
<1>1. e = [asPartner |-> e.asPartner, asChild |-> e.asChild] /\ e.asChild \in LinkMaps(Xrefs)
  BY DEF IndiRecord
<1>2. [e EXCEPT !.asPartner = X] = [asPartner |-> X, asChild |-> e.asChild]
  BY <1>1
<1>3. [asPartner |-> X, asChild |-> e.asChild] \in IndiRecord
  BY <1>1 DEF IndiRecord
<1> QED  BY <1>2, <1>3

\* A record of a person's partners before it has children.
NewRecord(x, partners) ==
  [xref |-> x, partners |-> partners, children |-> <<>>, childLinks |-> <<>>]

LEMMA NewRecordMeant ==
  ASSUME NEW x \in Xrefs, NEW partners \in SUBSET Exported
  PROVE  /\ F!Family(x, partners) = NewRecord(x, partners)
         /\ NewRecord(x, partners) \in FamRecord
         /\ NewRecord(x, partners).xref = x /\ NewRecord(x, partners).partners = partners
         /\ NewRecord(x, partners).children = <<>> /\ NewRecord(x, partners).childLinks = <<>>
<1>1. <<>> \in LinkMaps(Exported) /\ <<>> \in Seq(Exported)
  BY EmptyMap
<1> QED  BY <1>1 DEF F!Family, NewRecord, FamRecord

LEMMA Unpacked ==
  ASSUME GedcomInv
  PROVE  /\ TreeTypes(tree) /\ Consistent(families, links, tree)
         /\ Remaining(families, unionsLeft, chunksLeft, tree)
         /\ families \in Seq(FamRecord) /\ Len(families) \in Nat
         /\ links \in [tree.active -> IndiRecord] /\ DOMAIN links = tree.active
         /\ unionsLeft \in Seq(Marriages) /\ chunksLeft \in Seq(Chunk)
         /\ \A i \in 1 .. Len(families) : families[i] \in FamRecord
BY DEF GedcomInv, Consistent, Remaining

\* The first chunk is placed in a record that there is.
LEMMA TakenInvariance ==
  ASSUME F!GedcomAssumption, GedcomInv, F!PlaceInFamily  PROVE GedcomInv'
<1> DEFINE d == Head(chunksLeft)
           S == F!MatchingFamily(d)
           i == F!Min(S)
<1>1. /\ chunksLeft # <<>> /\ S # {} /\ F!Place(d, families, links, i)
  BY DEF F!PlaceInFamily
<1>2. d \in Chunk /\ Honest(d, tree)
  <2>1. /\ chunksLeft \in Seq(Chunk)
        /\ \A j, k \in 1 .. Len(chunksLeft) : chunksLeft[j] = chunksLeft[k] => j = k
        /\ \A k \in 1 .. Len(chunksLeft) : Honest(chunksLeft[k], tree)
    BY DEF GedcomInv, Remaining
  <2> QED  BY <1>1, <2>1, Rest
<1>3. /\ i \in 1 .. Len(families) /\ families[i].partners = d.parents
      /\ d.child \notin DOMAIN families[i].childLinks
  <2>1. S \subseteq 1 .. Len(families) /\ 1 .. Len(families) \subseteq Nat
    BY Unpacked DEF F!MatchingFamily
  <2> HIDE DEF S
  <2>2. S \subseteq Nat
    BY <2>1
  <2>3. \E m \in S : \A n \in S : m <= n
    BY <1>1, <2>2, LeastNatural
  <2>4. F!Min(S) \in S
    BY <2>3 DEF F!Min
  <2> QED  BY <2>1, <2>4 DEF S, F!MatchingFamily
<1>4. d.child \in tree.active
  BY <1>2 DEF Honest
<1> HIDE DEF i, S, d
<1>5. /\ GotChild(d, families, links, i, families', links', tree.active)
      /\ chunksLeft' = Tail(chunksLeft) /\ tree' = tree /\ unionsLeft' = unionsLeft
  BY <1>1, <1>2, <1>3, <1>4, Unpacked, PlaceMeant
<1>6. /\ Consistent(families', links', tree) /\ Len(families') = Len(families)
      /\ Kept(families, families') /\ Tells(families'[i], d)
  <2>1. TreeTypes(tree) /\ Consistent(families, links, tree)
    BY Unpacked
  <2> QED  BY <1>2, <1>3, <1>5, <2>1, Placing
<1>7. families' \in Seq(FamRecord)
  BY <1>6 DEF Consistent
<1>8. Remaining(families', unionsLeft, Tail(chunksLeft), tree)
  <2>1. /\ Tells(families'[i], Head(chunksLeft))
        /\ i \in 1 .. Len(families') /\ Len(families) <= Len(families')
        /\ \A j \in 1 .. Len(families') : j \in 1 .. Len(families)
    BY <1>3, <1>6, Unpacked DEF d
  <2>2. /\ families \in Seq(FamRecord) /\ chunksLeft # <<>>
        /\ Remaining(families, unionsLeft, chunksLeft, tree)
    BY <1>1, Unpacked
  <2> QED  BY <1>6, <1>7, <2>1, <2>2, ChunkDone
<1> QED  BY <1>5, <1>6, <1>8, Unpacked DEF GedcomInv

\* It is placed in a record of its own.
LEMMA OwnInvariance ==
  ASSUME F!GedcomAssumption, GedcomInv, F!PlaceInNewFamily  PROVE GedcomInv'
<1> DEFINE d == Head(chunksLeft)
           x == Xref(d)
           f == NewRecord(x, d.parents)
           more == <<f>>
           recs == families \o more
           people == F!Linked(d.parents, x)
           n == Len(families)
<1>1. chunksLeft # <<>> /\ F!Place(d, Append(families, F!Family(x, d.parents)), people, n + 1)
  BY DEF F!PlaceInNewFamily, Xref
<1>2. d \in Chunk /\ Honest(d, tree) /\ \A k \in 1 .. n : families[k].xref # x
  <2>1. /\ chunksLeft \in Seq(Chunk)
        /\ \A j, k \in 1 .. Len(chunksLeft) : chunksLeft[j] = chunksLeft[k] => j = k
        /\ \A k \in 1 .. Len(chunksLeft) : Honest(chunksLeft[k], tree)
        /\ \A j \in 1 .. n, k \in 1 .. Len(chunksLeft) : families[j].xref # Xref(chunksLeft[k])
    BY DEF GedcomInv, Remaining
  <2>2. d \in Chunk /\ d = chunksLeft[1] /\ 1 \in 1 .. Len(chunksLeft)
    BY <1>1, <2>1, Rest
  <2> HIDE DEF d, n
  <2> QED  BY <2>1, <2>2
<1>3. /\ x \in Xrefs /\ d.parents \in SUBSET Exported /\ d.child \in tree.active
      /\ d.parents \subseteq tree.active /\ Cardinality(d.parents) \in 1 .. 2
  <2> HIDE DEF d
  <2> QED  BY <1>2 DEF Xrefs, Honest, Chunk
<1> HIDE DEF d, x
<1>4. /\ F!Family(x, d.parents) = f /\ f \in FamRecord /\ f.xref = x /\ f.partners = d.parents
      /\ f.children = <<>> /\ f.childLinks = <<>>
  BY <1>3, NewRecordMeant
<1> HIDE DEF f
<1>5. /\ recs \in Seq(FamRecord) /\ Len(recs) = n + 1 /\ recs[n + 1] = f
      /\ \A k \in 1 .. n : recs[k] = families[k]
      /\ Append(families, f) = recs
  BY <1>4, Unpacked
<1>6. /\ more \in Seq(FamRecord) /\ Len(more) = 1 /\ more[1] = f
      /\ \A k \in 1 .. Len(more) : k = 1
  BY <1>4
<1>7. /\ people \in [tree.active -> IndiRecord]
      /\ \A p \in tree.active :
           /\ people[p].asChild = links[p].asChild
           /\ p \in d.parents => people[p].asPartner = links[p].asPartner \cup {x}
           /\ p \notin d.parents => people[p].asPartner = links[p].asPartner
  <2>1. people = [p \in tree.active |->
                    IF p \in d.parents THEN [links[p] EXCEPT !.asPartner = @ \cup {x}]
                    ELSE links[p]]
    BY Unpacked DEF F!Linked
  <2>2. ASSUME NEW p \in tree.active
        PROVE  /\ people[p] \in IndiRecord /\ people[p].asChild = links[p].asChild
               /\ p \in d.parents => people[p].asPartner = links[p].asPartner \cup {x}
               /\ p \notin d.parents => people[p].asPartner = links[p].asPartner
    <3> DEFINE e == links[p]
               X == e.asPartner \cup {x}
               o == [e EXCEPT !.asPartner = X]
    <3>1. e \in IndiRecord
      BY Unpacked
    <3>2. people[p] = IF p \in d.parents THEN o ELSE e
      BY <2>1
    <3> HIDE DEF e
    <3>3. X \in SUBSET Xrefs
      BY <1>3, <3>1 DEF IndiRecord
    <3> HIDE DEF X
    <3>4. o \in IndiRecord /\ o.asPartner = X /\ o.asChild = e.asChild
      BY <3>1, <3>3, PartnerChanged
    <3> HIDE DEF o, people
    <3>5. CASE p \in d.parents
      BY <3>2, <3>4, <3>5 DEF e, X
    <3>6. CASE p \notin d.parents
      BY <3>1, <3>2, <3>6 DEF e
    <3> QED  BY <3>5, <3>6
  <2>3. people \in [tree.active -> IndiRecord]
    BY <2>1, <2>2
  <2> QED  BY <2>2, <2>3
<1> HIDE DEF people, recs, more, n
<1>8. Consistent(recs, people, tree)
  <2>1. Fresh(more, families, tree)
    BY <1>2, <1>3, <1>4, <1>6 DEF n, Fresh
  <2>2. ASSUME NEW p \in tree.active, NEW z \in Xrefs
        PROVE  z \in people[p].asPartner <=>
                 \/ z \in links[p].asPartner
                 \/ \E k \in 1 .. Len(more) : p \in more[k].partners /\ more[k].xref = z
    <3>1. (\E k \in 1 .. Len(more) : p \in more[k].partners /\ more[k].xref = z)
            <=> p \in d.parents /\ x = z
      BY <1>4, <1>6
    <3> QED  BY <1>7, <3>1
  <2>3. Joined(more, links, people, tree)
    BY <1>7, <2>2 DEF Joined
  <2>4. TreeTypes(tree) /\ Consistent(families, links, tree)
    BY Unpacked
  <2>5. Consistent(families \o more, people, tree)
    BY <2>1, <2>3, <2>4, Adding
  <2> QED  BY <2>5 DEF recs
<1>9. /\ n \in Nat /\ n + 1 \in 1 .. Len(recs) /\ DOMAIN f.childLinks = {}
  BY <1>4, <1>5, EmptyMap, Unpacked DEF n
<1>10. /\ GotChild(d, recs, people, n + 1, families', links', tree.active)
       /\ chunksLeft' = Tail(chunksLeft) /\ tree' = tree /\ unionsLeft' = unionsLeft
  <2>1. F!Place(d, recs, people, n + 1)
    BY <1>1, <1>4, <1>5
  <2> QED  BY <1>2, <1>3, <1>5, <1>7, <1>9, <2>1, PlaceMeant
<1>11. /\ Consistent(families', links', tree) /\ Len(families') = Len(recs)
       /\ Kept(recs, families') /\ Tells(families'[n + 1], d)
  <2>1. recs[n + 1].partners = d.parents /\ d.child \notin DOMAIN recs[n + 1].childLinks
    BY <1>4, <1>5, <1>9
  <2>2. TreeTypes(tree)
    BY Unpacked
  <2> QED  BY <1>2, <1>8, <1>9, <1>10, <2>1, <2>2, Placing
<1>12. families' \in Seq(FamRecord)
  BY <1>11 DEF Consistent
<1>13. Remaining(families', unionsLeft, Tail(chunksLeft), tree)
  <2>1. /\ Tells(families'[n + 1], Head(chunksLeft))
        /\ n + 1 \in 1 .. Len(families') /\ Len(families) <= Len(families')
    BY <1>5, <1>9, <1>11 DEF d, n
  <2>2. Kept(families, families')
    BY <1>5, <1>9, <1>11 DEF n, Kept
  <2>3. \A j \in 1 .. Len(families') :
          j \in 1 .. Len(families) \/ families'[j].xref = Xref(Head(chunksLeft))
    <3> SUFFICES ASSUME NEW j \in 1 .. Len(families'), j \notin 1 .. Len(families)
                 PROVE  families'[j].xref = Xref(Head(chunksLeft))
      OBVIOUS
    <3>1. j = n + 1
      BY <1>5, <1>9, <1>11 DEF n
    <3> QED  BY <1>4, <1>5, <1>9, <1>11, <3>1 DEF x, d, Kept
  <2>4. /\ families \in Seq(FamRecord) /\ chunksLeft # <<>>
        /\ Remaining(families, unionsLeft, chunksLeft, tree)
    BY <1>1, Unpacked
  <2> QED  BY <1>12, <2>1, <2>2, <2>3, <2>4, ChunkDone
<1> QED  BY <1>10, <1>11, <1>13, Unpacked DEF GedcomInv

LEMMA RecordsAppended ==
  ASSUME NEW old \in Seq(FamRecord), NEW more \in Seq(FamRecord)
  PROVE  /\ Len(old \o more) = Len(old) + Len(more)
         /\ \A i \in 1 .. Len(old) : i \in 1 .. Len(old \o more) /\ (old \o more)[i] = old[i]
         /\ \A i \in 1 .. Len(more) : /\ Len(old) + i \in 1 .. Len(old \o more)
                                     /\ (old \o more)[Len(old) + i] = more[i]
OBVIOUS

\* An active union gets its records.
LEMMA UnionInvariance ==
  ASSUME F!GedcomAssumption, GedcomInv, F!WriteUnion  PROVE GedcomInv'
<1> DEFINE u == Head(unionsLeft)
           members == tree.members[u] \cap tree.active
           pairs == F!PartnerPairs(F!Sorted(members))
           x(i) == <<"union", u, i>>
           n == Len(families)
           rest == Tail(unionsLeft)
           Of(p) == {i \in DOMAIN pairs : p \in pairs[i]}
           pointed(p) == [links[p] EXCEPT !.asPartner = @ \cup {x(i) : i \in Of(p)}]
<1>1. /\ unionsLeft # <<>> /\ unionsLeft' = rest /\ tree' = tree /\ chunksLeft' = chunksLeft
      /\ families' = families \o [i \in DOMAIN pairs |-> F!Family(x(i), pairs[i])]
      /\ links' = [p \in DOMAIN links |-> pointed(p)]
  BY DEF F!WriteUnion
<1>2. /\ unionsLeft \in Seq(Marriages)
      /\ \A i, j \in 1 .. Len(unionsLeft) : unionsLeft[i] = unionsLeft[j] => i = j
      /\ chunksLeft \in Seq(Chunk)
      /\ \A i, j \in 1 .. Len(chunksLeft) : chunksLeft[i] = chunksLeft[j] => i = j
      /\ \A k \in 1 .. Len(chunksLeft) : Honest(chunksLeft[k], tree)
      /\ \A i \in 1 .. n, k \in 1 .. Len(unionsLeft) : ~ OfUnion(families[i], unionsLeft[k])
      /\ \A i \in 1 .. n, k \in 1 .. Len(chunksLeft) : families[i].xref # Xref(chunksLeft[k])
      /\ \A r \in F!Active(tree) :
           \/ \E i \in 1 .. n : Says(families[i], r)
           \/ \E k \in 1 .. Len(chunksLeft) :
                r.parent \in chunksLeft[k].parents /\ Said(r.parent, chunksLeft[k]) = r
      /\ \A i \in 1 .. n, v \in Marriages :
           OfUnion(families[i], v) => families[i].partners \subseteq tree.members[v]
      /\ \A v \in Marriages : (\A k \in 1 .. Len(unionsLeft) : unionsLeft[k] # v) =>
           \A p \in tree.members[v] \cap tree.active :
             \E i \in 1 .. n : OfUnion(families[i], v) /\ p \in families[i].partners
  BY DEF GedcomInv, Remaining
<1>3. /\ u \in Marriages /\ u = unionsLeft[1] /\ 1 \in 1 .. Len(unionsLeft)
      /\ rest \in Seq(Marriages)
      /\ \A i, j \in 1 .. Len(rest) : rest[i] = rest[j] => i = j
      /\ \A k \in 1 .. Len(rest) :
           k + 1 \in 1 .. Len(unionsLeft) /\ rest[k] = unionsLeft[k + 1] /\ rest[k] # u
      /\ \A k \in 1 .. Len(unionsLeft) :
           unionsLeft[k] = u \/ (k - 1 \in 1 .. Len(rest) /\ rest[k - 1] = unionsLeft[k])
  BY <1>1, <1>2, Rest
<1> HIDE DEF u, rest
<1>4. /\ members \subseteq Exported /\ members \subseteq tree.active
      /\ members \subseteq tree.members[u]
  BY <1>3, Unpacked DEF TreeTypes
<1> HIDE DEF members
<1>5. PICK k : Parts(pairs, k, members)
  <2>1. members \subseteq Nat /\ IsFiniteSet(members)
    BY <1>4, ExportedNumbers, FS_Subset
  <2>2. Lists(F!Sorted(members), members)
    BY <2>1, SortedMeant
  <2> QED  BY <2>1, <2>2, PairsMeant
<1> HIDE DEF pairs
<1>6. /\ pairs \in [1 .. k -> SUBSET members] /\ k \in Nat /\ DOMAIN pairs = 1 .. k
      /\ \A i \in 1 .. k : Cardinality(pairs[i]) \in 1 .. 2
      /\ \A p \in members : \E i \in 1 .. k : p \in pairs[i]
  BY <1>5 DEF Parts
<1> DEFINE more == [i \in 1 .. k |-> NewRecord(x(i), pairs[i])]
<1>7. /\ \A i \in 1 .. k : x(i) \in Xrefs
      /\ \A i, j \in 1 .. k : x(i) = x(j) => i = j
  BY <1>3, <1>6 DEF Xrefs
<1>8. ASSUME NEW i \in 1 .. k
      PROVE  /\ F!Family(x(i), pairs[i]) = NewRecord(x(i), pairs[i])
             /\ NewRecord(x(i), pairs[i]) \in FamRecord
             /\ NewRecord(x(i), pairs[i]).xref = x(i)
             /\ NewRecord(x(i), pairs[i]).partners = pairs[i]
             /\ NewRecord(x(i), pairs[i]).children = <<>>
             /\ NewRecord(x(i), pairs[i]).childLinks = <<>>
  <2>1. x(i) \in Xrefs /\ pairs[i] \in SUBSET Exported
    BY <1>4, <1>6, <1>7
  <2> HIDE DEF x
  <2> QED  BY <2>1, NewRecordMeant
<1>9. /\ more \in Seq(FamRecord) /\ Len(more) = k
      /\ \A i \in 1 .. k : /\ more[i].xref = x(i) /\ more[i].partners = pairs[i]
                           /\ more[i].children = <<>> /\ more[i].childLinks = <<>>
  <2> HIDE DEF x
  <2>1. more \in [1 .. k -> FamRecord]
    BY <1>8
  <2>2. more \in Seq(FamRecord) /\ Len(more) = k
    BY <1>6, <2>1
  <2>3. \A i \in 1 .. k : more[i] = NewRecord(x(i), pairs[i])
    OBVIOUS
  <2> HIDE DEF more
  <2> QED  BY <1>8, <2>2, <2>3
<1>10. families' = families \o more
  <2>1. [i \in DOMAIN pairs |-> F!Family(x(i), pairs[i])] = more
    <3> HIDE DEF x
    <3> QED  BY <1>6, <1>8
  <2> QED  BY <1>1, <2>1
<1>11. ASSUME NEW p \in tree.active
       PROVE  /\ links'[p] = pointed(p) /\ pointed(p) \in IndiRecord
              /\ links'[p].asChild = links[p].asChild
              /\ links'[p].asPartner = links[p].asPartner \cup {x(i) : i \in Of(p)}
  <2> DEFINE e == links[p]
             X == e.asPartner \cup {x(i) : i \in Of(p)}
             o == [e EXCEPT !.asPartner = X]
  <2>1. e \in IndiRecord
    BY Unpacked
  <2>2. links'[p] = o /\ o = pointed(p)
    BY <1>1, Unpacked
  <2> HIDE DEF e
  <2>3. X \in SUBSET Xrefs
    <3>1. e.asPartner \subseteq Xrefs
      BY <2>1 DEF IndiRecord
    <3>2. \A i \in Of(p) : x(i) \in Xrefs
      BY <1>6, <1>7
    <3> HIDE DEF x, Of
    <3> QED  BY <3>1, <3>2
  <2> HIDE DEF X
  <2>4. o \in IndiRecord /\ o.asPartner = X /\ o.asChild = e.asChild
    BY <2>1, <2>3, PartnerChanged
  <2> HIDE DEF o, pointed
  <2> QED  BY <2>2, <2>4 DEF e, X
<1> HIDE DEF more
<1>12. links' \in [tree.active -> IndiRecord]
  <2>1. DOMAIN links = tree.active
    BY Unpacked
  <2>2. links' = [p \in DOMAIN links |-> pointed(p)]
    BY <1>1
  <2> HIDE DEF pointed
  <2>3. \A p \in tree.active : pointed(p) \in IndiRecord
    BY <1>11
  <2> QED  BY <2>1, <2>2, <2>3
<1>13. Consistent(families', links', tree)
  <2>1. \A i \in 1 .. n, j \in 1 .. k : families[i].xref # more[j].xref
    <3> SUFFICES ASSUME NEW i \in 1 .. n, NEW j \in 1 .. k, families[i].xref = more[j].xref
                 PROVE  FALSE
      OBVIOUS
    <3>1. ~ OfUnion(families[i], u)
      BY <1>2, <1>3
    <3>2. more[j].xref[1] = "union" /\ more[j].xref[2] = u
      BY <1>9
    <3> QED  BY <3>1, <3>2 DEF OfUnion
  <2>2. Fresh(more, families, tree)
    BY <1>4, <1>6, <1>7, <1>9, <2>1 DEF Fresh
  <2>3. ASSUME NEW p \in tree.active, NEW z \in Xrefs
        PROVE  z \in links'[p].asPartner <=>
                 \/ z \in links[p].asPartner
                 \/ \E i \in 1 .. Len(more) : p \in more[i].partners /\ more[i].xref = z
    <3>1. z \in {x(i) : i \in Of(p)} <=> \E i \in 1 .. k : p \in pairs[i] /\ x(i) = z
      BY <1>6
    <3> HIDE DEF x, Of
    <3> QED  BY <1>9, <1>11, <3>1
  <2>4. Joined(more, links, links', tree)
    BY <1>11, <1>12, <2>3 DEF Joined
  <2>5. TreeTypes(tree) /\ Consistent(families, links, tree)
    BY Unpacked
  <2>6. Consistent(families \o more, links', tree)
    BY <2>2, <2>4, <2>5, Adding
  <2> QED  BY <1>10, <2>6
<1>14. /\ n \in Nat /\ Len(families') = n + k
       /\ \A i \in 1 .. n : i \in 1 .. Len(families') /\ families'[i] = families[i]
       /\ \A i \in 1 .. k : n + i \in 1 .. Len(families') /\ families'[n + i] = more[i]
  <2>1. families \in Seq(FamRecord) /\ more \in Seq(FamRecord) /\ n \in Nat /\ Len(more) = k
    BY <1>9, Unpacked
  <2> QED  BY <1>10, <2>1, RecordsAppended
<1>15. ASSUME NEW l \in 1 .. Len(families'), l \notin 1 .. n
       PROVE  \E i \in 1 .. k : families'[l] = more[i]
  <2>1. l - n \in 1 .. k /\ l = n + (l - n)
    BY <1>6, <1>14, <1>15
  <2> QED  BY <1>14, <2>1
<1> HIDE DEF n
<1>16. \A i \in 1 .. k : \A v : OfUnion(more[i], v) <=> v = u
  BY <1>9 DEF OfUnion
<1>17. \A i \in 1 .. k : \A d : more[i].xref # Xref(d)
  BY <1>9 DEF Xref
<1> HIDE DEF x
<1>18. \A l \in 1 .. Len(families'), j \in 1 .. Len(rest) : ~ OfUnion(families'[l], rest[j])
  <2> SUFFICES ASSUME NEW l \in 1 .. Len(families'), NEW j \in 1 .. Len(rest)
               PROVE  ~ OfUnion(families'[l], rest[j])
    OBVIOUS
  <2>1. CASE l \in 1 .. n
    <3>1. j + 1 \in 1 .. Len(unionsLeft) /\ rest[j] = unionsLeft[j + 1]
      BY <1>3
    <3> QED  BY <1>2, <1>14, <2>1, <3>1
  <2>2. CASE l \notin 1 .. n
    <3>1. PICK i \in 1 .. k : families'[l] = more[i]
      BY <1>15, <2>2
    <3> QED  BY <1>3, <1>16, <3>1
  <2> QED  BY <2>1, <2>2
<1>19. \A l \in 1 .. Len(families'), j \in 1 .. Len(chunksLeft) :
         families'[l].xref # Xref(chunksLeft[j])
  <2> SUFFICES ASSUME NEW l \in 1 .. Len(families'), NEW j \in 1 .. Len(chunksLeft)
               PROVE  families'[l].xref # Xref(chunksLeft[j])
    OBVIOUS
  <2>1. CASE l \in 1 .. n
    BY <1>2, <1>14, <2>1
  <2>2. CASE l \notin 1 .. n
    BY <1>15, <1>17, <2>2
  <2> QED  BY <2>1, <2>2
<1>20. ASSUME NEW r \in F!Active(tree)
       PROVE  \/ \E l \in 1 .. Len(families') : Says(families'[l], r)
              \/ \E j \in 1 .. Len(chunksLeft) :
                   r.parent \in chunksLeft[j].parents /\ Said(r.parent, chunksLeft[j]) = r
  BY <1>2, <1>14
<1>21. ASSUME NEW l \in 1 .. Len(families'), NEW v \in Marriages, OfUnion(families'[l], v)
       PROVE  families'[l].partners \subseteq tree.members[v]
  <2>1. CASE l \in 1 .. n
    BY <1>2, <1>14, <1>21, <2>1
  <2>2. CASE l \notin 1 .. n
    <3>1. PICK i \in 1 .. k : families'[l] = more[i]
      BY <1>15, <2>2
    <3>2. v = u /\ families'[l].partners = pairs[i]
      BY <1>9, <1>16, <1>21, <3>1
    <3> QED  BY <1>4, <1>6, <3>2
  <2> QED  BY <2>1, <2>2
<1>22. ASSUME NEW v \in Marriages, \A j \in 1 .. Len(rest) : rest[j] # v,
              NEW p \in tree.members[v] \cap tree.active
       PROVE  \E l \in 1 .. Len(families') :
                OfUnion(families'[l], v) /\ p \in families'[l].partners
  <2>1. CASE v = u
    <3>1. p \in members
      BY <2>1 DEF members
    <3>2. PICK i \in 1 .. k : p \in pairs[i]
      BY <1>6, <3>1
    <3>3. OfUnion(more[i], v) /\ p \in more[i].partners
      BY <1>9, <1>16, <2>1, <3>2
    <3> QED  BY <1>14, <3>3
  <2>2. CASE v # u
    <3>1. \A j \in 1 .. Len(unionsLeft) : unionsLeft[j] # v
      BY <1>3, <1>22, <2>2
    <3>2. PICK i \in 1 .. n : OfUnion(families[i], v) /\ p \in families[i].partners
      BY <1>2, <3>1
    <3> QED  BY <1>14, <3>2
  <2> QED  BY <2>1, <2>2
<1>23. Remaining(families', rest, chunksLeft, tree)
  BY <1>2, <1>3, <1>18, <1>19, <1>20, <1>21, <1>22 DEF Remaining
<1> QED  BY <1>1, <1>13, <1>23, Unpacked DEF GedcomInv

LEMMA GedcomInvariance ==
  ASSUME F!GedcomAssumption, GedcomInv, [F!Next]_(F!vars)  PROVE GedcomInv'
<1>1. CASE F!WriteUnion
  BY <1>1, UnionInvariance
<1>2. CASE F!PlaceInFamily
  BY <1>2, TakenInvariance
<1>3. CASE F!PlaceInNewFamily
  BY <1>3, OwnInvariance
<1>4. CASE UNCHANGED F!vars
  BY <1>4 DEF GedcomInv, F!vars
<1> QED  BY <1>1, <1>2, <1>3, <1>4 DEF F!Next

\* When buildUnionFamilies and addParentChildFamilies are done, the FAM and INDI records say the
\* active relations and unions, all of them and no other, and point at each other: for any persons,
\* unions, types of relation and relations, whichever of the persons are deleted.
THEOREM ExportsActiveTreeHolds ==
  ASSUME F!GedcomAssumption  PROVE F!Spec => []ExportsActiveTree
<1>1. F!Init => GedcomInv
  BY GedcomInit
<1>2. GedcomInv /\ [F!Next]_(F!vars) => GedcomInv'
  BY GedcomInvariance
<1>3. GedcomInv => ExportsActiveTree
  BY ExportMeant DEF ExportsActiveTree, F!ExportsActiveTree
<1> QED  BY <1>1, <1>2, <1>3, PTL DEF F!Spec

-----------------------------------------------------------------------------
(* The composition *)

\* Whatever the composition does is a behaviour of each of its parts: what is proved of a part by
\* itself holds in the run that checks them together.
THEOREM PartsAreInstances ==
  CommandsSpec => /\ Spec /\ B!Spec /\ D!Spec /\ G!Spec /\ L!Spec /\ A!Spec /\ M!Spec /\ C!Spec
                  /\ V!Spec /\ F!Spec
<1>1. CommandsInit => /\ Init /\ B!Init /\ D!Init /\ G!Init /\ L!Init /\ A!Init /\ M!Init
                      /\ C!Init /\ V!Init /\ F!Init
  BY DEF CommandsInit, RestoreIdle, CheckIdle, BackoffIdle, GraphIdle, ListIdle, LimitIdle,
         DrawingIdle, GedcomIdle
<1> DEFINE all == <<part, vars, checkVars, backoffVars, graphVars, listVars, limitVars,
                    migrateVars, scheduleVars, drawingVars, gedcomVars>>
<1>2. [CommandsNext]_all =>
        /\ [Next]_vars /\ [B!Next]_B!vars /\ [D!Next]_D!vars /\ [G!Next]_G!vars
        /\ [L!Next]_L!vars /\ [A!Next]_A!vars /\ [M!Next]_M!vars /\ [C!Next]_C!vars
        /\ [V!Next]_V!vars /\ [F!Next]_F!vars
  <2> SUFFICES ASSUME [CommandsNext]_all
               PROVE  /\ [Next]_vars /\ [B!Next]_B!vars /\ [D!Next]_D!vars /\ [G!Next]_G!vars
                      /\ [L!Next]_L!vars /\ [A!Next]_A!vars /\ [M!Next]_M!vars /\ [C!Next]_C!vars
                      /\ [V!Next]_V!vars /\ [F!Next]_F!vars
    OBVIOUS
  <2>1. /\ Next \/ UNCHANGED vars
        /\ B!Next \/ UNCHANGED checkVars
        /\ D!Next \/ UNCHANGED backoffVars
        /\ G!Next \/ UNCHANGED graphVars
        /\ L!Next \/ UNCHANGED listVars
        /\ A!Next \/ UNCHANGED limitVars
        /\ M!Next \/ UNCHANGED migrateVars
        /\ C!Next \/ UNCHANGED scheduleVars
        /\ V!Next \/ UNCHANGED drawingVars
        /\ F!Next \/ UNCHANGED gedcomVars
    BY Zenon DEF CommandsNext
  <2>2. /\ UNCHANGED checkVars => UNCHANGED B!vars
        /\ UNCHANGED backoffVars => UNCHANGED D!vars
        /\ UNCHANGED graphVars => UNCHANGED G!vars
        /\ UNCHANGED listVars => UNCHANGED L!vars
        /\ UNCHANGED limitVars => UNCHANGED A!vars
        /\ UNCHANGED migrateVars => UNCHANGED M!vars
        /\ UNCHANGED scheduleVars => UNCHANGED C!vars
        /\ UNCHANGED drawingVars => UNCHANGED V!vars
        /\ UNCHANGED gedcomVars => UNCHANGED F!vars
    BY DEF checkVars, backoffVars, graphVars, listVars, limitVars, migrateVars, scheduleVars,
           drawingVars, gedcomVars, B!vars, D!vars, G!vars, L!vars, A!vars, M!vars, C!vars,
           V!vars, F!vars
  <2> QED  BY <2>1, <2>2
<1> QED
  BY <1>1, <1>2, PTL DEF CommandsSpec, Spec, B!Spec, D!Spec, G!Spec, L!Spec, A!Spec, M!Spec,
     C!Spec, V!Spec, F!Spec
=============================================================================
