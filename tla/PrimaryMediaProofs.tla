-------------------------- MODULE PrimaryMediaProofs --------------------------
(***************************************************************************)
(* What the row locks of PrimaryMedia guarantee for any number of persons, *)
(* files and concurrent transactions.                                      *)
(***************************************************************************)
EXTENDS PersonLinks, TLAPS

\* A lock that is not shared excludes all others.
Exclusive ==
  \A t, u \in Txs : \A r \in tx[t].own :
    u # t => r \notin tx[u].own /\ r \notin tx[u].share

\* A row locked FOR SHARE stays as it was found.
SharedStays ==
  \A t \in Txs : \A r \in tx[t].share :
    /\ r \in Media => status[r] = "ready"
    /\ r \in Persons => r \in live
    /\ r \in Links => r \in links

\* Where a transaction stands in its script.
Placed(x) ==
  /\ ~x.running => x.wait = {}
  /\ x.op # "none" =>
       /\ x.at <= Len(Script[x.op]) + 1
       /\ x.running => x.at <= Len(Script[x.op])
  /\ x.op \in {"attach", "detach", "setPrimary", "deletePerson", "restorePerson"}
       => x.p \in Persons
  /\ x.op \in {"attach", "detach", "setPrimary", "deleteMedia", "removeMedia"}
       => x.m \in Media

\* The statement numbered n, which locks all rows it finds, has found them.
Found(x, n) == x.at > n \/ (x.at = n /\ x.running)

\* What each operation holds at each statement, and what is so of the rows it owns.
HoldsAttach(x) ==
  x.op = "attach" =>
    /\ x.at > 1 => x.m \in x.share
    /\ x.at > 2 => x.p \in x.share
    /\ x.at > 3 => <<x.p, x.m>> \in x.own
    /\ x.own \subseteq {<<x.p, x.m>>}
    /\ <<x.p, x.m>> \in x.own => <<x.p, x.m>> \notin links

HoldsDetach(x) ==
  x.op = "detach" =>
    /\ x.at > 1 => x.p \in x.share
    /\ x.at > 2 => <<x.p, x.m>> \in x.own
    /\ x.own \subseteq {x.p, <<x.p, x.m>>}
    /\ <<x.p, x.m>> \in x.own => <<x.p, x.m>> \in links
    /\ x.p \in x.own => primary[x.p] = x.m
    /\ Found(x, 3) /\ primary[x.p] = x.m => x.p \in x.own \cup x.wait

HoldsSetPrimary(x) ==
  x.op = "setPrimary" =>
    /\ x.at > 1 => <<x.p, x.m>> \in x.share
    /\ x.at > 2 => x.m \in x.share
    /\ x.at > 3 => x.p \in x.share
    /\ x.at > 4 => x.p \in x.own
    /\ x.own \subseteq {x.p}

HoldsDeleteMedia(x) ==
  x.op = "deleteMedia" =>
    /\ x.at > 1 => x.m \in x.own
    /\ x.m \in x.own => status[x.m] = "ready"
    /\ \A r \in x.own : r = x.m \/ (r \in Persons /\ primary[r] = x.m)
    /\ Found(x, 2) => \A q \in Persons : primary[q] = x.m => q \in x.own \cup x.wait

HoldsRemoveMedia(x) ==
  x.op = "removeMedia" =>
    /\ x.at > 1 => x.m \in x.own
    /\ x.m \in x.own => status[x.m] = "deleted"
    /\ \A r \in x.own : r = x.m \/ (r \in links /\ r[2] = x.m)
    /\ Found(x, 2) => \A l \in links : l[2] = x.m => l \in x.own \cup x.wait

HoldsPerson(x) ==
  x.op \in {"deletePerson", "restorePerson"} =>
    /\ x.at > 1 => x.p \in x.own
    /\ x.own \subseteq {x.p}
    /\ x.p \in x.own => (x.p \in live <=> x.op = "deletePerson")

Holds(x) ==
  /\ HoldsAttach(x) /\ HoldsDetach(x) /\ HoldsSetPrimary(x)
  /\ HoldsDeleteMedia(x) /\ HoldsRemoveMedia(x) /\ HoldsPerson(x)

Inv ==
  /\ TypeOK /\ PrimaryIsAttachedAndReady
  /\ Exclusive /\ SharedStays
  /\ \A t \in Txs : Placed(tx[t]) /\ Holds(tx[t])

-----------------------------------------------------------------------------
(* The scripts, statement by statement. *)

LEMMA Scripts ==
  /\ Script["attach"] = <<"shareMedia", "sharePerson", "insertLink">>
  /\ Script["detach"] = <<"sharePerson", "deleteLink", "clearPrimary">>
  /\ Script["setPrimary"] = <<"shareLink", "shareMedia", "sharePerson", "updatePerson">>
  /\ Script["deleteMedia"] = <<"deleteMedia", "clearPrimaries">>
  /\ Script["removeMedia"] = <<"removeMedia", "cascade">>
  /\ Script["deletePerson"] = <<"updatePerson">>
  /\ Script["restorePerson"] = <<"restorePerson">>
BY DEF Script, Deletion

LEMMA Lengths ==
  /\ Len(Script["attach"]) = 3 /\ Len(Script["detach"]) = 3
  /\ Len(Script["setPrimary"]) = 4
  /\ Len(Script["deleteMedia"]) = 2 /\ Len(Script["removeMedia"]) = 2
  /\ Len(Script["deletePerson"]) = 1 /\ Len(Script["restorePerson"]) = 1
BY Scripts

LEMMA StatementOf ==
  ASSUME NEW t \in Txs
  PROVE  /\ tx[t].op = "attach" =>
              /\ tx[t].at = 1 => Statement(t) = "shareMedia"
              /\ tx[t].at = 2 => Statement(t) = "sharePerson"
              /\ tx[t].at = 3 => Statement(t) = "insertLink"
         /\ tx[t].op = "detach" =>
              /\ tx[t].at = 1 => Statement(t) = "sharePerson"
              /\ tx[t].at = 2 => Statement(t) = "deleteLink"
              /\ tx[t].at = 3 => Statement(t) = "clearPrimary"
         /\ tx[t].op = "setPrimary" =>
              /\ tx[t].at = 1 => Statement(t) = "shareLink"
              /\ tx[t].at = 2 => Statement(t) = "shareMedia"
              /\ tx[t].at = 3 => Statement(t) = "sharePerson"
              /\ tx[t].at = 4 => Statement(t) = "updatePerson"
         /\ tx[t].op = "deleteMedia" =>
              /\ tx[t].at = 1 => Statement(t) = "deleteMedia"
              /\ tx[t].at = 2 => Statement(t) = "clearPrimaries"
         /\ tx[t].op = "removeMedia" =>
              /\ tx[t].at = 1 => Statement(t) = "removeMedia"
              /\ tx[t].at = 2 => Statement(t) = "cascade"
         /\ tx[t].op = "deletePerson" /\ tx[t].at = 1 => Statement(t) = "updatePerson"
         /\ tx[t].op = "restorePerson" /\ tx[t].at = 1 => Statement(t) = "restorePerson"
BY Scripts DEF Statement

\* The statement number of a transaction that has one left.
LEMMA Numbered ==
  ASSUME TypeOK, NEW t \in Txs, Active(t), tx[t].at <= Len(Script[tx[t].op])
  PROVE  /\ tx[t].op \in {"attach", "detach"} => tx[t].at \in {1, 2, 3}
         /\ tx[t].op = "setPrimary" => tx[t].at \in {1, 2, 3, 4}
         /\ tx[t].op \in {"deleteMedia", "removeMedia"} => tx[t].at \in {1, 2}
         /\ tx[t].op \in {"deletePerson", "restorePerson"} => tx[t].at = 1
         /\ Statement(t) \in Statements
         /\ tx[t].at + 1 \in 1 .. 5
<1>1. tx[t].op \in Ops /\ tx[t].at \in 1 .. 5
  BY DEF TypeOK, Tx, Active
<1>2. /\ tx[t].op \in {"attach", "detach"} => tx[t].at \in {1, 2, 3}
      /\ tx[t].op = "setPrimary" => tx[t].at \in {1, 2, 3, 4}
      /\ tx[t].op \in {"deleteMedia", "removeMedia"} => tx[t].at \in {1, 2}
      /\ tx[t].op \in {"deletePerson", "restorePerson"} => tx[t].at = 1
  <2>1. CASE tx[t].op = "attach"
    BY <1>1, <2>1, Lengths
  <2>2. CASE tx[t].op = "detach"
    BY <1>1, <2>2, Lengths
  <2>3. CASE tx[t].op = "setPrimary"
    BY <1>1, <2>3, Lengths
  <2>4. CASE tx[t].op = "deleteMedia"
    BY <1>1, <2>4, Lengths
  <2>5. CASE tx[t].op = "removeMedia"
    BY <1>1, <2>5, Lengths
  <2>6. CASE tx[t].op \in {"deletePerson", "restorePerson"}
    BY <1>1, <2>6, Lengths
  <2> QED  BY <1>1, <2>1, <2>2, <2>3, <2>4, <2>5, <2>6 DEF Ops
<1>3. Statement(t) \in Statements
  BY <1>1, <1>2, StatementOf DEF Ops, Statements
<1>4. tx[t].at \in {1, 2, 3, 4}
  BY <1>1, <1>2 DEF Ops
<1> QED  BY <1>2, <1>3, <1>4

-----------------------------------------------------------------------------
(* What the steps do to the transactions. *)

LEMMA IdleIsTx == Idle \in Tx /\ Placed(Idle) /\ Holds(Idle)
BY DEF Idle, Tx, Placed, Holds, HoldsAttach, HoldsDetach, HoldsSetPrimary,
       HoldsDeleteMedia, HoldsRemoveMedia, HoldsPerson

LEMMA Ends ==
  ASSUME TypeOK, NEW t \in Txs, End(t)
  PROVE  /\ tx' \in [Txs -> Tx] /\ tx'[t] = Idle
         /\ \A u \in Txs \ {t} : tx'[u] = tx[u]
BY IdleIsTx DEF TypeOK, End

LEMMA Begins ==
  ASSUME TypeOK, NEW t \in Txs, Begin(t)
  PROVE  /\ tx' \in [Txs -> Tx]
         /\ tx'[t].op \in Ops /\ tx'[t].at = 1 /\ ~tx'[t].running
         /\ tx'[t].wait = {} /\ tx'[t].share = {} /\ tx'[t].own = {}
         /\ tx'[t].op \in {"attach", "detach", "setPrimary", "deletePerson", "restorePerson"}
              => tx'[t].p \in Persons
         /\ tx'[t].op \in {"attach", "detach", "setPrimary", "deleteMedia", "removeMedia"}
              => tx'[t].m \in Media
         /\ \A u \in Txs \ {t} : tx'[u] = tx[u]
<1>1. PICK op \in Ops, p \in Persons \cup {None}, m \in Media \cup {None} :
           /\ (p = None) <=> op \in {"deleteMedia", "removeMedia"}
           /\ (m = None) <=> op \in {"deletePerson", "restorePerson"}
           /\ tx' = [tx EXCEPT ![t] = [Idle EXCEPT !.op = op, !.p = p, !.m = m]]
  BY DEF Begin
<1> DEFINE y == [Idle EXCEPT !.op = op, !.p = p, !.m = m]
<1>2. /\ y \in Tx
      /\ y.op = op /\ y.p = p /\ y.m = m /\ y.at = Idle.at /\ y.running = Idle.running
      /\ y.wait = Idle.wait /\ y.share = Idle.share /\ y.own = Idle.own
  BY IdleIsTx DEF Tx
<1> HIDE DEF y
<1>3. tx' \in [Txs -> Tx] /\ tx'[t] = y /\ \A u \in Txs \ {t} : tx'[u] = tx[u]
  BY <1>1, <1>2 DEF TypeOK, y
<1> QED  BY <1>1, <1>2, <1>3 DEF Idle

\* What changes in a transaction that goes on with the rows of its statement.
Goes(x, y, wait) ==
  /\ y.op = x.op /\ y.p = x.p /\ y.m = x.m /\ y.wait = wait
  /\ y.at = (IF wait = {} THEN x.at + 1 ELSE x.at)
  /\ y.running <=> wait # {}

LEMMA Finds ==
  ASSUME TypeOK, NEW t \in Txs, Find(t), tx[t].at <= Len(Script[tx[t].op]),
         NEW found, found = {r \in Rows : Met(t, r) /\ Joined(t)}
  PROVE  /\ tx' \in [Txs -> Tx]
         /\ \A u \in Txs \ {t} : tx'[u] = tx[u]
         /\ \/ tx'[t] = Idle
            \/ /\ Goes(tx[t], tx'[t], found)
               /\ tx'[t].share = tx[t].share /\ tx'[t].own = tx[t].own
               /\ found = {} => Statement(t) \in Optional
<1>1. CASE found = {} /\ Statement(t) \notin Optional
  BY <1>1, Ends DEF Find
<1>2. CASE ~(found = {} /\ Statement(t) \notin Optional)
  <2>1. tx[t] \in Tx /\ found \in SUBSET Rows /\ Active(t)
    BY DEF TypeOK, Find
  <2>2. tx[t].at + 1 \in 1 .. 5
    BY <2>1, Numbered
  <2> DEFINE y == Advance([tx[t] EXCEPT !.wait = found])
  <2>3. tx' = [tx EXCEPT ![t] = y]
    BY <1>2 DEF Find
  <2>4. y \in Tx
    BY <2>1, <2>2 DEF Tx, Advance
  <2>5. /\ Goes(tx[t], y, found)
        /\ y.share = tx[t].share /\ y.own = tx[t].own
    BY <2>1 DEF Tx, Advance, Goes
  <2> HIDE DEF y
  <2>6. tx' \in [Txs -> Tx] /\ tx'[t] = y /\ \A u \in Txs \ {t} : tx'[u] = tx[u]
    BY <2>3, <2>4 DEF TypeOK
  <2> QED  BY <1>2, <2>5, <2>6
<1> QED  BY <1>1, <1>2

LEMMA Locks ==
  ASSUME TypeOK, NEW t \in Txs, Lock(t), tx[t].at <= Len(Script[tx[t].op])
  PROVE  /\ tx' \in [Txs -> Tx]
         /\ \A u \in Txs \ {t} : tx'[u] = tx[u]
         /\ \E r \in tx[t].wait :
              /\ \A u \in Txs : ~Blocks(u, t, r)
              /\ \/ tx'[t] = Idle
                 \/ /\ Goes(tx[t], tx'[t], tx[t].wait \ {r})
                    /\ Met(t, r)
                    /\ Statement(t) \in Sharing =>
                         tx'[t].share = tx[t].share \cup {r} /\ tx'[t].own = tx[t].own
                    /\ Statement(t) \in Writing =>
                         tx'[t].share = tx[t].share /\ tx'[t].own = tx[t].own \cup {r}
                 \/ /\ Goes(tx[t], tx'[t], tx[t].wait \ {r})
                    /\ ~Met(t, r) /\ Statement(t) \in Optional
                    /\ tx'[t].share = tx[t].share /\ tx'[t].own = tx[t].own
<1>1. PICK r \in tx[t].wait :
           /\ \A u \in Txs : ~Blocks(u, t, r)
           /\ IF Met(t, r)
                THEN tx' = [tx EXCEPT ![t] = Advance(Locked(t, r))]
                ELSE IF Statement(t) \in Optional
                       THEN tx' = [tx EXCEPT ![t] = Advance([tx[t] EXCEPT !.wait = @ \ {r}])]
                       ELSE End(t)
  BY DEF Lock
<1>2. tx[t] \in Tx /\ r \in Rows /\ Active(t)
  BY DEF TypeOK, Tx, Lock
<1>3. tx[t].at + 1 \in 1 .. 5
  BY <1>2, Numbered
<1>4. CASE Met(t, r)
  <2> DEFINE y == Advance(Locked(t, r))
  <2> DEFINE z == Locked(t, r)
  <2>0. /\ z \in Tx /\ z.at = tx[t].at
    BY <1>2 DEF Tx, Locked
  <2>1. y \in Tx
    <3> HIDE DEF z
    <3>1. Advance(z) \in Tx
      BY <1>3, <2>0 DEF Tx, Advance
    <3> QED  BY <3>1 DEF z
  <2>2. Goes(tx[t], y, tx[t].wait \ {r})
    BY <1>2 DEF Tx, Advance, Locked, Goes
  <2>3. /\ Statement(t) \in Sharing =>
             y.share = tx[t].share \cup {r} /\ y.own = tx[t].own
        /\ Statement(t) \in Writing =>
             y.share = tx[t].share /\ y.own = tx[t].own \cup {r}
    BY <1>2 DEF Tx, Advance, Locked, Sharing, Writing
  <2> HIDE DEF y
  <2>4. tx' \in [Txs -> Tx] /\ tx'[t] = y /\ \A u \in Txs \ {t} : tx'[u] = tx[u]
    BY <1>1, <1>4, <2>1 DEF TypeOK, y
  <2> QED  BY <1>1, <1>4, <2>2, <2>3, <2>4
<1>5. CASE ~Met(t, r) /\ Statement(t) \in Optional
  <2> DEFINE y == Advance([tx[t] EXCEPT !.wait = @ \ {r}])
  <2>1. y \in Tx
    BY <1>2, <1>3 DEF Tx, Advance
  <2>2. Goes(tx[t], y, tx[t].wait \ {r}) /\ y.share = tx[t].share /\ y.own = tx[t].own
    BY <1>2 DEF Tx, Advance, Goes
  <2> HIDE DEF y
  <2>3. tx' = [tx EXCEPT ![t] = y]
    BY <1>1, <1>5 DEF y
  <2>4. tx' \in [Txs -> Tx] /\ tx'[t] = y /\ \A u \in Txs \ {t} : tx'[u] = tx[u]
    BY <2>1, <2>3 DEF TypeOK
  <2> QED  BY <1>1, <1>5, <2>2, <2>4
<1>6. CASE ~Met(t, r) /\ Statement(t) \notin Optional
  BY <1>1, <1>6, Ends
<1> QED  BY <1>4, <1>5, <1>6

-----------------------------------------------------------------------------
(* Steps that leave the rows alone. *)

\* A statement under way is not past the end of its script.
LEMMA StillRuns ==
  ASSUME Inv, NEW t \in Txs
  PROVE  /\ Find(t) => tx[t].at <= Len(Script[tx[t].op])
         /\ Lock(t) => tx[t].at <= Len(Script[tx[t].op])
         /\ Active(t) => Len(Script[tx[t].op]) \in 1 .. 4
<1>1. Active(t) => tx[t].op \in Ops /\ tx[t].at \in Nat
  BY DEF Inv, TypeOK, Tx, Active
<1>2. Active(t) => Len(Script[tx[t].op]) \in 1 .. 4
  BY <1>1, Lengths DEF Ops
<1>3. Find(t) => tx[t].at <= Len(Script[tx[t].op])
  BY <1>1, <1>2 DEF Find, Finished
<1>4. Lock(t) => tx[t].at <= Len(Script[tx[t].op])
  BY DEF Lock, Inv, Placed, Active
<1> QED  BY <1>2, <1>3, <1>4

LEMMA GoesPlaced ==
  ASSUME Inv, NEW t \in Txs, Active(t), tx[t].at <= Len(Script[tx[t].op]),
         NEW y, NEW wait, Goes(tx[t], y, wait)
  PROVE  Placed(y)
<1>1. Placed(tx[t]) /\ tx[t].at \in Nat /\ Len(Script[tx[t].op]) \in Nat
  BY StillRuns DEF Inv, TypeOK, Tx
<1> QED  BY <1>1 DEF Goes, Placed, Active

LEMMA FindHolds ==
  ASSUME Inv, NEW t \in Txs, Find(t)
  PROVE  Placed(tx'[t]) /\ Holds(tx[t])'
<1> DEFINE found == {r \in Rows : Met(t, r) /\ Joined(t)}
           y == tx'[t]
<1>1. tx[t].at <= Len(Script[tx[t].op]) /\ Active(t) /\ ~tx[t].running
  BY StillRuns DEF Find
<1>2. UNCHANGED Data
  BY DEF Find
<1>3. CASE y = Idle
  BY <1>2, <1>3, IdleIsTx
     DEF Data, Idle, Holds, HoldsAttach, HoldsDetach, HoldsSetPrimary, HoldsDeleteMedia,
         HoldsRemoveMedia, HoldsPerson
<1>4. CASE /\ Goes(tx[t], y, found)
           /\ y.share = tx[t].share /\ y.own = tx[t].own
           /\ found = {} => Statement(t) \in Optional
  <2>1. Placed(y)
    BY <1>1, <1>4, GoesPlaced
  <2>2. tx[t].op \in Ops /\ Placed(tx[t]) /\ Holds(tx[t]) /\ SharedStays
    BY <1>1 DEF Inv, TypeOK, Tx, Active
  <2>3. found = {} \/ y.at = tx[t].at
    BY <1>4 DEF Goes
  <2>4. HoldsAttach(tx[t])'
    BY <1>1, <1>2, <1>4, <2>2, <2>3, Numbered, StatementOf DEF Data, Goes, Holds, HoldsAttach, Optional, Inv
  <2>5. HoldsSetPrimary(tx[t])'
    BY <1>1, <1>2, <1>4, <2>2, <2>3, Numbered, StatementOf DEF Data, Goes, Holds, HoldsSetPrimary, Optional, Inv
  <2>6. HoldsPerson(tx[t])'
    BY <1>1, <1>2, <1>4, <2>2, <2>3, Numbered, StatementOf DEF Data, Goes, Holds, HoldsPerson, Optional, Inv
  <2>7. HoldsDetach(tx[t])'
    <3> SUFFICES ASSUME tx[t].op = "detach" PROVE HoldsDetach(tx[t])'
      BY <1>4 DEF Goes, HoldsDetach
    <3>1. tx[t].at \in {1, 2, 3} /\ HoldsDetach(tx[t]) /\ tx[t].p \in Persons
      BY <1>1, <2>2, Numbered DEF Inv, Holds, Placed
    <3>2. CASE tx[t].at \in {1, 2}
      BY <1>2, <1>4, <2>3, <3>1, <3>2, StatementOf DEF Data, Goes, HoldsDetach, Optional, Found
    <3>3. CASE tx[t].at = 3
      <4>1. tx[t].p \in live
        BY <2>2, <3>1, <3>3 DEF SharedStays, HoldsDetach
      <4>2. primary[tx[t].p] = tx[t].m => tx[t].p \in found
        BY <3>1, <3>3, <4>1, StatementOf DEF Met, Joined, Matches, Rows
      <4> QED  BY <1>2, <1>4, <3>1, <3>3, <4>2 DEF Data, Goes, HoldsDetach, Found
    <3> QED  BY <3>1, <3>2, <3>3
  <2>8. HoldsDeleteMedia(tx[t])'
    <3> SUFFICES ASSUME tx[t].op = "deleteMedia" PROVE HoldsDeleteMedia(tx[t])'
      BY <1>4 DEF Goes, HoldsDeleteMedia
    <3>1. tx[t].at \in {1, 2} /\ HoldsDeleteMedia(tx[t])
      BY <1>1, <2>2, Numbered DEF Inv, Holds
    <3>2. CASE tx[t].at = 1
      BY <1>2, <1>4, <2>3, <3>1, <3>2, StatementOf DEF Data, Goes, HoldsDeleteMedia, Optional, Found
    <3>3. CASE tx[t].at = 2
      <4>1. \A q \in Persons : primary[q] = tx[t].m => q \in found
        BY <3>3, StatementOf DEF Met, Joined, Matches, Rows
      <4> QED  BY <1>2, <1>4, <3>1, <3>3, <4>1 DEF Data, Goes, HoldsDeleteMedia, Found
    <3> QED  BY <3>1, <3>2, <3>3
  <2>9. HoldsRemoveMedia(tx[t])'
    <3> SUFFICES ASSUME tx[t].op = "removeMedia" PROVE HoldsRemoveMedia(tx[t])'
      BY <1>4 DEF Goes, HoldsRemoveMedia
    <3>1. tx[t].at \in {1, 2} /\ HoldsRemoveMedia(tx[t])
      BY <1>1, <2>2, Numbered DEF Inv, Holds
    <3>2. CASE tx[t].at = 1
      BY <1>2, <1>4, <2>3, <3>1, <3>2, StatementOf DEF Data, Goes, HoldsRemoveMedia, Optional, Found
    <3>3. CASE tx[t].at = 2
      <4>1. \A l \in links : l[2] = tx[t].m => l \in found
        BY <3>3, StatementOf DEF Met, Joined, Matches, Rows, Inv, TypeOK
      <4> QED  BY <1>2, <1>4, <3>1, <3>3, <4>1 DEF Data, Goes, HoldsRemoveMedia, Found
    <3> QED  BY <3>1, <3>2, <3>3
  <2> QED  BY <2>1, <2>4, <2>5, <2>6, <2>7, <2>8, <2>9 DEF Holds
<1> QED  BY <1>1, <1>3, <1>4, Finds DEF Inv

LEMMA LockHolds ==
  ASSUME Inv, NEW t \in Txs, Lock(t)
  PROVE  Placed(tx'[t]) /\ Holds(tx[t])'
<1> DEFINE y == tx'[t]
<1>1. tx[t].at <= Len(Script[tx[t].op]) /\ Active(t) /\ tx[t].running
  BY StillRuns DEF Lock
<1>2. UNCHANGED Data
  BY DEF Lock
<1>3. CASE y = Idle
  BY <1>2, <1>3, IdleIsTx
     DEF Data, Idle, Holds, HoldsAttach, HoldsDetach, HoldsSetPrimary, HoldsDeleteMedia,
         HoldsRemoveMedia, HoldsPerson
<1>4. ASSUME NEW r \in tx[t].wait, Goes(tx[t], y, tx[t].wait \ {r}),
             \/ /\ Met(t, r)
                /\ Statement(t) \in Sharing =>
                     y.share = tx[t].share \cup {r} /\ y.own = tx[t].own
                /\ Statement(t) \in Writing =>
                     y.share = tx[t].share /\ y.own = tx[t].own \cup {r}
             \/ /\ ~Met(t, r) /\ Statement(t) \in Optional
                /\ y.share = tx[t].share /\ y.own = tx[t].own
      PROVE  Placed(y) /\ Holds(tx[t])'
  <2>1. Placed(y)
    BY <1>1, <1>4, GoesPlaced
  <2>2. tx[t].op \in Ops /\ Placed(tx[t]) /\ Holds(tx[t]) /\ r \in Rows
    BY <1>1 DEF Inv, TypeOK, Tx, Active
  <2>3. HoldsAttach(tx[t])'
    <3> SUFFICES ASSUME tx[t].op = "attach" PROVE HoldsAttach(tx[t])'
      BY <1>4 DEF Goes, HoldsAttach
    <3>1. tx[t].at \in {1, 2, 3} /\ HoldsAttach(tx[t])
      BY <1>1, <2>2, Numbered DEF Inv, Holds
    <3> QED  BY <1>2, <1>4, <3>1, StatementOf
                DEF Data, Goes, HoldsAttach, Optional, Sharing, Writing, Statements, Met, Matches
  <2>4. HoldsSetPrimary(tx[t])'
    <3> SUFFICES ASSUME tx[t].op = "setPrimary" PROVE HoldsSetPrimary(tx[t])'
      BY <1>4 DEF Goes, HoldsSetPrimary
    <3>1. tx[t].at \in {1, 2, 3, 4} /\ HoldsSetPrimary(tx[t])
      BY <1>1, <2>2, Numbered DEF Inv, Holds
    <3> QED  BY <1>2, <1>4, <3>1, StatementOf
                DEF Data, Goes, HoldsSetPrimary, Optional, Sharing, Writing, Statements, Met, Matches
  <2>5. HoldsPerson(tx[t])'
    <3> SUFFICES ASSUME tx[t].op \in {"deletePerson", "restorePerson"} PROVE HoldsPerson(tx[t])'
      BY <1>4 DEF Goes, HoldsPerson
    <3>1. tx[t].at = 1 /\ HoldsPerson(tx[t])
      BY <1>1, <2>2, Numbered DEF Inv, Holds
    <3> QED  BY <1>2, <1>4, <3>1, StatementOf
                DEF Data, Goes, HoldsPerson, Optional, Sharing, Writing, Statements, Met, Matches
  <2>6. HoldsDetach(tx[t])'
    <3> SUFFICES ASSUME tx[t].op = "detach" PROVE HoldsDetach(tx[t])'
      BY <1>4 DEF Goes, HoldsDetach
    <3>1. tx[t].at \in {1, 2, 3} /\ HoldsDetach(tx[t])
      BY <1>1, <2>2, Numbered DEF Inv, Holds
    <3>2. tx[t].p \in Persons /\ tx[t].p # <<tx[t].p, tx[t].m>>
      <4>1. tx[t].p \in Persons /\ tx[t].m \in Media
        BY <2>2 DEF Placed
      <4>2. <<tx[t].p, tx[t].m>> \in Links
        BY <4>1 DEF Links
      <4> QED  BY <4>1, <4>2, RowsDiffer
    <3>3. CASE tx[t].at \in {1, 2}
      <4>1. CASE tx[t].at = 1
        BY <1>2, <1>4, <3>1, <3>2, <4>1, StatementOf
           DEF Data, Goes, HoldsDetach, Optional, Sharing, Writing, Statements, Met, Matches, Found
      <4>2. CASE tx[t].at = 2
        BY <1>2, <1>4, <3>1, <3>2, <4>2, StatementOf
           DEF Data, Goes, HoldsDetach, Optional, Sharing, Writing, Statements, Met, Matches, Found
      <4> QED  BY <3>3, <4>1, <4>2
    <3>4. CASE tx[t].at = 3
      <4>1. tx[t].p \in live
        BY <3>1, <3>2, <3>4 DEF Inv, SharedStays, HoldsDetach
      <4>2. Met(t, r) <=> r = tx[t].p /\ primary[r] = tx[t].m
        BY <3>4, <4>1, StatementOf DEF Met, Matches
      <4>3. /\ Statement(t) \in Writing /\ Statement(t) \notin Sharing
            /\ Found(tx[t], 3)
        BY <1>1, <3>4, StatementOf DEF Writing, Statements, Sharing, Found
      <4> QED  BY <1>2, <1>4, <3>1, <3>2, <3>4, <4>2, <4>3 DEF Data, Goes, HoldsDetach, Found
    <3> QED  BY <3>1, <3>3, <3>4
  <2>7. HoldsDeleteMedia(tx[t])'
    <3> SUFFICES ASSUME tx[t].op = "deleteMedia" PROVE HoldsDeleteMedia(tx[t])'
      BY <1>4 DEF Goes, HoldsDeleteMedia
    <3>1. tx[t].at \in {1, 2} /\ HoldsDeleteMedia(tx[t]) /\ tx[t].m \in Media
      BY <1>1, <2>2, Numbered DEF Inv, Holds, Placed
    <3>2. CASE tx[t].at = 1
      BY <1>2, <1>4, <3>1, <3>2, StatementOf
         DEF Data, Goes, HoldsDeleteMedia, Optional, Sharing, Writing, Statements, Met, Matches, Found
    <3>3. CASE tx[t].at = 2
      <4>1. Met(t, r) <=> r \in Persons /\ primary[r] = tx[t].m
        BY <3>3, StatementOf DEF Met, Matches
      <4>2. /\ Statement(t) \in Writing /\ Statement(t) \notin Sharing
            /\ Found(tx[t], 2)
        BY <1>1, <3>3, StatementOf DEF Writing, Statements, Sharing, Found
      <4>3. Met(t, r) => r # tx[t].m
        BY <3>1, <4>1, RowsDiffer
      <4> QED  BY <1>2, <1>4, <3>1, <3>3, <4>1, <4>2, <4>3 DEF Data, Goes, HoldsDeleteMedia, Found
    <3> QED  BY <3>1, <3>2, <3>3
  <2>8. HoldsRemoveMedia(tx[t])'
    <3> SUFFICES ASSUME tx[t].op = "removeMedia" PROVE HoldsRemoveMedia(tx[t])'
      BY <1>4 DEF Goes, HoldsRemoveMedia
    <3>1. tx[t].at \in {1, 2} /\ HoldsRemoveMedia(tx[t]) /\ tx[t].m \in Media
      BY <1>1, <2>2, Numbered DEF Inv, Holds, Placed
    <3>2. CASE tx[t].at = 1
      BY <1>2, <1>4, <3>1, <3>2, StatementOf
         DEF Data, Goes, HoldsRemoveMedia, Optional, Sharing, Writing, Statements, Met, Matches, Found
    <3>3. CASE tx[t].at = 2
      <4>1. Met(t, r) <=> r \in links /\ r[2] = tx[t].m
        BY <3>3, StatementOf DEF Met, Matches
      <4>2. /\ Statement(t) \in Writing /\ Statement(t) \notin Sharing
            /\ Found(tx[t], 2)
        BY <1>1, <3>3, StatementOf DEF Writing, Statements, Sharing, Found
      <4>3. Met(t, r) => r # tx[t].m
        BY <3>1, <4>1, RowsDiffer DEF Inv, TypeOK
      <4> QED  BY <1>2, <1>4, <3>1, <3>3, <4>1, <4>2, <4>3 DEF Data, Goes, HoldsRemoveMedia, Found
    <3> QED  BY <3>1, <3>2, <3>3
  <2> QED  BY <2>1, <2>3, <2>4, <2>5, <2>6, <2>7, <2>8 DEF Holds
<1> QED  BY <1>1, <1>3, <1>4, Locks DEF Inv

\* A row that a statement finds to lock FOR SHARE is as SharedStays wants it.
LEMMA MetShared ==
  ASSUME Inv, NEW t \in Txs, Active(t), tx[t].at <= Len(Script[tx[t].op]),
         NEW r \in Rows, Met(t, r), Statement(t) \in Sharing
  PROVE  /\ r \in Media => status[r] = "ready"
         /\ r \in Persons => r \in live
         /\ r \in Links => r \in links
<1>1. tx[t].op \in Ops /\ Placed(tx[t])
  BY DEF Inv, TypeOK, Tx, Active
<1>2. /\ tx[t].op \in {"attach", "detach", "setPrimary"}
      /\ Statement(t) \in {"shareMedia", "sharePerson", "shareLink"}
  BY <1>1, Numbered, StatementOf DEF Inv, Ops, Sharing
<1>3. tx[t].p \in Persons /\ tx[t].m \in Media
  BY <1>1, <1>2 DEF Placed
<1>4. <<tx[t].p, tx[t].m>> \in Links
  BY <1>3 DEF Links
<1>5. CASE Statement(t) = "shareMedia"
  BY <1>3, <1>5, RowsDiffer DEF Met, Matches
<1>6. CASE Statement(t) = "sharePerson"
  BY <1>3, <1>6, RowsDiffer DEF Met, Matches
<1>7. CASE Statement(t) = "shareLink"
  BY <1>4, <1>7, RowsDiffer DEF Met, Matches
<1> QED  BY <1>2, <1>5, <1>6, <1>7

LEMMA LockExcludes ==
  ASSUME Inv, NEW t \in Txs, Lock(t)
  PROVE  Exclusive' /\ SharedStays'
<1>1. tx[t].at <= Len(Script[tx[t].op]) /\ Active(t)
  BY StillRuns DEF Lock
<1>2. UNCHANGED <<status, live, primary, links>>
  BY DEF Lock, Data
<1>3. \A u \in Txs \ {t} : tx'[u] = tx[u]
  BY <1>1, Locks DEF Inv
<1>4. CASE tx'[t].share \subseteq tx[t].share /\ tx'[t].own \subseteq tx[t].own
  BY <1>2, <1>3, <1>4 DEF Inv, Exclusive, SharedStays
<1>5. ASSUME NEW r \in tx[t].wait, \A u \in Txs : ~Blocks(u, t, r), Met(t, r),
             Statement(t) \in Sharing,
             tx'[t].share = tx[t].share \cup {r}, tx'[t].own = tx[t].own
      PROVE  Exclusive' /\ SharedStays'
  <2>1. r \in Rows
    BY DEF Inv, TypeOK, Tx
  <2>2. /\ r \in Media => status[r] = "ready"
        /\ r \in Persons => r \in live
        /\ r \in Links => r \in links
    BY <1>1, <1>5, <2>1, MetShared
  <2>3. \A u \in Txs \ {t} : r \notin tx[u].own
    BY <1>5 DEF Blocks
  <2> QED  BY <1>2, <1>3, <1>5, <2>2, <2>3 DEF Inv, Exclusive, SharedStays
<1>6. ASSUME NEW r \in tx[t].wait, \A u \in Txs : ~Blocks(u, t, r), Met(t, r),
             Statement(t) \in Writing,
             tx'[t].share = tx[t].share, tx'[t].own = tx[t].own \cup {r}
      PROVE  Exclusive' /\ SharedStays'
  <2>1. \A u \in Txs \ {t} : r \notin tx[u].own /\ r \notin tx[u].share
    <3>1. CASE Statement(t) # "insertLink"
      BY <1>6, <3>1 DEF Blocks
    <3>2. CASE Statement(t) = "insertLink"
      <4>1. tx[t].op = "attach"
        BY <1>1, <3>2, Numbered, StatementOf DEF Inv, Ops, TypeOK, Tx, Active
      <4>2. tx[t].p \in Persons /\ tx[t].m \in Media
        BY <4>1 DEF Inv, Placed
      <4>3. r = <<tx[t].p, tx[t].m>> /\ r \notin links
        BY <1>6, <3>2 DEF Met, Matches
      <4>4. r \in Links
        BY <4>2, <4>3 DEF Links
      <4>5. \A u \in Txs : r \notin tx[u].share
        BY <4>3, <4>4 DEF Inv, SharedStays
      <4> QED  BY <1>6, <4>5 DEF Blocks
    <3> QED  BY <3>1, <3>2
  <2> QED  BY <1>2, <1>3, <1>6, <2>1 DEF Inv, Exclusive, SharedStays
<1>7. Statement(t) \in Sharing \cup Writing
  BY <1>1, Numbered DEF Inv, Sharing, Writing
<1>8. CASE tx'[t] = Idle
  BY <1>4, <1>8 DEF Idle
<1> QED  BY <1>1, <1>4, <1>5, <1>6, <1>7, <1>8, Locks DEF Inv

\* The others do not notice a step that leaves the rows alone.
LEMMA QuietStep ==
  ASSUME Inv, NEW t \in Txs, Begin(t) \/ Find(t) \/ Lock(t) \/ Abort(t)
  PROVE  Inv'
<1>1. UNCHANGED <<status, live, primary, links>>
  BY DEF Begin, Find, Lock, Abort, Data
<1>2. /\ tx' \in [Txs -> Tx]
      /\ \A u \in Txs \ {t} : tx'[u] = tx[u]
      /\ tx'[t].op = "none" => tx'[t] = Idle
  <2>1. CASE Begin(t)
    BY <2>1, Begins DEF Inv, Ops
  <2>2. CASE Find(t)
    BY <2>2, Finds, StillRuns DEF Inv, Goes, Find, Active
  <2>3. CASE Lock(t)
    BY <2>3, Locks, StillRuns DEF Inv, Goes, Lock, Active
  <2>4. CASE Abort(t)
    BY <2>4, Ends DEF Inv, Abort
  <2> QED  BY <2>1, <2>2, <2>3, <2>4
<1>3. TypeOK' /\ PrimaryIsAttachedAndReady'
  BY <1>1, <1>2 DEF Inv, TypeOK, PrimaryIsAttachedAndReady, Active
<1>4. Exclusive' /\ SharedStays'
  <2>1. CASE Lock(t)
    BY <2>1, LockExcludes
  <2>2. CASE tx'[t].share \subseteq tx[t].share /\ tx'[t].own \subseteq tx[t].own
    BY <1>1, <1>2, <2>2 DEF Inv, Exclusive, SharedStays
  <2>3. CASE Begin(t)
    BY <2>2, <2>3, Begins DEF Inv
  <2>4. CASE Find(t)
    <3>1. tx[t].at <= Len(Script[tx[t].op]) /\ TypeOK
      BY <2>4, StillRuns DEF Inv
    <3>2. tx'[t] = Idle \/ (tx'[t].share = tx[t].share /\ tx'[t].own = tx[t].own)
      BY <2>4, <3>1, Finds
    <3> QED  BY <2>2, <3>2 DEF Idle
  <2>5. CASE Abort(t)
    BY <2>2, <2>5, Ends DEF Inv, Abort, Idle
  <2> QED  BY <2>1, <2>3, <2>4, <2>5
<1>5. \A u \in Txs \ {t} : Placed(tx'[u]) /\ Holds(tx[u])'
  BY <1>1, <1>2 DEF Inv, Placed, Holds, HoldsAttach, HoldsDetach, HoldsSetPrimary,
                    HoldsDeleteMedia, HoldsRemoveMedia, HoldsPerson, Found
<1>6. Placed(tx'[t]) /\ Holds(tx[t])'
  <2>1. CASE Begin(t)
    <3>1. Placed(tx'[t])
      <4>1. Len(Script[tx'[t].op]) \in 1 .. 4
        BY <2>1, Begins, Lengths DEF Inv, Ops
      <4> QED  BY <2>1, <4>1, Begins DEF Inv, Placed, Ops
    <3>2. Holds(tx[t])'
      BY <2>1, Begins DEF Inv, Holds, HoldsAttach, HoldsDetach, HoldsSetPrimary,
                          HoldsDeleteMedia, HoldsRemoveMedia, HoldsPerson, Found
    <3> QED  BY <3>1, <3>2
  <2>2. CASE Abort(t)
    BY <2>2, Ends, IdleIsTx
       DEF Inv, Abort, Idle, Holds, HoldsAttach, HoldsDetach, HoldsSetPrimary,
           HoldsDeleteMedia, HoldsRemoveMedia, HoldsPerson
  <2> QED  BY <2>1, <2>2, FindHolds, LockHolds
<1> QED  BY <1>3, <1>4, <1>5, <1>6 DEF Inv, Placed

-----------------------------------------------------------------------------
(* Commits. *)

\* What a transaction has secured when its script is at an end.
Secured(x) ==
  /\ x.op = "attach" =>
       /\ x.p \in live /\ status[x.m] = "ready" /\ <<x.p, x.m>> \notin links
       /\ x.m \in x.share /\ <<x.p, x.m>> \in x.own
  /\ x.op = "detach" =>
       /\ x.p \in live /\ <<x.p, x.m>> \in links /\ <<x.p, x.m>> \in x.own
       /\ \A q \in Persons : q \in x.own <=> q = x.p /\ primary[q] = x.m
  /\ x.op = "setPrimary" =>
       /\ x.p \in live /\ status[x.m] = "ready" /\ <<x.p, x.m>> \in links
       /\ x.m \in x.share /\ x.p \in x.own
  /\ x.op = "deleteMedia" =>
       /\ status[x.m] = "ready" /\ x.m \in x.own
       /\ \A q \in Persons : q \in x.own <=> primary[q] = x.m
  /\ x.op = "removeMedia" =>
       /\ status[x.m] = "deleted" /\ x.m \in x.own
       /\ \A l \in links : l \in x.own <=> l[2] = x.m
  /\ x.op = "deletePerson" => x.p \in live /\ x.p \in x.own
  /\ x.op = "restorePerson" => x.p \notin live /\ x.p \in x.own

LEMMA AtCommit ==
  ASSUME Inv, NEW t \in Txs, Finished(t)
  PROVE  Secured(tx[t]) /\ Placed(tx[t]) /\ tx[t].op \in Ops
<1> DEFINE x == tx[t]
<1>1. /\ x.op \in Ops /\ Placed(x) /\ Holds(x) /\ x.at \in Nat
      /\ x.at > Len(Script[x.op]) /\ Len(Script[x.op]) \in Nat
  BY StillRuns DEF Inv, TypeOK, Tx, Finished, Active
<1>2. x.wait = {} /\ ~x.running
  BY <1>1 DEF Placed, Ops
<1>3. CASE x.op = "attach"
  <2>1. x.at > 3 /\ x.p \in Persons /\ x.m \in Media
    BY <1>1, <1>3, Lengths DEF Placed
  <2> QED  BY <1>1, <1>3, <2>1 DEF Secured, Holds, HoldsAttach, Inv, SharedStays
<1>4. CASE x.op = "detach"
  <2>1. x.at > 3 /\ x.p \in Persons /\ x.m \in Media /\ Found(x, 3)
    BY <1>1, <1>4, Lengths DEF Placed, Found
  <2>2. <<x.p, x.m>> \notin Persons
    <3>1. <<x.p, x.m>> \in Links
      BY <2>1 DEF Links
    <3> QED  BY <3>1, RowsDiffer
  <2> QED  BY <1>1, <1>2, <1>4, <2>1, <2>2 DEF Secured, Holds, HoldsDetach, Inv, SharedStays
<1>5. CASE x.op = "setPrimary"
  <2>1. x.at > 4 /\ x.p \in Persons /\ x.m \in Media
    BY <1>1, <1>5, Lengths DEF Placed
  <2>2. <<x.p, x.m>> \in Links
    BY <2>1 DEF Links
  <2> QED  BY <1>1, <1>5, <2>1, <2>2 DEF Secured, Holds, HoldsSetPrimary, Inv, SharedStays
<1>6. CASE x.op = "deleteMedia"
  <2>1. x.at > 2 /\ x.m \in Media /\ Found(x, 2)
    BY <1>1, <1>6, Lengths DEF Placed, Found
  <2>2. x.m \notin Persons
    BY <2>1, RowsDiffer
  <2> QED  BY <1>1, <1>2, <1>6, <2>1, <2>2 DEF Secured, Holds, HoldsDeleteMedia
<1>7. CASE x.op = "removeMedia"
  <2>1. x.at > 2 /\ x.m \in Media /\ Found(x, 2)
    BY <1>1, <1>7, Lengths DEF Placed, Found
  <2>2. x.m \notin links
    BY <2>1, RowsDiffer DEF Inv, TypeOK
  <2> QED  BY <1>1, <1>2, <1>7, <2>1, <2>2 DEF Secured, Holds, HoldsRemoveMedia
<1>8. CASE x.op \in {"deletePerson", "restorePerson"}
  <2>1. x.at > 1
    BY <1>1, <1>8, Lengths
  <2> QED  BY <1>1, <1>8, <2>1 DEF Secured, Holds, HoldsPerson
<1> QED  BY <1>1, <1>3, <1>4, <1>5, <1>6, <1>7, <1>8 DEF Ops

\* A commit changes rows its transaction owns, and refers only to files it has shared.
Confined(x) ==
  /\ \A m \in Media : status'[m] # status[m] => m \in x.own
  /\ \A p \in Persons : (p \in live' <=> p \in live) \/ p \in x.own
  /\ \A p \in Persons : primary'[p] # primary[p] =>
       p \in x.own /\ (primary'[p] = None \/ primary'[p] \in x.share)
  /\ \A l \in Links : l \in links' /\ l \notin links => l \in x.own /\ l[2] \in x.share
  /\ \A l \in links : l \notin links' => l \in x.own

CommitStep(t) ==
  \/ Attach(t) \/ Detach(t) \/ SetPrimary(t) \/ DeleteMedia(t) \/ RemoveMedia(t)
  \/ DeletePerson(t) \/ RestorePerson(t)

\* Each commit is a step of PersonMedia, and touches nothing it has not locked.
LEMMA CommitEffect ==
  ASSUME Inv, NEW t \in Txs, CommitStep(t)
  PROVE  Atomic!Next /\ Confined(tx[t]) /\ Finished(t) /\ End(t)
<1> DEFINE x == tx[t]
<1> USE DEF Inv, TypeOK
<1>1. Finished(t) /\ End(t)
  BY DEF CommitStep, Attach, Detach, SetPrimary, DeleteMedia, RemoveMedia, DeletePerson,
         RestorePerson, Commits
<1>2. Secured(x) /\ Placed(x)
  BY <1>1, AtCommit
<1>3. CASE Attach(t)
  <2>1. x.op = "attach" /\ x.p \in Persons /\ x.m \in Media
    BY <1>2, <1>3 DEF Attach, Commits, Placed
  <2>2. Atomic!Attach(x.p, x.m)
    BY <1>2, <1>3, <2>1 DEF Attach, Secured, Atomic!Attach
  <2>3. Confined(x)
    BY <1>2, <1>3, <2>1 DEF Attach, Secured, Confined, Links
  <2> QED  BY <1>1, <2>1, <2>2, <2>3 DEF Atomic!Next
<1>4. CASE Detach(t)
  <2>1. x.op = "detach" /\ x.p \in Persons /\ x.m \in Media
    BY <1>2, <1>4 DEF Detach, Commits, Placed
  <2>2. \A q \in Persons : q \in x.own <=> q = x.p /\ primary[q] = x.m
    BY <1>2, <2>1 DEF Secured
  <2>3. primary' = IF primary[x.p] = x.m THEN [primary EXCEPT ![x.p] = None] ELSE primary
    BY <1>4, <2>1, <2>2 DEF Detach, Cleared
  <2>4. Atomic!Detach(x.p, x.m)
    BY <1>2, <1>4, <2>1, <2>3 DEF Detach, Secured, Atomic!Detach
  <2>5. Confined(x)
    BY <1>2, <1>4, <2>1, <2>2, <2>3 DEF Detach, Secured, Confined
  <2> QED  BY <1>1, <2>1, <2>4, <2>5 DEF Atomic!Next
<1>5. CASE SetPrimary(t)
  <2>1. x.op = "setPrimary" /\ x.p \in Persons /\ x.m \in Media
    BY <1>2, <1>5 DEF SetPrimary, Commits, Placed
  <2>2. Atomic!SetPrimary(x.p, x.m)
    BY <1>2, <1>5, <2>1 DEF SetPrimary, Secured, Atomic!SetPrimary
  <2>3. Confined(x)
    BY <1>2, <1>5, <2>1 DEF SetPrimary, Secured, Confined
  <2> QED  BY <1>1, <2>1, <2>2, <2>3 DEF Atomic!Next
<1>6. CASE DeleteMedia(t)
  <2>1. x.op = "deleteMedia" /\ x.m \in Media
    BY <1>2, <1>6 DEF DeleteMedia, Commits, Placed
  <2>2. primary' = [p \in Persons |-> IF primary[p] = x.m THEN None ELSE primary[p]]
    BY <1>2, <1>6, <2>1 DEF DeleteMedia, Cleared, Secured
  <2>3. Atomic!DeleteMedia(x.m)
    BY <1>2, <1>6, <2>1, <2>2 DEF DeleteMedia, Secured, Atomic!DeleteMedia
  <2>4. Confined(x)
    BY <1>2, <1>6, <2>1, <2>2 DEF DeleteMedia, Secured, Confined
  <2> QED  BY <1>1, <2>1, <2>3, <2>4 DEF Atomic!Next
<1>7. CASE RemoveMedia(t)
  <2>1. x.op = "removeMedia" /\ x.m \in Media
    BY <1>2, <1>7 DEF RemoveMedia, Commits, Placed
  <2>2. links' = {l \in links : l[2] # x.m}
    BY <1>2, <1>7, <2>1 DEF RemoveMedia, Secured
  <2>3. Atomic!RemoveMedia(x.m)
    BY <1>2, <1>7, <2>1, <2>2 DEF RemoveMedia, Secured, Atomic!RemoveMedia
  <2>4. Confined(x)
    BY <1>2, <1>7, <2>1 DEF RemoveMedia, Secured, Confined
  <2> QED  BY <1>1, <2>1, <2>3, <2>4 DEF Atomic!Next
<1>8. CASE DeletePerson(t)
  <2>1. x.op = "deletePerson" /\ x.p \in Persons
    BY <1>2, <1>8 DEF DeletePerson, Commits, Placed
  <2>2. Atomic!DeletePerson(x.p) /\ Confined(x)
    BY <1>2, <1>8, <2>1 DEF DeletePerson, Secured, Atomic!DeletePerson, Confined
  <2> QED  BY <1>1, <2>1, <2>2 DEF Atomic!Next
<1>9. CASE RestorePerson(t)
  <2>1. x.op = "restorePerson" /\ x.p \in Persons
    BY <1>2, <1>9 DEF RestorePerson, Commits, Placed
  <2>2. Atomic!RestorePerson(x.p) /\ Confined(x)
    BY <1>2, <1>9, <2>1 DEF RestorePerson, Secured, Atomic!RestorePerson, Confined
  <2> QED  BY <1>1, <2>1, <2>2 DEF Atomic!Next
<1> QED  BY <1>3, <1>4, <1>5, <1>6, <1>7, <1>8, <1>9 DEF CommitStep

\* What a step of PersonMedia, whoever takes it, keeps.
LEMMA AtomicKeeps ==
  ASSUME Inv, Atomic!Next
  PROVE  /\ status' \in [Media -> {"ready", "deleted", "gone"}]
         /\ live' \subseteq Persons
         /\ primary' \in [Persons -> Media \cup {None}]
         /\ links' \subseteq Links
         /\ PrimaryIsAttachedAndReady'
<1> USE DEF Inv, TypeOK, PrimaryIsAttachedAndReady
<1> DEFINE Kept == /\ status' \in [Media -> {"ready", "deleted", "gone"}]
                   /\ live' \subseteq Persons
                   /\ primary' \in [Persons -> Media \cup {None}]
                   /\ links' \subseteq Links
                   /\ PrimaryIsAttachedAndReady'
<1>1. ASSUME NEW p \in Persons, NEW m \in Media, Atomic!Attach(p, m)
      PROVE  Kept
  BY <1>1 DEF Atomic!Attach, Links
<1>2. ASSUME NEW p \in Persons, NEW m \in Media, Atomic!Detach(p, m)
      PROVE  Kept
  BY <1>2 DEF Atomic!Detach
<1>3. ASSUME NEW p \in Persons, NEW m \in Media, Atomic!SetPrimary(p, m)
      PROVE  Kept
  BY <1>3 DEF Atomic!SetPrimary
<1>4. ASSUME NEW m \in Media, Atomic!DeleteMedia(m)
      PROVE  Kept
  BY <1>4 DEF Atomic!DeleteMedia
<1>5. ASSUME NEW m \in Media, Atomic!RemoveMedia(m)
      PROVE  Kept
  BY <1>5 DEF Atomic!RemoveMedia
<1>6. ASSUME NEW p \in Persons, Atomic!DeletePerson(p)
      PROVE  Kept
  BY <1>6 DEF Atomic!DeletePerson
<1>7. ASSUME NEW p \in Persons, Atomic!RestorePerson(p)
      PROVE  Kept
  BY <1>7 DEF Atomic!RestorePerson
<1> HIDE DEF Kept, Inv, TypeOK, PrimaryIsAttachedAndReady
<1>8. Kept
  BY <1>1, <1>2, <1>3, <1>4, <1>5, <1>6, <1>7 DEF Atomic!Next
<1> QED  BY <1>8 DEF Kept

\* What a transaction holds keeps its meaning when another one commits.
LEMMA OthersHold ==
  ASSUME Inv, NEW t \in Txs, NEW u \in Txs \ {t}, Confined(tx[t]), tx'[u] = tx[u],
         links' \subseteq Links
  PROVE  Holds(tx[u])'
<1> DEFINE x == tx[u]
<1>1. /\ Holds(x) /\ Placed(x)
      /\ \A r \in x.own : r \notin tx[t].own /\ r \notin tx[t].share
      /\ \A r \in x.share : r \notin tx[t].own
  BY DEF Inv, Exclusive
<1>2. HoldsAttach(x) => HoldsAttach(tx[u])'
  <2> SUFFICES ASSUME x.op = "attach", HoldsAttach(x) PROVE HoldsAttach(tx[u])'
    BY DEF HoldsAttach
  <2>1. <<x.p, x.m>> \in Links
    BY <1>1 DEF Placed, Links
  <2> QED  BY <1>1, <2>1 DEF HoldsAttach, Confined
<1>3. HoldsDetach(x) => HoldsDetach(tx[u])'
  <2> SUFFICES ASSUME x.op = "detach", HoldsDetach(x) PROVE HoldsDetach(tx[u])'
    BY DEF HoldsDetach
  <2>1. x.p \in Persons /\ x.m \in Media /\ <<x.p, x.m>> \in Links
    BY <1>1 DEF Placed, Links
  <2>2. x.at > 1 => primary'[x.p] = primary[x.p]
    BY <1>1, <2>1 DEF HoldsDetach, Confined
  <2>3. x.p \in x.own => primary'[x.p] = primary[x.p]
    BY <1>1, <2>1 DEF Confined
  <2>4. <<x.p, x.m>> \in x.own => <<x.p, x.m>> \in links'
    BY <1>1, <2>1 DEF HoldsDetach, Confined
  <2>5. Found(x, 3) => x.at > 1
    BY DEF Found, Inv, TypeOK, Tx
  <2> QED  BY <2>2, <2>3, <2>4, <2>5 DEF HoldsDetach, Found
<1>4. HoldsSetPrimary(x) => HoldsSetPrimary(tx[u])'
  BY DEF HoldsSetPrimary
<1>5. HoldsDeleteMedia(x) => HoldsDeleteMedia(tx[u])'
  <2> SUFFICES ASSUME x.op = "deleteMedia", HoldsDeleteMedia(x) PROVE HoldsDeleteMedia(tx[u])'
    BY DEF HoldsDeleteMedia
  <2>1. x.m \in Media /\ x.m # None
    BY <1>1, RowsDiffer DEF Placed, Rows
  <2>2. x.m \in x.own => status'[x.m] = "ready"
    BY <1>1, <2>1 DEF HoldsDeleteMedia, Confined
  <2>3. \A r \in x.own : r = x.m \/ (r \in Persons /\ primary'[r] = x.m)
    BY <1>1 DEF HoldsDeleteMedia, Confined
  <2>4. ASSUME Found(x, 2), NEW q \in Persons, primary'[q] = x.m
        PROVE  q \in x.own \cup x.wait
    <3>1. x.m \in x.own
      BY <2>4 DEF HoldsDeleteMedia, Found, Inv, TypeOK, Tx
    <3>2. primary[q] = x.m
      BY <1>1, <2>1, <2>4, <3>1 DEF Confined
    <3> QED  BY <2>4, <3>2 DEF HoldsDeleteMedia
  <2> QED  BY <2>2, <2>3, <2>4 DEF HoldsDeleteMedia, Found
<1>6. HoldsRemoveMedia(x) => HoldsRemoveMedia(tx[u])'
  <2> SUFFICES ASSUME x.op = "removeMedia", HoldsRemoveMedia(x) PROVE HoldsRemoveMedia(tx[u])'
    BY DEF HoldsRemoveMedia
  <2>1. x.m \in Media
    BY <1>1 DEF Placed
  <2>2. x.m \in x.own => status'[x.m] = "deleted"
    BY <1>1, <2>1 DEF HoldsRemoveMedia, Confined
  <2>3. \A r \in x.own : r = x.m \/ (r \in links' /\ r[2] = x.m)
    BY <1>1 DEF HoldsRemoveMedia, Confined
  <2>4. ASSUME Found(x, 2), NEW l \in links', l[2] = x.m
        PROVE  l \in x.own \cup x.wait
    <3>1. x.m \in x.own
      BY <2>4 DEF HoldsRemoveMedia, Found, Inv, TypeOK, Tx
    <3>2. l \in links
      BY <1>1, <2>1, <2>4, <3>1 DEF Confined
    <3> QED  BY <2>4, <3>2 DEF HoldsRemoveMedia
  <2> QED  BY <2>2, <2>3, <2>4 DEF HoldsRemoveMedia, Found
<1>7. HoldsPerson(x) => HoldsPerson(tx[u])'
  <2> SUFFICES ASSUME x.op \in {"deletePerson", "restorePerson"}, HoldsPerson(x)
               PROVE  HoldsPerson(tx[u])'
    BY DEF HoldsPerson
  <2>1. x.p \in Persons
    BY <1>1 DEF Placed
  <2> QED  BY <1>1, <2>1 DEF HoldsPerson, Confined
<1> QED  BY <1>1, <1>2, <1>3, <1>4, <1>5, <1>6, <1>7 DEF Holds

LEMMA CommitKeeps ==
  ASSUME Inv, NEW t \in Txs, CommitStep(t)
  PROVE  Inv'
<1>1. Atomic!Next /\ Confined(tx[t]) /\ End(t)
  BY CommitEffect
<1>2. /\ status' \in [Media -> {"ready", "deleted", "gone"}]
      /\ live' \subseteq Persons
      /\ primary' \in [Persons -> Media \cup {None}]
      /\ links' \subseteq Links
      /\ PrimaryIsAttachedAndReady'
  BY <1>1, AtomicKeeps
<1>3. /\ tx' \in [Txs -> Tx] /\ tx'[t] = Idle
      /\ \A u \in Txs \ {t} : tx'[u] = tx[u]
  BY <1>1, Ends DEF Inv
<1>4. TypeOK'
  BY <1>2, <1>3 DEF Inv, TypeOK, Active
<1>5. Exclusive'
  BY <1>3 DEF Inv, Exclusive, Idle
<1>6. SharedStays'
  <2> SUFFICES ASSUME NEW u \in Txs, NEW r \in tx'[u].share
               PROVE  /\ r \in Media => status'[r] = "ready"
                      /\ r \in Persons => r \in live'
                      /\ r \in Links => r \in links'
    BY DEF SharedStays
  <2>1. u # t /\ r \in tx[u].share /\ r \notin tx[t].own
    BY <1>3 DEF Inv, Exclusive, Idle
  <2> QED  BY <1>1, <2>1 DEF Inv, SharedStays, Confined
<1>7. ASSUME NEW u \in Txs  PROVE Placed(tx'[u]) /\ Holds(tx[u])'
  <2>1. CASE u = t
    <3>1. tx'[u] = Idle
      BY <1>3, <2>1
    <3>2. Placed(tx'[u])
      BY <3>1, IdleIsTx
    <3>3. Holds(tx[u])'
      BY <3>1 DEF Idle, Holds, HoldsAttach, HoldsDetach, HoldsSetPrimary, HoldsDeleteMedia,
                  HoldsRemoveMedia, HoldsPerson
    <3> QED  BY <3>2, <3>3
  <2>2. CASE u # t
    <3>1. u \in Txs \ {t} /\ tx'[u] = tx[u]
      BY <1>3, <2>2
    <3>2. Holds(tx[u])'
      BY <1>1, <1>2, <3>1, OthersHold
    <3>3. Placed(tx'[u])
      BY <3>1 DEF Inv
    <3> QED  BY <3>2, <3>3
  <2> QED  BY <2>1, <2>2
<1> QED  BY <1>2, <1>4, <1>5, <1>6, <1>7 DEF Inv, Placed

-----------------------------------------------------------------------------
(* The theorems. *)

LEMMA Invariance == Spec => []Inv
<1>1. Init => Inv
  <2> SUFFICES ASSUME Init PROVE Inv
    OBVIOUS
  <2>1. TypeOK
    BY IdleIsTx DEF Init, TypeOK, Active
  <2>2. PrimaryIsAttachedAndReady
    BY DEF Init, PrimaryIsAttachedAndReady
  <2>3. Exclusive /\ SharedStays
    BY DEF Init, Exclusive, SharedStays, Idle
  <2>4. ASSUME NEW t \in Txs  PROVE Placed(tx[t]) /\ Holds(tx[t])
    <3>1. tx[t] = Idle
      BY DEF Init
    <3> QED  BY <3>1, IdleIsTx
  <2> QED  BY <2>1, <2>2, <2>3, <2>4 DEF Inv
<1>2. Inv /\ [Next]_vars => Inv'
  <2> SUFFICES ASSUME Inv, [Next]_vars PROVE Inv'
    OBVIOUS
  <2>1. CASE UNCHANGED vars
    <3>1. TypeOK' /\ PrimaryIsAttachedAndReady' /\ Exclusive' /\ SharedStays'
      BY <2>1 DEF vars, Inv, TypeOK, PrimaryIsAttachedAndReady, Exclusive, SharedStays, Active
    <3>2. ASSUME NEW t \in Txs  PROVE Placed(tx'[t]) /\ Holds(tx[t])'
      BY <2>1 DEF vars, Inv, Holds, HoldsAttach, HoldsDetach, HoldsSetPrimary,
                  HoldsDeleteMedia, HoldsRemoveMedia, HoldsPerson, Found
    <3> QED  BY <3>1, <3>2 DEF Inv, Placed
  <2>2. CASE Next
    BY <2>2, QuietStep, CommitKeeps DEF Next, CommitStep
  <2> QED  BY <2>1, <2>2
<1> QED  BY <1>1, <1>2, PTL DEF Spec

\* Rows and transactions stay well formed; a transaction that has ended holds no lock.
THEOREM PrimaryMediaTypeCorrect == Spec => []TypeOK
<1>1. Inv => TypeOK
  BY DEF Inv
<1> QED  BY <1>1, Invariance, PTL

\* However the transactions interleave, a person's primary file is attached to the person
\* and not deleted.
THEOREM PrimaryIsAttachedAndReadyHolds == Spec => []PrimaryIsAttachedAndReady
<1>1. Inv => PrimaryIsAttachedAndReady
  BY DEF Inv
<1> QED  BY <1>1, Invariance, PTL

\* The transactions implement the indivisible operations of PersonMedia: each commit is
\* one of them, and nothing before the commit shows.
THEOREM ImplementsPersonMediaHolds == Spec => ImplementsPersonMedia
<1>1. Init => Atomic!Init
  BY DEF Init, Atomic!Init
<1>2. Inv /\ [Next]_vars => [Atomic!Next]_<<status, live, primary, links>>
  <2> SUFFICES ASSUME Inv, Next PROVE Atomic!Next \/ UNCHANGED <<status, live, primary, links>>
    BY DEF vars
  <2>1. ASSUME NEW t \in Txs, Begin(t) \/ Find(t) \/ Lock(t) \/ Abort(t)
        PROVE  UNCHANGED <<status, live, primary, links>>
    BY <2>1 DEF Begin, Find, Lock, Abort, Data
  <2>2. ASSUME NEW t \in Txs, CommitStep(t)  PROVE Atomic!Next
    BY <2>2, CommitEffect
  <2> QED  BY <2>1, <2>2 DEF Next, CommitStep
<1> QED  BY <1>1, <1>2, Invariance, PTL DEF Spec, ImplementsPersonMedia, Atomic!Spec

-----------------------------------------------------------------------------
(* Deadlocks.  What each transaction that is no upgrade may wait for, and what it cannot hold yet. *)

WantsAttach(x) ==
  x.op = "attach" =>
    /\ x.share \subseteq {x.m, x.p}
    /\ x.at = 1 => x.share = {} /\ x.wait \subseteq {x.m}
    /\ x.at = 2 => x.wait \subseteq {x.p}
    /\ x.at <= 2 => x.p \notin x.share
    /\ x.at = 3 => x.wait \subseteq {<<x.p, x.m>>}
    /\ x.at <= 3 => x.own = {}

WantsDeleteMedia(x) ==
  x.op = "deleteMedia" =>
    /\ x.share = {}
    /\ x.at = 1 => x.own = {} /\ x.wait \subseteq {x.m}
    /\ x.at = 2 => x.wait \subseteq Persons

WantsRemoveMedia(x) ==
  x.op = "removeMedia" =>
    /\ x.share = {}
    /\ x.at = 1 => x.own = {} /\ x.wait \subseteq {x.m}
    /\ x.at = 2 => \A r \in x.wait : r \in Links /\ r[2] = x.m

WantsPerson(x) ==
  x.op \in {"deletePerson", "restorePerson"} =>
    x.share = {} /\ (x.at = 1 => x.own = {} /\ x.wait \subseteq {x.p})

Wants(x) == WantsAttach(x) /\ WantsDeleteMedia(x) /\ WantsRemoveMedia(x) /\ WantsPerson(x)

\* The deletions that have their file and look for the persons it is primary for.
Clearing == {t \in Txs : tx[t].op = "deleteMedia" /\ tx[t].at = 2}

\* One of them waits for a person who has become the business of another one.
Chases(t, u) == \E r \in tx[t].wait : primary[r] = tx[u].m

\* They chase each other in no circle: who is chased has its file since later.
Orderly == \A C \in SUBSET Clearing : C # {} => \E t \in C : \A u \in C \ {t} : ~ Chases(t, u)

LockInv == Inv /\ Orderly /\ \A t \in Txs : Wants(tx[t])

LEMMA IdleWants == Wants(Idle)
BY DEF Idle, Wants, WantsAttach, WantsDeleteMedia, WantsRemoveMedia, WantsPerson

LEMMA FindWants ==
  ASSUME LockInv, NEW t \in Txs, Find(t)
  PROVE  Wants(tx'[t])
<1> DEFINE found == {r \in Rows : Met(t, r) /\ Joined(t)}
           x == tx[t]
           y == tx'[t]
<1>1. /\ x.at <= Len(Script[x.op]) /\ Active(t) /\ x.op \in Ops /\ x \in Tx
      /\ Wants(x) /\ Placed(x)
  BY StillRuns DEF LockInv, Inv, TypeOK, Tx, Find, Active
<1>2. CASE y = Idle
  BY <1>2, IdleWants
<1>3. CASE Goes(x, y, found) /\ y.share = x.share /\ y.own = x.own
           /\ (found = {} => Statement(t) \in Optional)
  <2>1. found = {} \/ y.at = x.at
    BY <1>3 DEF Goes
  <2>2. x.at \in Nat
    BY <1>1 DEF Tx
  <2>3. CASE x.op = "attach"
    <3>1. x.at \in {1, 2, 3} /\ Statement(t) \notin Optional
      BY <1>1, <2>3, Numbered, StatementOf DEF LockInv, Inv, Optional
    <3>2. y.at = x.at /\ y.wait = found
      BY <1>3, <3>1 DEF Goes
    <3>3. /\ x.at = 1 => found \subseteq {x.m}
          /\ x.at = 2 => found \subseteq {x.p}
          /\ x.at = 3 => found \subseteq {<<x.p, x.m>>}
      BY <2>3, StatementOf DEF Met, Matches
    <3> QED  BY <1>1, <1>3, <2>3, <3>1, <3>2, <3>3
             DEF Goes, Wants, WantsAttach, WantsDeleteMedia, WantsRemoveMedia, WantsPerson
  <2>4. CASE x.op = "deleteMedia"
    <3>1. x.at \in {1, 2} /\ (x.at = 1 => Statement(t) \notin Optional)
      BY <1>1, <2>4, Numbered, StatementOf DEF LockInv, Inv, Optional
    <3>2. (y.at = x.at \/ (x.at = 2 /\ y.at = 3)) /\ y.wait = found
      BY <1>3, <3>1 DEF Goes
    <3>3. /\ x.at = 1 => found \subseteq {x.m}
          /\ x.at = 2 => found \subseteq Persons
      BY <2>4, StatementOf DEF Met, Matches
    <3> QED  BY <1>1, <1>3, <2>4, <3>1, <3>2, <3>3
             DEF Goes, Wants, WantsAttach, WantsDeleteMedia, WantsRemoveMedia, WantsPerson
  <2>5. CASE x.op = "removeMedia"
    <3>1. x.at \in {1, 2} /\ (x.at = 1 => Statement(t) \notin Optional)
      BY <1>1, <2>5, Numbered, StatementOf DEF LockInv, Inv, Optional
    <3>2. (y.at = x.at \/ (x.at = 2 /\ y.at = 3)) /\ y.wait = found
      BY <1>3, <3>1 DEF Goes
    <3>3. /\ x.at = 1 => found \subseteq {x.m}
          /\ x.at = 2 => \A r \in found : r \in Links /\ r[2] = x.m
      BY <2>5, StatementOf DEF Met, Matches, LockInv, Inv, TypeOK
    <3> QED  BY <1>1, <1>3, <2>5, <3>1, <3>2, <3>3
             DEF Goes, Wants, WantsAttach, WantsDeleteMedia, WantsRemoveMedia, WantsPerson
  <2>6. CASE x.op \in {"deletePerson", "restorePerson"}
    <3>1. x.at = 1 /\ Statement(t) \notin Optional
      BY <1>1, <2>6, Numbered, StatementOf DEF LockInv, Inv, Optional
    <3>2. y.at = x.at /\ y.wait = found
      BY <1>3, <3>1 DEF Goes
    <3>3. found \subseteq {x.p}
      BY <2>6, <3>1, StatementOf DEF Met, Matches
    <3> QED  BY <1>1, <1>3, <2>6, <3>1, <3>2, <3>3
             DEF Goes, Wants, WantsAttach, WantsDeleteMedia, WantsRemoveMedia, WantsPerson
  <2>7. CASE x.op \in {"detach", "setPrimary"}
    BY <1>3, <2>7 DEF Goes, Wants, WantsAttach, WantsDeleteMedia, WantsRemoveMedia, WantsPerson
  <2> QED  BY <1>1, <2>3, <2>4, <2>5, <2>6, <2>7 DEF Ops
<1> QED  BY <1>1, <1>2, <1>3, Finds DEF LockInv, Inv

LEMMA LockWants ==
  ASSUME LockInv, NEW t \in Txs, Lock(t)
  PROVE  Wants(tx'[t])
<1> DEFINE x == tx[t]
           y == tx'[t]
<1>1. /\ x.at <= Len(Script[x.op]) /\ Active(t) /\ x.op \in Ops /\ x \in Tx
      /\ Wants(x) /\ Placed(x)
  BY StillRuns DEF LockInv, Inv, TypeOK, Tx, Lock, Active
<1>2. CASE y = Idle
  BY <1>2, IdleWants
<1>3. ASSUME NEW r \in x.wait, Goes(x, y, x.wait \ {r}),
             \/ /\ Statement(t) \in Sharing => y.share = x.share \cup {r} /\ y.own = x.own
                /\ Statement(t) \in Writing => y.share = x.share /\ y.own = x.own \cup {r}
             \/ y.share = x.share /\ y.own = x.own
      PROVE  Wants(y)
  <2> USE DEF Wants, WantsAttach, WantsDeleteMedia, WantsRemoveMedia, WantsPerson
  <2>1. /\ y.op = x.op /\ y.p = x.p /\ y.m = x.m /\ y.wait = x.wait \ {r}
        /\ y.at = (IF x.wait \ {r} = {} THEN x.at + 1 ELSE x.at)
    BY <1>3 DEF Goes
  <2>3. CASE x.op = "attach"
    <3>1. /\ x.at \in {1, 2, 3} /\ x.p \in Persons /\ x.m \in Media /\ x.p # x.m
      BY <1>1, <2>3, Numbered, RowsDiffer DEF LockInv, Inv, Placed
    <3>2. x.wait = {r} /\ (x.at = 1 => r = x.m) /\ (x.at = 2 => r = x.p)
      BY <1>1, <1>3, <2>3, <3>1
    <3>3. y.at = x.at + 1 /\ y.wait = {}
      BY <2>1, <3>2
    <3>4. /\ x.at \in {1, 2} => y.own = x.own /\ y.share \subseteq x.share \cup {r}
          /\ x.at = 3 => y.share = x.share
      BY <1>3, <2>3, StatementOf DEF Sharing, Writing, Statements
    <3>5. CASE x.at = 1
      BY <1>1, <2>1, <2>3, <3>1, <3>2, <3>3, <3>4, <3>5
    <3>6. CASE x.at = 2
      BY <1>1, <2>1, <2>3, <3>1, <3>2, <3>3, <3>4, <3>6
    <3>7. CASE x.at = 3
      BY <1>1, <2>1, <2>3, <3>1, <3>2, <3>3, <3>4, <3>7
    <3> QED  BY <3>1, <3>5, <3>6, <3>7
  <2>4. CASE x.op = "deleteMedia"
    <3>1. x.at \in {1, 2} /\ Statement(t) \in Writing /\ Statement(t) \notin Sharing
      BY <1>1, <2>4, Numbered, StatementOf DEF LockInv, Inv, Writing, Sharing, Statements
    <3>2. x.at = 1 => x.wait = {r}
      BY <1>1, <1>3, <2>4
    <3>3. y.share = {}
      BY <1>1, <1>3, <2>4, <3>1
    <3> QED  BY <1>1, <2>1, <2>4, <3>1, <3>2, <3>3
  <2>5. CASE x.op = "removeMedia"
    <3>1. x.at \in {1, 2} /\ Statement(t) \in Writing /\ Statement(t) \notin Sharing
      BY <1>1, <2>5, Numbered, StatementOf DEF LockInv, Inv, Writing, Sharing, Statements
    <3>2. x.at = 1 => x.wait = {r}
      BY <1>1, <1>3, <2>5
    <3>3. y.share = {}
      BY <1>1, <1>3, <2>5, <3>1
    <3> QED  BY <1>1, <2>1, <2>5, <3>1, <3>2, <3>3
  <2>6. CASE x.op \in {"deletePerson", "restorePerson"}
    <3>1. x.at = 1 /\ Statement(t) \in Writing /\ Statement(t) \notin Sharing
      BY <1>1, <2>6, Numbered, StatementOf DEF LockInv, Inv, Writing, Sharing, Statements
    <3>2. x.wait = {r}
      BY <1>1, <1>3, <2>6, <3>1
    <3>3. y.share = {}
      BY <1>1, <1>3, <2>6, <3>1
    <3> QED  BY <1>1, <2>1, <2>6, <3>1, <3>2, <3>3
  <2>7. CASE x.op \in {"detach", "setPrimary"}
    BY <2>1, <2>7
  <2> QED  BY <1>1, <2>3, <2>4, <2>5, <2>6, <2>7 DEF Ops
<1> QED  BY <1>1, <1>2, <1>3, Locks DEF LockInv, Inv

\* A deletion that clears the persons has its file, and no other one has.
LEMMA ClearingOwns ==
  ASSUME LockInv, NEW t \in Clearing
  PROVE  /\ t \in Txs /\ tx[t].m \in Media /\ tx[t].m \in tx[t].own /\ tx[t].wait \subseteq Persons
         /\ \A r \in tx[t].own : r = tx[t].m \/ (r \in Persons /\ primary[r] = tx[t].m)
         /\ \A u \in Clearing \ {t} : tx[u].m # tx[t].m
<1>1. \A u \in Clearing : /\ u \in Txs /\ tx[u].m \in Media /\ tx[u].m \in tx[u].own
                          /\ tx[u].wait \subseteq Persons
                          /\ \A r \in tx[u].own :
                               r = tx[u].m \/ (r \in Persons /\ primary[r] = tx[u].m)
  BY DEF Clearing, LockInv, Inv, Placed, Holds, HoldsDeleteMedia, Wants, WantsDeleteMedia
<1>2. \A u \in Clearing \ {t} : tx[u].m # tx[t].m
  BY <1>1 DEF LockInv, Inv, Exclusive
<1> QED  BY <1>1, <1>2

\* A step of one transaction that commits nothing.
LEMMA OneStepOrderly ==
  ASSUME LockInv, NEW t \in Txs, primary' = primary, \A u \in Txs \ {t} : tx'[u] = tx[u],
         t \in Clearing' =>
           \/ tx'[t].wait = {}
           \/ /\ t \in Clearing /\ tx'[t].m = tx[t].m
              /\ \/ tx'[t].wait \subseteq tx[t].wait
                 \/ \A r \in tx'[t].wait : primary[r] = tx[t].m
  PROVE  Orderly'
<1> SUFFICES ASSUME NEW C \in SUBSET Clearing', C # {}
             PROVE  \E s \in C : \A u \in C \ {s} : ~ Chases(s, u)'
  BY DEF Orderly
<1>1. \A u \in C \ {t} : u \in Txs /\ tx'[u] = tx[u] /\ u \in Clearing
  BY DEF Clearing
<1>2. CASE t \notin C
  <2>1. PICK s \in C : \A u \in C \ {s} : ~ Chases(s, u)
    BY <1>1, <1>2 DEF LockInv, Orderly
  <2> QED  BY <1>1, <1>2, <2>1 DEF Chases
<1>3. CASE t \in C /\ tx'[t].wait = {}
  BY <1>3 DEF Chases
<1>4. CASE t \in C /\ t \in Clearing /\ tx'[t].m = tx[t].m /\ tx'[t].wait \subseteq tx[t].wait
  <2>1. PICK s \in C : \A u \in C \ {s} : ~ Chases(s, u)
    BY <1>1, <1>4 DEF LockInv, Orderly
  <2>2. tx'[s].wait \subseteq tx[s].wait /\ \A u \in C : tx'[u].m = tx[u].m
    BY <1>1, <1>4
  <2> QED  BY <2>1, <2>2 DEF Chases
<1>5. CASE /\ t \in C /\ t \in Clearing /\ tx'[t].m = tx[t].m
           /\ \A r \in tx'[t].wait : primary[r] = tx[t].m
  <2>1. \A u \in C \ {t} : tx'[u].m = tx[u].m /\ tx[u].m # tx[t].m
    BY <1>1, <1>5, ClearingOwns
  <2> QED  BY <1>5, <2>1 DEF Chases
<1> QED  BY <1>2, <1>3, <1>4, <1>5

LEMMA CommitOrderly ==
  ASSUME LockInv, NEW t \in Txs, CommitStep(t)
  PROVE  Orderly'
<1>1. Confined(tx[t]) /\ End(t)
  BY CommitEffect DEF LockInv
<1>2. tx'[t] = Idle /\ \A u \in Txs \ {t} : tx'[u] = tx[u]
  BY <1>1, Ends DEF LockInv, Inv
<1> SUFFICES ASSUME NEW C \in SUBSET Clearing', C # {}
             PROVE  \E s \in C : \A u \in C \ {s} : ~ Chases(s, u)'
  BY DEF Orderly
<1>3. \A u \in C : u \in Txs \ {t} /\ tx'[u] = tx[u] /\ u \in Clearing
  BY <1>2 DEF Clearing, Idle
<1>4. PICK s \in C : \A u \in C \ {s} : ~ Chases(s, u)
  BY <1>3 DEF LockInv, Orderly
<1>5. ASSUME NEW u \in C \ {s}, NEW r \in tx[s].wait, primary'[r] = tx[u].m  PROVE FALSE
  <2>1. r \in Persons /\ tx[u].m \in Media /\ tx[u].m \in tx[u].own /\ tx[u].m # None
    BY <1>3, ClearingOwns, RowsDiffer DEF Rows
  <2>2. primary[r] # tx[u].m
    BY <1>4, <1>5 DEF Chases
  <2>3. tx[u].m \in tx[t].share
    BY <1>1, <1>5, <2>1, <2>2 DEF Confined
  <2> QED  BY <1>3, <2>1, <2>3 DEF LockInv, Inv, Exclusive
<1> QED  BY <1>3, <1>4, <1>5 DEF Chases

LEMMA LockInvariance == Spec => []LockInv
<1>1. Init => Orderly /\ \A t \in Txs : Wants(tx[t])
  BY IdleWants DEF Init, Orderly, Clearing, Idle
<1>2. ASSUME LockInv, Inv', [Next]_vars  PROVE (Orderly /\ \A t \in Txs : Wants(tx[t]))'
  <2>1. CASE UNCHANGED vars
    <3>1. tx' = tx /\ primary' = primary
      BY <2>1 DEF vars
    <3>2. Orderly'
      BY <1>2, <3>1 DEF LockInv, Orderly, Clearing, Chases
    <3>3. (\A t \in Txs : Wants(tx[t]))'
      BY <1>2, <3>1 DEF LockInv
    <3> QED  BY <3>2, <3>3
  <2>2. ASSUME NEW t \in Txs, Begin(t)  PROVE (Orderly /\ \A u \in Txs : Wants(tx[u]))'
    <3>1. /\ tx'[t].at = 1 /\ tx'[t].wait = {} /\ tx'[t].share = {} /\ tx'[t].own = {}
          /\ \A u \in Txs \ {t} : tx'[u] = tx[u]
      BY <1>2, <2>2, Begins DEF LockInv, Inv
    <3>2. Wants(tx'[t])
      BY <3>1 DEF Wants, WantsAttach, WantsDeleteMedia, WantsRemoveMedia, WantsPerson
    <3>3. Orderly'
      BY <1>2, <2>2, <3>1, OneStepOrderly DEF Begin, Data, Clearing
    <3> QED  BY <1>2, <3>1, <3>2, <3>3 DEF LockInv
  <2>3. ASSUME NEW t \in Txs, Find(t)  PROVE (Orderly /\ \A u \in Txs : Wants(tx[u]))'
    <3>1. /\ tx[t].at <= Len(Script[tx[t].op]) /\ Active(t) /\ primary' = primary
          /\ tx[t].at \in Nat
      <4>1. tx[t].at <= Len(Script[tx[t].op])
        BY <1>2, <2>3, StillRuns DEF LockInv
      <4>2. Active(t) /\ primary' = primary
        BY <2>3 DEF Find, Data
      <4>3. tx[t].at \in Nat
        BY <1>2 DEF LockInv, Inv, TypeOK, Tx
      <4> QED  BY <4>1, <4>2, <4>3
    <3> DEFINE found == {r \in Rows : Met(t, r) /\ Joined(t)}
    <3>2. /\ \A u \in Txs \ {t} : tx'[u] = tx[u]
          /\ tx'[t] = Idle \/ Goes(tx[t], tx'[t], found)
      BY <1>2, <2>3, <3>1, Finds DEF LockInv, Inv
    <3>3. ASSUME t \in Clearing', tx'[t].wait # {}
          PROVE  /\ t \in Clearing /\ tx'[t].m = tx[t].m
                 /\ \A r \in tx'[t].wait : primary[r] = tx[t].m
      <4>1. Goes(tx[t], tx'[t], found)
        BY <3>2, <3>3 DEF Clearing, Idle
      <4>2. t \in Clearing /\ tx'[t].m = tx[t].m /\ tx'[t].wait = found
        BY <3>3, <4>1 DEF Clearing, Goes
      <4>3. Statement(t) = "clearPrimaries"
        BY <4>2, StatementOf DEF Clearing
      <4> QED  BY <4>2, <4>3 DEF Met, Matches
    <3>4. Orderly'
      BY <1>2, <3>1, <3>2, <3>3, OneStepOrderly
    <3> QED  BY <1>2, <2>3, <3>2, <3>4, FindWants DEF LockInv
  <2>4. ASSUME NEW t \in Txs, Lock(t)  PROVE (Orderly /\ \A u \in Txs : Wants(tx[u]))'
    <3>1. /\ tx[t].at <= Len(Script[tx[t].op]) /\ Active(t) /\ primary' = primary
          /\ tx[t].at \in Nat
      <4>1. tx[t].at <= Len(Script[tx[t].op])
        BY <1>2, <2>4, StillRuns DEF LockInv
      <4>2. Active(t) /\ primary' = primary
        BY <2>4 DEF Lock, Data
      <4>3. tx[t].at \in Nat
        BY <1>2 DEF LockInv, Inv, TypeOK, Tx
      <4> QED  BY <4>1, <4>2, <4>3
    <3>2. /\ \A u \in Txs \ {t} : tx'[u] = tx[u]
          /\ tx'[t] = Idle \/ \E r \in tx[t].wait : Goes(tx[t], tx'[t], tx[t].wait \ {r})
      BY <1>2, <2>4, <3>1, Locks DEF LockInv, Inv
    <3>3. ASSUME t \in Clearing', tx'[t].wait # {}
          PROVE  /\ t \in Clearing /\ tx'[t].m = tx[t].m /\ tx'[t].wait \subseteq tx[t].wait
      <4>1. PICK r \in tx[t].wait : Goes(tx[t], tx'[t], tx[t].wait \ {r})
        BY <3>2, <3>3 DEF Clearing, Idle
      <4> QED  BY <3>3, <4>1 DEF Clearing, Goes
    <3>4. Orderly'
      BY <1>2, <3>1, <3>2, <3>3, OneStepOrderly
    <3> QED  BY <1>2, <2>4, <3>2, <3>4, LockWants DEF LockInv
  <2>5. ASSUME NEW t \in Txs, Abort(t)  PROVE (Orderly /\ \A u \in Txs : Wants(tx[u]))'
    <3>1. tx'[t] = Idle /\ (\A u \in Txs \ {t} : tx'[u] = tx[u]) /\ primary' = primary
      BY <1>2, <2>5, Ends DEF LockInv, Inv, Abort, Data
    <3>2. Orderly'
      BY <1>2, <3>1, OneStepOrderly DEF Clearing, Idle
    <3> QED  BY <1>2, <3>1, <3>2, IdleWants DEF LockInv
  <2>6. ASSUME NEW t \in Txs, CommitStep(t)  PROVE (Orderly /\ \A u \in Txs : Wants(tx[u]))'
    <3>1. tx'[t] = Idle /\ \A u \in Txs \ {t} : tx'[u] = tx[u]
      BY <1>2, <2>6, CommitEffect, Ends DEF LockInv, Inv
    <3> QED  BY <1>2, <2>6, <3>1, IdleWants, CommitOrderly DEF LockInv
  <2> QED  BY <1>2, <2>1, <2>2, <2>3, <2>4, <2>5, <2>6 DEF Next, CommitStep
<1>3. LockInv /\ Inv' /\ [Next]_vars => LockInv'
  BY <1>2 DEF LockInv
<1>4. Init /\ Inv => LockInv
  BY <1>1 DEF LockInv
<1> QED  BY <1>3, <1>4, Invariance, PTL DEF Spec

\* Transactions that are no upgrade and wait for each other: what makes one wait for which row.
LEMMA WhoBlocks ==
  ASSUME LockInv, NEW t \in Txs, NEW u \in Txs,
         Active(t), ~ Upgrades(t), Active(u), ~ Upgrades(u), tx[u].wait # {},
         NEW r \in tx[t].wait, Blocks(u, t, r)
  PROVE  /\ r \notin Links
         /\ r \in Media => tx[u].at > 1
         /\ r \in Persons =>
              \/ u \in Clearing /\ primary[r] = tx[u].m
              \/ tx[u].op = "attach" /\ tx[u].at = 3
<1> DEFINE x == tx[t]
           y == tx[u]
<1>1. /\ x.op \in Ops /\ Placed(x) /\ Holds(x) /\ Wants(x) /\ x.at \in 1 .. 5
      /\ y.op \in Ops /\ Placed(y) /\ Holds(y) /\ Wants(y) /\ y.at \in 1 .. 5
      /\ y.wait \subseteq Rows
  BY DEF LockInv, Inv, TypeOK, Tx, Active
<1>2. x.running /\ x.at <= Len(Script[x.op]) /\ y.running /\ y.at <= Len(Script[y.op])
  BY <1>1 DEF Placed, Ops, Active
<1>3. /\ x.op \in {"attach", "deleteMedia", "removeMedia", "deletePerson", "restorePerson"}
      /\ y.op \in {"attach", "deleteMedia", "removeMedia", "deletePerson", "restorePerson"}
  BY <1>1 DEF Upgrades, Ops
<1>4. /\ x.op = "attach" => x.at \in {1, 2, 3}
      /\ x.op \in {"deleteMedia", "removeMedia"} => x.at \in {1, 2}
      /\ x.op \in {"deletePerson", "restorePerson"} => x.at = 1
      /\ y.op = "attach" => y.at \in {1, 2, 3}
      /\ y.op \in {"deleteMedia", "removeMedia"} => y.at \in {1, 2}
      /\ y.op \in {"deletePerson", "restorePerson"} => y.at = 1
  BY <1>2, Numbered DEF LockInv, Inv
<1>5. u # t /\ (r \in y.own \/ r \in y.share)
  BY DEF Blocks
<1>6. CASE y.op = "attach"
  <2>1. /\ y.own = {} /\ y.share \subseteq {y.m, y.p} /\ (y.at = 1 => y.share = {})
        /\ (y.at <= 2 => y.p \notin y.share) /\ y.m \in Media /\ y.p \in Persons
    BY <1>1, <1>4, <1>6 DEF Wants, WantsAttach, Placed
  <2> QED  BY <1>1, <1>4, <1>5, <1>6, <2>1, RowsDiffer
<1>7. CASE y.op = "deleteMedia"
  <2>1. /\ y.share = {} /\ (y.at = 1 => y.own = {}) /\ y.m \in Media
        /\ \A q \in y.own : q = y.m \/ (q \in Persons /\ primary[q] = y.m)
    BY <1>1, <1>7 DEF Wants, WantsDeleteMedia, Placed, Holds, HoldsDeleteMedia
  <2>2. y.at = 2 /\ u \in Clearing
    BY <1>4, <1>5, <1>7, <2>1 DEF Clearing
  <2> QED  BY <1>5, <2>1, <2>2, RowsDiffer
<1>8. CASE y.op = "removeMedia"
  <2>1. /\ y.share = {} /\ (y.at = 1 => y.own = {}) /\ y.m \in Media
        /\ (y.at > 1 => y.m \in y.own)
        /\ \A q \in y.own : q = y.m \/ (q \in links /\ q[2] = y.m)
    BY <1>1, <1>8 DEF Wants, WantsRemoveMedia, Placed, Holds, HoldsRemoveMedia
  <2>2. y.at = 2 /\ y.m \in y.own
    BY <1>4, <1>5, <1>8, <2>1
  <2>3. links \subseteq Links
    BY DEF LockInv, Inv, TypeOK
  <2>4. r \notin Persons
    BY <1>5, <2>1, <2>3, RowsDiffer
  <2>5. ASSUME r \in Links  PROVE FALSE
    <3>1. r[2] = y.m
      BY <1>5, <2>1, <2>5, RowsDiffer
    <3>2. y.m \notin x.own /\ y.m \notin x.share
      BY <1>5, <2>2 DEF LockInv, Inv, Exclusive
    <3>3. CASE x.op = "attach"
      <4>1. x.m \in Media /\ x.p \in Persons
        BY <1>1, <3>3 DEF Placed
      <4>2. x.at = 3 /\ r = <<x.p, x.m>>
        BY <1>1, <1>4, <2>5, <3>3, <4>1, RowsDiffer DEF Wants, WantsAttach
      <4>3. x.m \in x.share
        BY <1>1, <3>3, <4>2 DEF Holds, HoldsAttach
      <4> QED  BY <3>1, <3>2, <4>2, <4>3
    <3>4. CASE x.op = "removeMedia"
      <4>1. x.m \in Media
        BY <1>1, <3>4 DEF Placed
      <4>2. x.at = 2 /\ r[2] = x.m
        BY <1>1, <1>4, <2>5, <3>4, <4>1, RowsDiffer DEF Wants, WantsRemoveMedia
      <4>3. x.m \in x.own
        BY <1>1, <3>4, <4>2 DEF Holds, HoldsRemoveMedia
      <4> QED  BY <3>1, <3>2, <4>2, <4>3
    <3>5. CASE x.op = "deleteMedia"
      <4>1. x.m \in Media
        BY <1>1, <3>5 DEF Placed
      <4> QED  BY <1>1, <1>4, <2>5, <3>5, <4>1, RowsDiffer DEF Wants, WantsDeleteMedia
    <3>6. CASE x.op \in {"deletePerson", "restorePerson"}
      <4>1. x.p \in Persons
        BY <1>1, <3>6 DEF Placed
      <4> QED  BY <1>1, <1>4, <2>5, <3>6, <4>1, RowsDiffer DEF Wants, WantsPerson
    <3> QED  BY <1>3, <3>3, <3>4, <3>5, <3>6
  <2> QED  BY <2>2, <2>4, <2>5
<1>9. CASE y.op \in {"deletePerson", "restorePerson"}
  BY <1>1, <1>4, <1>5, <1>9 DEF Wants, WantsPerson
<1> QED  BY <1>3, <1>6, <1>7, <1>8, <1>9

\* Whatever other transactions do: no circle of waiting transactions is without an upgrade.  In
\* such a circle nobody would wait for an attachment; then who waits for a person would wait for a
\* deletion that clears persons, and these chase each other in no circle; then who waits for a file
\* would wait for one that holds nothing.
THEOREM DeadlocksNeedUpgradeHolds == Spec => []DeadlocksNeedUpgrade
<1>1. LockInv => DeadlocksNeedUpgrade
  <2> SUFFICES ASSUME LockInv, NEW C \in SUBSET {t \in Txs : ~ Upgrades(t)}, C # {},
                      \A t \in C : \E u \in C : WaitsFor(t, u)
               PROVE  FALSE
    BY DEF DeadlocksNeedUpgrade
  <2>1. \A t \in C : t \in Txs /\ ~ Upgrades(t) /\ Active(t) /\ tx[t].wait # {}
    BY DEF WaitsFor
  <2>2. ASSUME NEW t \in C
        PROVE  \E u \in C, r \in tx[t].wait :
                 /\ Blocks(u, t, r) /\ u # t /\ r \in Persons \cup Media
                 /\ r \in Media => tx[u].at > 1
                 /\ r \in Persons =>
                      \/ u \in Clearing /\ primary[r] = tx[u].m
                      \/ tx[u].op = "attach" /\ tx[u].at = 3
    <3>1. PICK u \in C, r \in tx[t].wait : Blocks(u, t, r)
      BY <2>2 DEF WaitsFor
    <3>2. r \in Rows
      BY <2>1 DEF LockInv, Inv, TypeOK, Tx
    <3> QED  BY <2>1, <3>1, <3>2, WhoBlocks DEF Rows, Blocks
  <2>3. \A t \in C : Wants(tx[t]) /\ Placed(tx[t]) /\ tx[t].at \in 1 .. 5 /\ tx[t].op \in Ops
    BY <2>1 DEF LockInv, Inv, TypeOK, Tx, Active
  <2>4. \A t \in C : ~ (tx[t].op = "attach" /\ tx[t].at = 3)
    <3> SUFFICES ASSUME NEW t \in C, tx[t].op = "attach", tx[t].at = 3  PROVE FALSE
      OBVIOUS
    <3>1. tx[t].wait \subseteq Links
      BY <2>3 DEF Wants, WantsAttach, Placed, Links
    <3> QED  BY <2>2, <3>1, RowsDiffer
  <2> DEFINE K == C \cap Clearing
  <2>5. ASSUME NEW t \in C, tx[t].wait \subseteq Persons
        PROVE  \E u \in K \ {t} : Chases(t, u)
    BY <2>2, <2>4, <2>5, RowsDiffer DEF Chases
  <2>6. \A t \in K : tx[t].wait \subseteq Persons
    BY <2>3 DEF Clearing, Wants, WantsDeleteMedia
  <2>7. K = {}
    BY <2>5, <2>6 DEF LockInv, Orderly
  <2>8. ASSUME NEW t \in C  PROVE tx[t].at = 1
    <3>1. /\ tx[t].op = "attach" => tx[t].at \in {1, 2, 3}
          /\ tx[t].op \in {"deleteMedia", "removeMedia"} => tx[t].at \in {1, 2}
          /\ tx[t].op \in {"deletePerson", "restorePerson"} => tx[t].at = 1
      <4>1. tx[t].running /\ tx[t].at <= Len(Script[tx[t].op])
        BY <2>1, <2>3 DEF Placed, Ops
      <4> QED  BY <2>1, <4>1, Numbered DEF LockInv, Inv
    <3>2. ~ (tx[t].wait \subseteq Persons)
      BY <2>5, <2>7
    <3>3. CASE tx[t].op = "attach"
      <4>1. tx[t].at = 2 => tx[t].wait \subseteq Persons
        BY <2>3, <3>3 DEF Wants, WantsAttach, Placed
      <4> QED  BY <2>4, <3>1, <3>2, <3>3, <4>1
    <3>4. CASE tx[t].op = "deleteMedia"
      BY <2>1, <2>7, <3>1, <3>4 DEF Clearing
    <3>5. CASE tx[t].op = "removeMedia"
      <4>1. tx[t].at = 2 => tx[t].wait \subseteq Links
        BY <2>3, <3>5 DEF Wants, WantsRemoveMedia
      <4> QED  BY <2>2, <3>1, <3>5, <4>1, RowsDiffer
    <3> QED  BY <2>1, <2>3, <3>1, <3>3, <3>4, <3>5 DEF Upgrades, Ops
  <2> QED  BY <2>2, <2>4, <2>7, <2>8
<1> QED  BY <1>1, LockInvariance, PTL

-----------------------------------------------------------------------------
(* The composition *)

\* A behaviour of the composition that TLC checks is one of the transactions on files and one of the
\* persons and their relations, so what is proved of each holds in the run.
THEOREM LinksAreInstances == LinksSpec => Spec /\ G!Spec
<1>1. LinksInit => Init /\ G!Init
  BY DEF LinksInit
<1>2. [LinksNext]_<<followed, vars, graphVars>> => [Next]_vars /\ [G!Next]_G!vars
  BY DEF LinksNext, graphVars, vars, G!vars
<1> QED  BY <1>1, <1>2, PTL DEF LinksSpec, Spec, G!Spec
===============================================================================
