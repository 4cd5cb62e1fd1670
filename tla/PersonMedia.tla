----------------------------- MODULE PersonMedia -----------------------------
(***************************************************************************)
(* What the persons of one tree and its processed files promise each       *)
(* other, with every operation as one indivisible step: no transactions,   *)
(* no locks.                                                               *)
(***************************************************************************)
CONSTANTS Persons, Media, None

VARIABLES status, live, primary, links

Init ==
  /\ status = [m \in Media |-> "ready"]
  /\ live = Persons
  /\ primary = [p \in Persons |-> None]
  /\ links = {}

Attach(p, m) ==
  /\ status[m] = "ready" /\ p \in live /\ <<p, m>> \notin links
  /\ links' = links \cup {<<p, m>>}
  /\ UNCHANGED <<status, live, primary>>

Detach(p, m) ==
  /\ p \in live /\ <<p, m>> \in links
  /\ links' = links \ {<<p, m>>}
  /\ primary' = IF primary[p] = m THEN [primary EXCEPT ![p] = None] ELSE primary
  /\ UNCHANGED <<status, live>>

SetPrimary(p, m) ==
  /\ status[m] = "ready" /\ p \in live /\ <<p, m>> \in links
  /\ primary' = [primary EXCEPT ![p] = m]
  /\ UNCHANGED <<status, live, links>>

\* A deleted file is no one's primary file; it stays attached until it is removed.
DeleteMedia(m) ==
  /\ status[m] = "ready"
  /\ status' = [status EXCEPT ![m] = "deleted"]
  /\ primary' = [p \in Persons |-> IF primary[p] = m THEN None ELSE primary[p]]
  /\ UNCHANGED <<live, links>>

RemoveMedia(m) ==
  /\ status[m] = "deleted" /\ \A p \in Persons : primary[p] # m
  /\ status' = [status EXCEPT ![m] = "gone"]
  /\ links' = {l \in links : l[2] # m}
  /\ UNCHANGED <<live, primary>>

DeletePerson(p) ==
  /\ p \in live
  /\ live' = live \ {p}
  /\ UNCHANGED <<status, primary, links>>

RestorePerson(p) ==
  /\ p \in Persons \ live
  /\ live' = live \cup {p}
  /\ UNCHANGED <<status, primary, links>>

Next ==
  \/ \E p \in Persons, m \in Media : Attach(p, m) \/ Detach(p, m) \/ SetPrimary(p, m)
  \/ \E m \in Media : DeleteMedia(m) \/ RemoveMedia(m)
  \/ \E p \in Persons : DeletePerson(p) \/ RestorePerson(p)

Spec == Init /\ [][Next]_<<status, live, primary, links>>
==============================================================================
