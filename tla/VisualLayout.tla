---------------------------- MODULE VisualLayout ----------------------------
(***************************************************************************)
(* The generations of a drawn tree (internal/features/exports/visual):     *)
(* every person gets the rank of the longest line of ancestors, and the    *)
(* ranks are raised until partners stand beside each other and children    *)
(* below their parents, or the layout gives up.  The unions and the        *)
(* parents are visited in the order of Go maps, another one each time.     *)
(***************************************************************************)
EXTENDS Integers, FiniteSets, FiniteSetsExt

CONSTANTS Persons,       \* numbers; only the bound on the drawn trees uses their order
          MaxRelations,  \* bound: relations of a tree
          MaxUnions      \* bound: unions of a tree

LayoutAssumption ==
  Persons \subseteq Nat /\ IsFiniteSet(Persons) /\ MaxRelations \in Nat /\ MaxUnions \in Nat

VARIABLES relations,     \* pairs of a parent and a child, both active, each once
          unions,        \* the sets of active members
          indegrees,
          queue,         \* persons all of whose parents are ranked
          ranks,
          pc,            \* "rank", "unions" or "children" while working, then "ok" or "refused"
          unseen,        \* unions or parents still to be visited in this pass
          changed,       \* whether this iteration has raised a rank
          iteration

vars == <<relations, unions, indegrees, queue, ranks, pc, unseen, changed, iteration>>

ChildrenOf(p) == {c \in Persons : <<p, c>> \in relations}
Parents == {p \in Persons : ChildrenOf(p) # {}}

\* Every acyclic graph occurs with its persons numbered downwards.  A cycle is found before the
\* unions are looked at.
Init ==
  /\ relations \in {E \in SUBSET (Persons \X Persons) :
       /\ Cardinality(E) <= MaxRelations
       /\ \A e \in E : e[1] # e[2]
       /\ Cardinality({e \in E : e[1] > e[2]}) <= 1}
  /\ unions \in {U \in SUBSET {M \in SUBSET Persons : Cardinality(M) >= 2} :
       Cardinality(U) <= MaxUnions}
  /\ (\E e \in relations : e[1] > e[2]) => unions = {}
  /\ indegrees = [p \in Persons |-> Cardinality({e \in relations : e[2] = p})]
  /\ queue = {p \in Persons : indegrees[p] = 0}
  /\ ranks = [p \in Persons |-> 0]
  /\ pc = "rank"
  /\ unseen = {} /\ changed = FALSE /\ iteration = 0

----------------------------------------------------------------------------
\* generationRanks, one person of the queue.  It is first in, first out; any order will do.
Rank(p) ==
  /\ pc = "rank" /\ p \in queue
  /\ ranks' = [c \in Persons |->
       IF c \in ChildrenOf(p) /\ ranks[c] < ranks[p] + 1 THEN ranks[p] + 1 ELSE ranks[c]]
  /\ indegrees' = [c \in Persons |-> indegrees[c] - (IF c \in ChildrenOf(p) THEN 1 ELSE 0)]
  /\ queue' = (queue \ {p}) \cup {c \in ChildrenOf(p) : indegrees'[c] = 0}
  /\ UNCHANGED <<relations, unions, pc, unseen, changed, iteration>>

\* Whoever was not reached is on a cycle or below one.
Ranked ==
  /\ pc = "rank" /\ queue = {}
  /\ IF \A p \in Persons : indegrees[p] = 0
     THEN pc' = "unions" /\ unseen' = unions
     ELSE pc' = "refused" /\ UNCHANGED unseen
  /\ UNCHANGED <<relations, unions, indegrees, queue, ranks, changed, iteration>>

\* The ranks as visited, and whether one of them was raised.
Raise(new) ==
  /\ ranks' = new
  /\ changed' = (changed \/ new # ranks)
  /\ UNCHANGED <<relations, unions, indegrees, queue, pc, iteration>>

\* alignUnionRanks: the members of a union move down to the lowest of them.
AlignUnion(M) ==
  /\ pc = "unions" /\ M \in unseen
  /\ unseen' = unseen \ {M}
  /\ Raise([p \in Persons |-> IF p \in M THEN Max({ranks[q] : q \in M}) ELSE ranks[p]])

UnionsAligned ==
  /\ pc = "unions" /\ unseen = {}
  /\ pc' = "children" /\ unseen' = Parents
  /\ UNCHANGED <<relations, unions, indegrees, queue, ranks, changed, iteration>>

\* Children move below their parent.
LowerChildren(p) ==
  /\ pc = "children" /\ p \in unseen
  /\ unseen' = unseen \ {p}
  /\ Raise([c \in Persons |->
       IF c \in ChildrenOf(p) /\ ranks[c] <= ranks[p] THEN ranks[p] + 1 ELSE ranks[c]])

\* A plausible bug, never used here: one iteration for each union is taken to be enough.
LastIterationByUnions == Cardinality(unions) - 1

\* The last value of the loop's counter.
LastIteration == Cardinality(Persons)

\* The end of an iteration: nothing changed, or it was the last, or once more.
ChildrenLowered ==
  /\ pc = "children" /\ unseen = {}
  /\ iteration' = iteration + 1
  /\ changed' = FALSE
  /\ \/ ~ changed /\ pc' = "ok" /\ UNCHANGED unseen
     \/ changed /\ iteration >= LastIteration /\ pc' = "refused" /\ UNCHANGED unseen
     \/ changed /\ iteration < LastIteration /\ pc' = "unions" /\ unseen' = unions
  /\ UNCHANGED <<relations, unions, indegrees, queue, ranks>>

Next ==
  \/ \E p \in Persons : Rank(p) \/ LowerChildren(p)
  \/ \E M \in unseen : AlignUnion(M)
  \/ Ranked \/ UnionsAligned \/ ChildrenLowered

Spec == Init /\ [][Next]_vars

----------------------------------------------------------------------------
(* Properties *)

\* The reference: children stand below their parents and partners beside each other.
Generations(r) ==
  /\ \A e \in relations : r[e[1]] < r[e[2]]
  /\ \A M \in unions, p, q \in Persons : p \in M /\ q \in M => r[p] = r[q]

Drawings ==
  {r \in [Persons -> 0 .. Cardinality(Persons) - 1] : Generations(r)}

\* The layout gives up exactly when no drawing has every child below its parents and partners
\* beside each other, and the one that it finds is the flattest: the order of the maps decides
\* neither, so an export that failed once fails again, and the same tree has the same picture.
FlattestDrawing ==
  /\ pc = "refused" => Drawings = {}
  /\ pc = "ok" => ranks \in Drawings /\ \A r \in Drawings, p \in Persons : ranks[p] <= r[p]
=============================================================================
