------------------------- MODULE JobQueueRefinement -------------------------
(***************************************************************************)
(* The queue table, seen through its status and attempts columns, is the   *)
(* task ledger: "queued" and "failed" are the same waiting to a caller.    *)
(***************************************************************************)
EXTENDS JobQueue

TaskPhase(status) ==
  CASE status = "absent" -> "unknown"
    [] status \in {"queued", "failed"} -> "waiting"
    [] status = "running" -> "owned"
    [] OTHER -> status

Ledger == INSTANCE TaskLedger
  WITH task <- [j \in Jobs |-> [phase |-> TaskPhase(row[j].status), tries |-> row[j].attempts]]

\* Every step of workers, statements and time is a step of the ledger, or none:
\* no interleaving of late statements reopens, loses or skips a try.
ImplementsLedger == Ledger!Spec
=============================================================================
