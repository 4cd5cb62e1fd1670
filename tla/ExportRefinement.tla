-------------------------- MODULE ExportRefinement --------------------------
(***************************************************************************)
(* ExportPipeline, with its stalled attempts and its cleaners, implements  *)
(* ExportContract.  An export counts as available while it is completed    *)
(* and the object under its key exists: a completed export whose object is *)
(* gone is at no stage of the contract.                                    *)
(***************************************************************************)
EXTENDS ExportPipeline

Stage ==
  CASE export.status = "absent" -> "absent"
    [] export.status \in Unsettled -> "pending"
    [] export.status = "completed" -> IF export.key \in objects THEN "available" ELSE "broken"
    [] export.status = "failed" -> "failed"
    [] export.status = "expired" -> "withdrawn"

Result == IF Stage = "available" THEN export.key ELSE None

Contract == INSTANCE ExportContract WITH stage <- Stage, result <- Result

\* The export behaves as ExportContract.
ImplementsContract == Contract!Spec
=============================================================================
