--------------------------- MODULE MediaRefinement ---------------------------
(***************************************************************************)
(* MediaPipeline implements MediaContract.  A file counts as shown while   *)
(* it is ready and all its objects exist.                                  *)
(***************************************************************************)
EXTENDS MediaPipeline

Stage ==
  CASE media.status = "absent" -> "absent"
    [] media.status = "pending" -> "awaited"
    [] media.status \in {"uploaded", "processing"} -> "accepted"
    [] media.status = "ready" ->
         IF {"original"} \cup Derived \subseteq objects THEN "shown" ELSE "broken"
    [] media.status = "rejected" -> "refused"
    [] media.status = "deleted" -> "deleted"
    [] media.status = "gone" -> "removed"

Contract == INSTANCE MediaContract WITH stage <- Stage

\* The file behaves as MediaContract: overlapping attempts judge it once, and no
\* verdict is reversed.
ImplementsMediaContract == Contract!Spec
=============================================================================
