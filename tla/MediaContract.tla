---------------------------- MODULE MediaContract ----------------------------
(***************************************************************************)
(* What an uploaded file is to its owner, with no attempts, no cleaners    *)
(* and no bucket: it is accepted once, judged once, and shown only after a *)
(* favourable verdict; a verdict is never reversed, and what was removed   *)
(* does not come back.                                                     *)
(***************************************************************************)
VARIABLE stage

Stage == {"absent", "awaited", "accepted", "shown", "refused", "deleted", "removed"}

Init == stage = "absent"

Ask == stage = "absent" /\ stage' = "awaited"

Accept == stage = "awaited" /\ stage' = "accepted"

Judge == stage = "accepted" /\ stage' \in {"shown", "refused"}

\* By the owner at any time, or because the upload was never completed.
Delete == stage \in {"awaited", "accepted", "shown", "refused"} /\ stage' = "deleted"

Remove == stage \in {"refused", "deleted"} /\ stage' = "removed"

Next == Ask \/ Accept \/ Judge \/ Delete \/ Remove

Spec == Init /\ [][Next]_stage
=============================================================================
