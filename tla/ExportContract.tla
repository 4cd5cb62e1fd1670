--------------------------- MODULE ExportContract ---------------------------
(***************************************************************************)
(* What an export is to the client who asked for it, with no job, no       *)
(* attempts and no cleaners: it is produced once, from one version of the  *)
(* tree; what was published stays what it is and can be fetched until it   *)
(* is withdrawn; a failed or withdrawn export stays so.                    *)
(***************************************************************************)
CONSTANTS Contents, None

VARIABLES stage, result

Stage == {"absent", "pending", "available", "failed", "withdrawn"}

Init == stage = "absent" /\ result = None

Request == stage = "absent" /\ stage' = "pending" /\ result' = None

Publish ==
  /\ stage = "pending"
  /\ stage' = "available" /\ result' \in Contents

Fail == stage = "pending" /\ stage' = "failed" /\ result' = None

Withdraw ==
  /\ stage \in {"pending", "available", "failed"}
  /\ stage' = "withdrawn" /\ result' = None

Next == Request \/ Publish \/ Fail \/ Withdraw

Spec == Init /\ [][Next]_<<stage, result>>
=============================================================================
