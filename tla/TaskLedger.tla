----------------------------- MODULE TaskLedger -----------------------------
(***************************************************************************)
(* What the job queue promises a caller of EnqueueWith, with no workers,   *)
(* no leases and no clock: a task is tried at most MaxAttempts times, each *)
(* try is counted before it starts, a task is buried only when every try   *)
(* was spent, and a settled task is left alone.                            *)
(***************************************************************************)
EXTENDS Integers

CONSTANTS Jobs, MaxAttempts

VARIABLE task

Phase == {"unknown", "waiting", "owned", "succeeded", "dead"}

Init == task = [j \in Jobs |-> [phase |-> "unknown", tries |-> 0]]

Submit(t, u) ==
  /\ t.phase = "unknown"
  /\ u = [phase |-> "waiting", tries |-> 0]

\* A try begins: the first, a retry, or one that takes over an abandoned try.
Begin(t, u) ==
  /\ t.phase \in {"waiting", "owned"} /\ t.tries < MaxAttempts
  /\ u = [phase |-> "owned", tries |-> t.tries + 1]

Complete(t, u) ==
  /\ t.phase = "owned"
  /\ u = [phase |-> "succeeded", tries |-> t.tries]

\* A try failed: the task waits for another, or is buried after the last.
GiveUp(t, u) ==
  /\ t.phase = "owned"
  /\ u = [phase |-> IF t.tries < MaxAttempts THEN "waiting" ELSE "dead", tries |-> t.tries]

Step(t, u) == Submit(t, u) \/ Begin(t, u) \/ Complete(t, u) \/ GiveUp(t, u)

\* One claim may bury several tasks and begin another.
Next ==
  /\ DOMAIN task' = Jobs
  /\ \A j \in Jobs : task'[j] = task[j] \/ Step(task[j], task'[j])

Spec == Init /\ [][Next]_task
=============================================================================
