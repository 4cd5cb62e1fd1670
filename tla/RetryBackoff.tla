---------------------------- MODULE RetryBackoff ----------------------------
(***************************************************************************)
(* Worker.retryDelay (internal/core/jobs/worker/worker.go): the base delay *)
(* is doubled once per earlier attempt, up to the largest delay, in the    *)
(* two's complement arithmetic of time.Duration.                           *)
(***************************************************************************)
EXTENDS Integers

CONSTANTS MaxDuration,     \* the largest duration: 2^63 - 1 in the code
          MaxAttempt       \* bound: job.Attempts

BackoffAssumption == MaxDuration \in Nat \ {0} /\ MaxAttempt \in Nat \ {0}

VARIABLES base, max, attempt, current, delay, returned

vars == <<base, max, attempt, current, delay, returned>>

Wrap(d) == IF d > MaxDuration THEN d - 2 * (MaxDuration + 1) ELSE d

\* New refuses a base delay that is not positive, and a largest delay below it.
Init ==
  /\ base \in 1 .. MaxDuration /\ max \in base .. MaxDuration
  /\ attempt \in 1 .. MaxAttempt
  /\ current = 1 /\ delay = base /\ returned = FALSE

\* Mutant of Looping: one doubling too many.
LoopingOnceMore == ~returned /\ current <= attempt /\ delay < max

Looping == ~returned /\ current < attempt /\ delay < max

\* The test comes before the product, which so never overflows.
Cap ==
  /\ Looping /\ delay > max \div 2
  /\ delay' = max /\ returned' = TRUE
  /\ UNCHANGED <<base, max, attempt, current>>

Double ==
  /\ Looping /\ ~(delay > max \div 2)
  /\ delay' = Wrap(delay * 2) /\ current' = current + 1
  /\ UNCHANGED <<base, max, attempt, returned>>

Return ==
  /\ ~returned /\ ~(current < attempt /\ delay < max)
  /\ delay' = IF delay > max THEN max ELSE delay
  /\ returned' = TRUE
  /\ UNCHANGED <<base, max, attempt, current>>

Next == Cap \/ Double \/ Return

Spec == Init /\ [][Next]_vars

\* The reference: base * 2^(attempt - 1), capped.
PowerOfTwo[n \in Nat] == IF n = 0 THEN 1 ELSE 2 * PowerOfTwo[n - 1]

CappedDoubling ==
  LET exact == base * PowerOfTwo[attempt - 1] IN IF exact < max THEN exact ELSE max

\* What is returned is the doubling capped at the largest delay, at every width.
DelayIsCappedDoubling == returned => delay = CappedDoubling

\* No intermediate delay leaves the configured range, so no product wraps round and
\* no retry is scheduled in the past.
DelayInRange == delay \in base .. max
=============================================================================
