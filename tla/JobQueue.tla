------------------------------ MODULE JobQueue ------------------------------
(***************************************************************************)
(* The PostgreSQL job queue (internal/core/jobs/postgres/repository.go)    *)
(* and the worker processes that drain it (internal/core/jobs/worker).     *)
(*                                                                         *)
(* Time is discrete.  A timestamp column is kept as what is left of it:    *)
(* row[j].lease is lease_expires_at - now, row[j].avail is                 *)
(* available_at - now, and Tick ages all of them.  Both are clipped at     *)
(* -Latency, far enough below zero for every comparison the statements     *)
(* make.  A statement carries the clock reading its sender took, as an     *)
(* age: comparing a column with a reading taken age ticks ago is comparing *)
(* what is left of the column with -age.                                   *)
(*                                                                         *)
(* A statement in flight belongs to the worker that waits for it.  When    *)
(* the worker gives up (error, AckTimeout, crash) the statement is either  *)
(* lost or joins "late" and may still reach the database afterwards.       *)
(***************************************************************************)
EXTENDS Integers

CONSTANTS
  Workers,            \* worker IDs (Config.ID)
  Jobs,               \* jobs, by (kind, deduplication_key)
  NoWorker, NoJob,    \* SQL NULL in locked_by; no job claimed
  MaxAttempts,        \* background_jobs.max_attempts
  LeaseDuration, HeartbeatInterval, AckTimeout,      \* Config, in ticks
  Backoff,            \* Backoff[n]: Worker.retryDelay(n)
  Latency,            \* bound: a statement reaches the database by this age or never
  MaxFaults,          \* bound: errors, crashes and shutdowns in a behaviour
  Timely,             \* TRUE: timers fire on time; FALSE: a process may stall
  ReuseIDs            \* TRUE: WORKER_ID is fixed, a restarted process has its old ID

ASSUME ConfigAssumption ==
  /\ MaxAttempts \in Nat \ {0}
  /\ LeaseDuration \in Nat /\ HeartbeatInterval \in Nat \ {0}
  /\ 2 * HeartbeatInterval < LeaseDuration
  /\ AckTimeout \in Nat \ {0}
  /\ Backoff \in [1 .. MaxAttempts -> Nat]

ASSUME BoundAssumption ==
  /\ Latency \in Nat /\ AckTimeout <= Latency
  /\ Latency <= LeaseDuration
  /\ MaxFaults \in Nat
  /\ Timely \in BOOLEAN /\ ReuseIDs \in BOOLEAN

ASSUME NullAssumption == NoWorker \notin Workers /\ NoJob \notin Jobs

VARIABLES
  row,        \* background_jobs
  worker,     \* the worker processes
  late,       \* statements their sender no longer waits for
  faults      \* faults so far

vars == <<row, worker, late, faults>>

Terminal == {"succeeded", "dead"}

Row == [status : {"absent", "queued", "running", "failed"} \cup Terminal,
        attempts : 0 .. MaxAttempts,
        lease : -Latency .. LeaseDuration,
        avail : Int,
        by : Workers \cup {NoWorker}]

Statement == [op : {"claim", "heartbeat", "succeed", "fail"},
              by : Workers,
              job : Jobs \cup {NoJob},
              attempt : 0 .. MaxAttempts,
              age : 0 .. Latency]

\* pc:     "idle" in Run's loop, "claiming" in Claim, "handling" in process,
\*         "acking" in Succeed or Fail, "down" no process
\* beat:   ticks since the heartbeat ticker fired, HeartbeatInterval when due
\* hb:     the heartbeat goroutine: "quiet" between ticks, "sent" awaiting a
\*         reply, "stopped" by ctx.Done, "lost" after an error
\* age:    age of the clock reading in the statement in flight
\* result: what the handler returned
Process == [pc : {"idle", "claiming", "handling", "acking", "down"},
            job : Jobs \cup {NoJob},
            attempt : 0 .. MaxAttempts,
            beat : 0 .. HeartbeatInterval,
            age : 0 .. Latency + 1,
            hb : {"quiet", "sent", "stopped", "lost"},
            result : {"none", "ok", "err", "canceled"},
            stopping : BOOLEAN]

NoRow == [status |-> "absent", attempts |-> 0, lease |-> 0, avail |-> 0, by |-> NoWorker]

Fresh(pc, stopping) ==
  [pc |-> pc, job |-> NoJob, attempt |-> 0, beat |-> 0, age |-> 0,
   hb |-> "quiet", result |-> "none", stopping |-> stopping]

Init ==
  /\ row = [j \in Jobs |-> NoRow]
  /\ worker = [w \in Workers |-> Fresh("idle", FALSE)]
  /\ late = {}
  /\ faults = 0

-----------------------------------------------------------------------------
(* The statements. *)

\* The WHERE clause of Heartbeat, Succeed and Fail.
Held(j, w, age) ==
  /\ row[j].status = "running"
  /\ row[j].by = w
  /\ row[j].lease > -age

\* Mutants of Claimed: the takeover is not counted; it keeps the first locker.
ClaimedUncounted(r, w, age) ==
  [r EXCEPT !.status = "running", !.lease = LeaseDuration - age, !.by = w]

ClaimedKeepsLocker(r, w, age) ==
  [r EXCEPT !.status = "running", !.attempts = @ + 1, !.lease = LeaseDuration - age,
            !.by = IF @ = NoWorker THEN w ELSE @]

Claimed(r, w, age) ==
  [r EXCEPT !.status = "running", !.attempts = @ + 1, !.lease = LeaseDuration - age, !.by = w]

Renewed(r, age) == [r EXCEPT !.lease = LeaseDuration - age]

Released(r, status) == [r EXCEPT !.status = status, !.lease = 0, !.by = NoWorker]

\* Mutant of Failed: the last attempt is retried once more.
FailedOffByOne(r, attempt, age) ==
  IF r.attempts > MaxAttempts
    THEN Released(r, "dead")
    ELSE [Released(r, "failed") EXCEPT !.avail = Backoff[attempt] - age]

Failed(r, attempt, age) ==
  IF r.attempts >= MaxAttempts
    THEN Released(r, "dead")
    ELSE [Released(r, "failed") EXCEPT !.avail = Backoff[attempt] - age]

\* The row after a statement whose WHERE clause matched.
Effect(s) ==
  CASE s.op = "heartbeat" -> Renewed(row[s.job], s.age)
    [] s.op = "succeed"   -> Released(row[s.job], "succeeded")
    [] s.op = "fail"      -> Failed(row[s.job], s.attempt, s.age)

Update(s) ==
  row' = IF Held(s.job, s.by, s.age) THEN [row EXCEPT ![s.job] = Effect(s)] ELSE row

Exhausted(age) ==
  {j \in Jobs : /\ row[j].status = "running"
                /\ row[j].lease <= -age
                /\ row[j].attempts >= MaxAttempts}

\* Mutants of Claimable: a running job needs no expired lease; a succeeded job is a candidate; an
\* abandoned one is not.
ClaimableUnexpired(age) ==
  {j \in Jobs : /\ row[j].attempts < MaxAttempts
                /\ \/ row[j].status \in {"queued", "failed"} /\ row[j].avail <= -age
                   \/ row[j].status = "running"}

ClaimableSettled(age) ==
  {j \in Jobs : /\ row[j].attempts < MaxAttempts
                /\ \/ row[j].status \in {"queued", "failed", "succeeded"} /\ row[j].avail <= -age
                   \/ row[j].status = "running" /\ row[j].lease <= -age}

ClaimableWaiting(age) ==
  {j \in Jobs : row[j].attempts < MaxAttempts /\ row[j].status \in {"queued", "failed"}
                /\ row[j].avail <= -age}

\* The candidate rows.  ORDER BY picks the oldest that no concurrent statement
\* has locked (SKIP LOCKED), so any of them may be the one.
Claimable(age) ==
  {j \in Jobs : /\ row[j].attempts < MaxAttempts
                /\ \/ row[j].status \in {"queued", "failed"} /\ row[j].avail <= -age
                   \/ row[j].status = "running" /\ row[j].lease <= -age}

\* One statement: buries every exhausted job and claims one candidate.
Claim(w, age, got) ==
  /\ IF Claimable(age) = {} THEN got = NoJob ELSE got \in Claimable(age)
  /\ row' = [j \in Jobs |->
               IF j = got THEN Claimed(row[j], w, age)
               ELSE IF j \in Exhausted(age) THEN Released(row[j], "dead")
               ELSE row[j]]

-----------------------------------------------------------------------------
(* The worker. *)

Outstanding(w) ==
  [op |-> CASE worker[w].pc = "claiming" -> "claim"
            [] worker[w].pc = "handling" -> "heartbeat"
            [] worker[w].pc = "acking" -> IF worker[w].result = "ok" THEN "succeed" ELSE "fail",
   by |-> w, job |-> worker[w].job, attempt |-> worker[w].attempt, age |-> worker[w].age]

InFlight(w) ==
  \/ worker[w].pc \in {"claiming", "acking"}
  \/ worker[w].pc = "handling" /\ worker[w].hb = "sent"

\* The sender stops waiting: its statement is lost or still on its way.
Abandon(w) ==
  \/ late' = late
  \/ InFlight(w) /\ worker[w].age <= Latency /\ late' = late \cup {Outstanding(w)}

Fault == faults < MaxFaults /\ faults' = faults + 1

\* Why a call returns an error: a fault, or its context ended.
CallFails(w) ==
  \/ Fault
  \/ /\ worker[w].age > AckTimeout \/ (worker[w].pc = "claiming" /\ worker[w].stopping)
     /\ faults' = faults

Idle(w) == Fresh("idle", worker[w].stopping)

\* EnqueueWith: a job that exists is returned, not inserted again.
Enqueue(j) ==
  /\ row[j].status = "absent"
  /\ row' = [row EXCEPT ![j].status = "queued"]
  /\ UNCHANGED <<worker, late, faults>>

Poll(w) ==
  /\ worker[w].pc = "idle" /\ ~worker[w].stopping
  /\ worker' = [worker EXCEPT ![w] = [Idle(w) EXCEPT !.pc = "claiming"]]
  /\ UNCHANGED <<row, late, faults>>

ClaimLands(w) ==
  /\ worker[w].pc = "claiming" /\ worker[w].age <= Latency
  /\ \E got \in Jobs \cup {NoJob} :
       /\ Claim(w, worker[w].age, got)
       /\ worker' = [worker EXCEPT ![w] =
            IF got = NoJob THEN Idle(w)
            ELSE [Idle(w) EXCEPT !.pc = "handling", !.job = got,
                                 !.attempt = row[got].attempts + 1]]
  /\ UNCHANGED <<late, faults>>

ClaimErrors(w) ==
  /\ worker[w].pc = "claiming"
  /\ CallFails(w) /\ Abandon(w)
  /\ worker' = [worker EXCEPT ![w] = Idle(w)]
  /\ UNCHANGED row

SendHeartbeat(w) ==
  /\ worker[w].pc = "handling" /\ worker[w].hb = "quiet"
  /\ worker[w].beat = HeartbeatInterval
  /\ worker' = [worker EXCEPT ![w].hb = "sent", ![w].beat = 0, ![w].age = 0]
  /\ UNCHANGED <<row, late, faults>>

HeartbeatLands(w) ==
  /\ worker[w].pc = "handling" /\ worker[w].hb = "sent" /\ worker[w].age <= Latency
  /\ Update(Outstanding(w))
  /\ worker' = [worker EXCEPT ![w].hb =
       IF Held(worker[w].job, w, worker[w].age) THEN "quiet" ELSE "lost"]
  /\ UNCHANGED <<late, faults>>

HeartbeatErrors(w) ==
  /\ worker[w].pc = "handling" /\ worker[w].hb = "sent"
  /\ CallFails(w) /\ Abandon(w)
  /\ worker' = [worker EXCEPT ![w].hb = "lost"]
  /\ UNCHANGED row

HeartbeatStops(w) ==
  /\ worker[w].pc = "handling" /\ worker[w].hb = "quiet" /\ worker[w].stopping
  /\ worker' = [worker EXCEPT ![w].hb = "stopped"]
  /\ UNCHANGED <<row, late, faults>>

\* The handler's context is cancelled by a lost heartbeat or by shutdown.
Cancelled(w) == worker[w].hb = "lost" \/ worker[w].stopping

HandlerReturns(w) ==
  /\ worker[w].pc = "handling" /\ worker[w].result = "none"
  /\ \E result \in {"ok", "err"} \cup (IF Cancelled(w) THEN {"canceled"} ELSE {}) :
       worker' = [worker EXCEPT ![w].result = result]
  /\ UNCHANGED <<row, late, faults>>

\* process after callHandler: waits for the heartbeat goroutine, then drops
\* the job without an answer or reads the clock for Succeed or Fail.
Finish(w) ==
  /\ worker[w].pc = "handling" /\ worker[w].result # "none" /\ worker[w].hb # "sent"
  /\ worker' = [worker EXCEPT ![w] =
       IF worker[w].hb = "lost" \/ (worker[w].stopping /\ worker[w].result = "canceled")
         THEN Idle(w)
         ELSE [@ EXCEPT !.pc = "acking", !.beat = 0, !.age = 0, !.hb = "quiet"]]
  /\ UNCHANGED <<row, late, faults>>

AckLands(w) ==
  /\ worker[w].pc = "acking" /\ worker[w].age <= Latency
  /\ Update(Outstanding(w))
  /\ worker' = [worker EXCEPT ![w] = Idle(w)]
  /\ UNCHANGED <<late, faults>>

AckErrors(w) ==
  /\ worker[w].pc = "acking"
  /\ CallFails(w) /\ Abandon(w)
  /\ worker' = [worker EXCEPT ![w] = Idle(w)]
  /\ UNCHANGED row

\* A statement nobody waits for reaches the database.
LateLands(s) ==
  /\ IF s.op = "claim" THEN \E got \in Jobs \cup {NoJob} : Claim(s.by, s.age, got)
                       ELSE Update(s)
  /\ late' = late \ {s}
  /\ UNCHANGED <<worker, faults>>

-----------------------------------------------------------------------------
(* Processes come and go. *)

Shutdown(w) ==
  /\ worker[w].pc # "down" /\ ~worker[w].stopping
  /\ Fault
  /\ worker' = [worker EXCEPT ![w].stopping = TRUE]
  /\ UNCHANGED <<row, late>>

Exit(w) ==
  /\ worker[w].pc = "idle" /\ worker[w].stopping
  /\ worker' = [worker EXCEPT ![w] = Fresh("down", FALSE)]
  /\ UNCHANGED <<row, late, faults>>

Crash(w) ==
  /\ worker[w].pc # "down"
  /\ Fault /\ Abandon(w)
  /\ worker' = [worker EXCEPT ![w] = Fresh("down", FALSE)]
  /\ UNCHANGED row

Restart(w) ==
  /\ worker[w].pc = "down" /\ ReuseIDs
  /\ worker' = [worker EXCEPT ![w] = Fresh("idle", FALSE)]
  /\ UNCHANGED <<row, late, faults>>

-----------------------------------------------------------------------------
(* Time. *)

\* A timer of w has run out: the ticker, an AckTimeout, or (the bound on
\* Claim, which has no timeout of its own) Latency.
Due(w) ==
  \/ /\ worker[w].pc = "handling" /\ worker[w].hb = "quiet"
     /\ worker[w].beat = HeartbeatInterval
  \/ /\ worker[w].pc = "acking" \/ (worker[w].pc = "handling" /\ worker[w].hb = "sent")
     /\ worker[w].age >= AckTimeout
  \/ worker[w].pc = "claiming" /\ worker[w].age >= Latency

Down(n) == IF n > -Latency THEN n - 1 ELSE n

Tick ==
  /\ Timely => \A w \in Workers : ~Due(w)
  /\ row' = [j \in Jobs |->
       [row[j] EXCEPT !.lease = IF row[j].status = "running" THEN Down(@) ELSE @,
                      !.avail = IF row[j].status \in {"queued", "failed"} THEN Down(@) ELSE @]]
  /\ worker' = [w \in Workers |->
       [worker[w] EXCEPT
         !.beat = IF worker[w].pc = "handling" /\ @ < HeartbeatInterval THEN @ + 1 ELSE @,
         !.age = IF InFlight(w) /\ @ <= Latency THEN @ + 1 ELSE @]]
  /\ late' = {[s EXCEPT !.age = @ + 1] : s \in {t \in late : t.age < Latency}}
  /\ UNCHANGED faults

WorkerStep(w) ==
  \/ Poll(w) \/ ClaimLands(w) \/ ClaimErrors(w)
  \/ SendHeartbeat(w) \/ HeartbeatLands(w) \/ HeartbeatErrors(w) \/ HeartbeatStops(w)
  \/ HandlerReturns(w) \/ Finish(w) \/ AckLands(w) \/ AckErrors(w)
  \/ Shutdown(w) \/ Exit(w) \/ Crash(w) \/ Restart(w)

Next ==
  \/ \E j \in Jobs : Enqueue(j)
  \/ \E w \in Workers : WorkerStep(w)
  \/ \E s \in late : LateLands(s)
  \/ Tick

Spec == Init /\ [][Next]_vars

\* Run's loop, process and the heartbeat goroutine always take their next step; a
\* handler returns; a statement in flight is answered; a supervisor restarts a
\* process (when ReuseIDs lets the same ID come back).
Fairness ==
  /\ WF_vars(Tick)
  /\ \A w \in Workers :
       /\ WF_vars(Poll(w)) /\ WF_vars(ClaimLands(w))
       /\ WF_vars(SendHeartbeat(w)) /\ WF_vars(HeartbeatLands(w)) /\ WF_vars(HeartbeatStops(w))
       /\ WF_vars(HandlerReturns(w)) /\ SF_vars(Finish(w)) /\ WF_vars(AckLands(w))
       /\ WF_vars(Exit(w)) /\ WF_vars(Restart(w))

FairSpec == Spec /\ Fairness

-----------------------------------------------------------------------------
(* Properties. *)

\* The worker is executing a claimed job or reporting its result.
Busy(w) == worker[w].pc \in {"handling", "acking"}

\* The attempt w executes is the one the row records as current.
Current(w) == row[worker[w].job].attempts = worker[w].attempt

\* The handler runs and nobody told it to stop.
Live(w) == worker[w].pc = "handling" /\ worker[w].result = "none" /\ ~Cancelled(w)

\* Every value the queue table, the processes and the statements in flight hold
\* is one the code can produce: attempts never pass max_attempts, a lease is
\* never longer than LeaseDuration.
TypeOK ==
  /\ row \in [Jobs -> Row]
  /\ worker \in [Workers -> Process]
  /\ late \subseteq Statement
  /\ faults \in 0 .. MaxFaults

\* No row is stranded between retry and burial: a job that waits has an attempt
\* left (Claim would skip it forever otherwise), a dead one has none, and a row
\* names a locker exactly while it runs.
NoLimbo ==
  \A j \in Jobs :
    /\ row[j].status \in {"absent", "queued"} => row[j].attempts = 0
    /\ row[j].status = "failed" => row[j].attempts < MaxAttempts
    /\ row[j].status = "dead" => row[j].attempts = MaxAttempts
    /\ row[j].status \in {"running", "succeeded"} => row[j].attempts > 0
    /\ row[j].status = "running" <=> row[j].by # NoWorker

\* However leases expire, statements are delayed and processes stall, two
\* workers never execute the same attempt of a job, and a worker never holds an
\* attempt the row has not counted: each execution costs one of max_attempts.
AttemptsDistinct ==
  /\ \A w \in Workers : Busy(w) => /\ worker[w].job \in Jobs
                                   /\ worker[w].attempt \in 1 .. row[worker[w].job].attempts
  /\ \A v, w \in Workers :
       v # w /\ Busy(v) /\ Busy(w) /\ worker[v].job = worker[w].job
         => worker[v].attempt # worker[w].attempt

\* When the current attempt of a running job is being executed, it is the
\* locked_by worker that executes it: whoever was superseded holds an older one.
CurrentAttemptIsLockers ==
  \A w \in Workers :
    Busy(w) /\ Current(w) /\ row[worker[w].job].status = "running"
      => row[worker[w].job].by = w

\* While timers fire on time, IDs are not reused and 2 * Latency + HeartbeatInterval
\* < LeaseDuration, a handler whose context is not cancelled owns its job: the row
\* is running, locked by its worker at its attempt, and the lease has time left.
\* So no two live handlers ever share a job.
LiveHandlerOwnsJob ==
  \A w \in Workers : Live(w) =>
    LET r == row[worker[w].job] IN
      r.status = "running" /\ r.by = w /\ Current(w) /\ r.lease > 0

\* Under the same conditions Succeed or Fail changes the row only when it reports the
\* row's current attempt, also when it lands after its sender gave up, although the
\* WHERE clause compares only locked_by.
AcksSettleOwnAttempt ==
  [][/\ \A w \in Workers : AckLands(w) /\ row' # row => Current(w)
     /\ \A s \in late : LateLands(s) /\ s.op \in {"succeed", "fail"} /\ row' # row
          => s.attempt = row[s.job].attempts]_vars

\* Every enqueued job ends up succeeded or dead, through crashes, lost
\* heartbeats and lost answers.
EveryJobSettles ==
  \A j \in Jobs : row[j].status = "queued" ~> row[j].status \in Terminal
=============================================================================
