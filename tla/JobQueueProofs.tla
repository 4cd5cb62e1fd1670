--------------------------- MODULE JobQueueProofs ---------------------------
(***************************************************************************)
(* What holds of the job queue for any number of workers and jobs, any     *)
(* configuration and any delay: no assumption on timeliness, ReuseIDs or   *)
(* the number of faults is used.  The last part adds what holds when       *)
(* timers fire on time: a worker may rely on its lease.                    *)
(***************************************************************************)
EXTENDS JobQueueRefinement, TLAPS

\* An answer on its way reports an attempt that was really made.
AnswersMeant ==
  \A s \in late : s.op # "claim" => s.job \in Jobs /\ s.attempt \in 1 .. MaxAttempts

Inv == TypeOK /\ NoLimbo /\ AttemptsDistinct /\ CurrentAttemptIsLockers /\ AnswersMeant

\* No new attempt of j began, and whoever runs it now ran it before.
RowKept(j) ==
  /\ row'[j].attempts = row[j].attempts
  /\ row'[j].status = "running" => row[j].status = "running" /\ row'[j].by = row[j].by

NewAttempt(j) == row'[j].attempts = row[j].attempts + 1

\* How a row may change, seen through its status and attempts columns.
RowStep(r, q) ==
  \/ q.status = r.status /\ q.attempts = r.attempts
  \/ r.status = "absent" /\ q.status = "queued" /\ r.attempts = 0 /\ q.attempts = 0
  \/ /\ r.status \in {"queued", "failed", "running"} /\ r.attempts < MaxAttempts
     /\ q.status = "running" /\ q.attempts = r.attempts + 1
  \/ /\ r.status = "running" /\ q.attempts = r.attempts
     /\ \/ q.status = "succeeded"
        \/ q.status = "failed" /\ r.attempts < MaxAttempts
        \/ q.status = "dead" /\ r.attempts = MaxAttempts

\* No worker took a job: the busy ones were busy with the same attempt.
NobodyStarts ==
  \A w \in Workers : Busy(w)' => /\ Busy(w)
                                 /\ worker'[w].job = worker[w].job
                                 /\ worker'[w].attempt = worker[w].attempt

-----------------------------------------------------------------------------
(* What a statement does to one row. *)

LEMMA ReleasedRow ==
  ASSUME NEW r \in Row, NEW status \in {"failed", "succeeded", "dead"}
  PROVE  /\ Released(r, status) \in Row
         /\ Released(r, status).status = status
         /\ Released(r, status).attempts = r.attempts
         /\ Released(r, status).by = NoWorker
<1>1. 0 \in -Latency .. LeaseDuration
  BY BoundAssumption, ConfigAssumption
<1>2. status \in {"absent", "queued", "running", "failed"} \cup Terminal
  BY DEF Terminal
<1> QED  BY <1>1, <1>2 DEF Released, Row

LEMMA RenewedRow ==
  ASSUME NEW r \in Row, NEW age \in 0 .. Latency
  PROVE  /\ Renewed(r, age) \in Row
         /\ Renewed(r, age).status = r.status
         /\ Renewed(r, age).attempts = r.attempts
         /\ Renewed(r, age).by = r.by
<1>1. LeaseDuration - age \in -Latency .. LeaseDuration
  BY BoundAssumption, ConfigAssumption
<1> QED  BY <1>1 DEF Renewed, Row

LEMMA ClaimedRow ==
  ASSUME NEW r \in Row, r.attempts < MaxAttempts, NEW w \in Workers, NEW age \in 0 .. Latency
  PROVE  /\ Claimed(r, w, age) \in Row
         /\ Claimed(r, w, age).status = "running"
         /\ Claimed(r, w, age).attempts = r.attempts + 1
         /\ Claimed(r, w, age).by = w
<1>1. LeaseDuration - age \in -Latency .. LeaseDuration /\ r.attempts + 1 \in 0 .. MaxAttempts
  BY BoundAssumption, ConfigAssumption DEF Row
<1> QED  BY <1>1 DEF Claimed, Row

LEMMA FailedRow ==
  ASSUME NEW r \in Row, NEW age \in 0 .. Latency, NEW attempt \in 1 .. MaxAttempts
  PROVE  /\ Failed(r, attempt, age) \in Row
         /\ Failed(r, attempt, age).attempts = r.attempts
         /\ Failed(r, attempt, age).by = NoWorker
         /\ IF r.attempts < MaxAttempts
              THEN Failed(r, attempt, age).status = "failed"
              ELSE Failed(r, attempt, age).status = "dead" /\ r.attempts = MaxAttempts
<1>1. r.attempts \in 0 .. MaxAttempts /\ MaxAttempts \in Nat /\ Backoff[attempt] - age \in Int
  BY BoundAssumption, ConfigAssumption DEF Row
<1>2. CASE r.attempts >= MaxAttempts
  BY <1>1, <1>2, ReleasedRow DEF Failed
<1>3. CASE r.attempts < MaxAttempts
  <2>1. Failed(r, attempt, age) =
          [Released(r, "failed") EXCEPT !.avail = Backoff[attempt] - age]
    BY <1>1, <1>3 DEF Failed
  <2>2. /\ Released(r, "failed") \in Row /\ Released(r, "failed").status = "failed"
        /\ Released(r, "failed").attempts = r.attempts /\ Released(r, "failed").by = NoWorker
    BY ReleasedRow
  <2> QED  BY <1>1, <1>3, <2>1, <2>2 DEF Row
<1> QED  BY <1>1, <1>2, <1>3

-----------------------------------------------------------------------------
(* What a statement does to the table. *)

\* Heartbeat, Succeed and Fail keep the table well-formed and begin no attempt.
LEMMA UpdateKeepsRows ==
  ASSUME TypeOK, NoLimbo, NEW s \in Statement, Update(s),
         s.op # "claim", s.job \in Jobs, s.attempt \in 1 .. MaxAttempts
  PROVE  /\ row' \in [Jobs -> Row]
         /\ NoLimbo'
         /\ \A j \in Jobs : RowKept(j) /\ RowStep(row[j], row'[j])
<1> DEFINE r == row[s.job]
<1>1. r \in Row
  BY DEF TypeOK
<1>2. CASE ~Held(s.job, s.by, s.age)
  BY <1>2 DEF Update, TypeOK, RowKept, RowStep, NoLimbo
<1>3. CASE Held(s.job, s.by, s.age)
  <2>1. /\ s.age \in 0 .. Latency /\ Backoff[s.attempt] \in Nat
        /\ r.status = "running" /\ r.attempts \in 1 .. MaxAttempts
        /\ r.by \in Workers /\ r.by # NoWorker
    BY <1>1, <1>3, ConfigAssumption, NullAssumption DEF Held, NoLimbo, Row, Statement
  <2>2. /\ Effect(s) \in Row
        /\ Effect(s).attempts = r.attempts
        /\ \/ Effect(s).status = "running" /\ Effect(s).by = r.by
           \/ Effect(s).status = "succeeded" /\ Effect(s).by = NoWorker
           \/ /\ Effect(s).status = "dead" /\ Effect(s).by = NoWorker
              /\ r.attempts = MaxAttempts
           \/ /\ Effect(s).status = "failed" /\ Effect(s).by = NoWorker
              /\ r.attempts < MaxAttempts
    <3>1. CASE s.op = "heartbeat"
      BY <1>1, <2>1, <3>1, RenewedRow DEF Effect
    <3>2. CASE s.op = "succeed"
      BY <1>1, <3>2, ReleasedRow DEF Effect
    <3>3. CASE s.op = "fail"
      <4>1. Effect(s) = Failed(r, s.attempt, s.age)
        BY <3>3 DEF Effect
      <4> QED  BY <1>1, <2>1, <4>1, FailedRow
    <3> QED  BY <3>1, <3>2, <3>3 DEF Statement
  <2>3. row' = [row EXCEPT ![s.job] = Effect(s)]
    BY <1>3 DEF Update
  <2>4. row' \in [Jobs -> Row]
    BY <2>2, <2>3 DEF TypeOK
  <2>5. \A j \in Jobs : RowKept(j) /\ RowStep(row[j], row'[j])
    <3>1. RowKept(s.job) /\ RowStep(r, row'[s.job])
      BY <2>1, <2>2, <2>3 DEF TypeOK, RowKept, RowStep
    <3>2. \A j \in Jobs \ {s.job} : row'[j] = row[j]
      BY <2>3 DEF TypeOK
    <3> QED  BY <3>1, <3>2 DEF RowKept, RowStep
  <2>6. NoLimbo'
    BY <2>1, <2>2, <2>3 DEF TypeOK, NoLimbo
  <2> QED  BY <2>4, <2>5, <2>6
<1> QED  BY <1>2, <1>3

\* Claim keeps the table well-formed, counts the attempt of the row it returns
\* and begins no other.
LEMMA ClaimKeepsRows ==
  ASSUME TypeOK, NoLimbo, NEW w \in Workers, NEW age \in 0 .. Latency,
         NEW got \in Jobs \cup {NoJob}, Claim(w, age, got)
  PROVE  /\ row' \in [Jobs -> Row]
         /\ NoLimbo'
         /\ \A j \in Jobs : IF j = got THEN NewAttempt(j) /\ row'[j].by = w
                                       ELSE RowKept(j)
         /\ \A j \in Jobs : RowStep(row[j], row'[j])
<1>1. \A j \in Jobs : j = got => /\ row[j].attempts < MaxAttempts
                                 /\ row[j].status \in {"queued", "failed", "running"}
  BY NullAssumption DEF Claim, Claimable
<1>2. ASSUME NEW j \in Jobs
      PROVE  /\ row'[j] \in Row
             /\ IF j = got THEN NewAttempt(j) /\ row'[j].by = w /\ row'[j].status = "running"
                           ELSE \/ row'[j] = row[j]
                                \/ /\ row'[j].attempts = row[j].attempts
                                   /\ row[j].attempts = MaxAttempts
                                   /\ row[j].status = "running"
                                   /\ row'[j].status = "dead" /\ row'[j].by = NoWorker
  <2>1. row[j] \in Row /\ row[j].attempts \in 0 .. MaxAttempts
    BY DEF TypeOK, Row
  <2>2. CASE j = got
    BY <1>1, <2>1, <2>2, ClaimedRow DEF Claim, NewAttempt
  <2>3. CASE j # got /\ j \in Exhausted(age)
    <3>1. /\ row'[j] = Released(row[j], "dead")
          /\ row[j].status = "running" /\ row[j].attempts >= MaxAttempts
      BY <2>3 DEF Claim, Exhausted
    <3> QED  BY <2>1, <2>3, <3>1, ConfigAssumption, ReleasedRow
  <2>4. CASE j # got /\ j \notin Exhausted(age)
    BY <2>1, <2>4 DEF Claim
  <2> QED  BY <2>2, <2>3, <2>4
<1>3. row' \in [Jobs -> Row]
  BY <1>2 DEF Claim
<1>4. NoLimbo'
  <2> SUFFICES ASSUME NEW j \in Jobs
               PROVE  /\ row'[j].status \in {"absent", "queued"} => row'[j].attempts = 0
                      /\ row'[j].status = "failed" => row'[j].attempts < MaxAttempts
                      /\ row'[j].status = "dead" => row'[j].attempts = MaxAttempts
                      /\ row'[j].status \in {"running", "succeeded"} => row'[j].attempts > 0
                      /\ row'[j].status = "running" <=> row'[j].by # NoWorker
    BY DEF NoLimbo
  <2>1. row[j].attempts \in Nat
    BY DEF TypeOK, Row
  <2>2. CASE j = got
    BY <1>2, <2>1, <2>2, NullAssumption DEF NewAttempt
  <2>3. CASE j # got
    BY <1>2, <2>3 DEF NoLimbo
  <2> QED  BY <2>2, <2>3
<1>5. \A j \in Jobs : IF j = got THEN NewAttempt(j) /\ row'[j].by = w ELSE RowKept(j)
  BY <1>2 DEF RowKept
<1>6. \A j \in Jobs : RowStep(row[j], row'[j])
  BY <1>1, <1>2 DEF RowStep, NewAttempt
<1> QED  BY <1>3, <1>4, <1>5, <1>6

-----------------------------------------------------------------------------
(* What the table does to the workers. *)

\* As long as nobody takes a job, the bookkeeping of attempts survives any
\* mixture of kept rows and new attempts.
LEMMA AttemptsSurvive ==
  ASSUME TypeOK, AttemptsDistinct, CurrentAttemptIsLockers, NobodyStarts,
         \A j \in Jobs : RowKept(j) \/ NewAttempt(j)
  PROVE  AttemptsDistinct' /\ CurrentAttemptIsLockers'
<1>1. ASSUME NEW w \in Workers, Busy(w)'
      PROVE  /\ worker'[w].job \in Jobs
             /\ worker'[w].attempt \in 1 .. row'[worker'[w].job].attempts
             /\ Current(w)' /\ row'[worker'[w].job].status = "running"
                  => row'[worker'[w].job].by = w
  <2> DEFINE j == worker[w].job
  <2>1. /\ Busy(w) /\ worker'[w].job = j /\ worker'[w].attempt = worker[w].attempt
        /\ j \in Jobs /\ worker[w].attempt \in 1 .. row[j].attempts
        /\ row[j].attempts \in Nat
    BY <1>1 DEF NobodyStarts, AttemptsDistinct, TypeOK, Row
  <2>2. CASE RowKept(j)
    BY <2>1, <2>2 DEF RowKept, CurrentAttemptIsLockers, Current
  <2>3. CASE NewAttempt(j)
    BY <2>1, <2>3 DEF NewAttempt, Current
  <2> QED  BY <2>1, <2>2, <2>3
<1>2. \A v, w \in Workers :
        v # w /\ Busy(v)' /\ Busy(w)' /\ worker'[v].job = worker'[w].job
          => worker'[v].attempt # worker'[w].attempt
  BY DEF NobodyStarts, AttemptsDistinct
<1> QED  BY <1>1, <1>2 DEF AttemptsDistinct, CurrentAttemptIsLockers

\* The statement a worker waits for is a statement, and reports a real attempt.
LEMMA OutstandingMeant ==
  ASSUME TypeOK, AttemptsDistinct, NEW w \in Workers, InFlight(w), worker[w].age <= Latency
  PROVE  /\ Outstanding(w) \in Statement
         /\ Outstanding(w).op # "claim" =>
              /\ worker[w].job \in Jobs /\ worker[w].attempt \in 1 .. MaxAttempts
              /\ Busy(w)
         /\ Outstanding(w).op = "claim" <=> worker[w].pc = "claiming"
         /\ Outstanding(w).job = worker[w].job /\ Outstanding(w).by = w
         /\ Outstanding(w).attempt = worker[w].attempt /\ Outstanding(w).age = worker[w].age
<1>1. worker[w] \in Process
  BY DEF TypeOK
<1>2. worker[w].pc \in {"claiming", "handling", "acking"}
  BY DEF InFlight
<1>3. worker[w].pc # "claiming" =>
        /\ worker[w].job \in Jobs /\ worker[w].attempt \in 1 .. MaxAttempts /\ Busy(w)
  <2> SUFFICES ASSUME worker[w].pc # "claiming"
               PROVE  worker[w].job \in Jobs /\ worker[w].attempt \in 1 .. MaxAttempts /\ Busy(w)
    OBVIOUS
  <2>1. Busy(w)
    BY <1>2 DEF Busy
  <2>2. worker[w].job \in Jobs /\ worker[w].attempt \in 1 .. row[worker[w].job].attempts
    BY <2>1 DEF AttemptsDistinct
  <2>3. row[worker[w].job].attempts \in 0 .. MaxAttempts
    BY <2>2 DEF TypeOK, Row
  <2> QED  BY <2>1, <2>2, <2>3, ConfigAssumption
<1> QED  BY <1>1, <1>2, <1>3, BoundAssumption DEF Outstanding, Statement, Process

-----------------------------------------------------------------------------
(* The inductive invariant. *)

LEMMA InitInv == Init => Inv
<1> SUFFICES ASSUME Init PROVE Inv
  OBVIOUS
<1>1. TypeOK
  <2>1. 0 \in 0 .. MaxAttempts /\ 0 \in -Latency .. LeaseDuration
        /\ 0 \in 0 .. HeartbeatInterval /\ 0 \in 0 .. Latency + 1 /\ 0 \in 0 .. MaxFaults
    BY ConfigAssumption, BoundAssumption
  <2>2. NoRow \in Row /\ Fresh("idle", FALSE) \in Process
    BY <2>1 DEF NoRow, Row, Fresh, Process
  <2> QED  BY <2>1, <2>2 DEF Init, TypeOK
<1>2. NoLimbo
  BY ConfigAssumption DEF Init, NoRow, NoLimbo
<1>3. AttemptsDistinct /\ CurrentAttemptIsLockers
  BY DEF Init, Fresh, Busy, AttemptsDistinct, CurrentAttemptIsLockers
<1>4. AnswersMeant
  BY DEF Init, AnswersMeant
<1> QED  BY <1>1, <1>2, <1>3, <1>4 DEF Inv

\* A process that begins, ends or loses its job is a process.
LEMMA FreshProcess ==
  ASSUME NEW pc \in {"idle", "claiming", "down"}, NEW stopping \in BOOLEAN
  PROVE  Fresh(pc, stopping) \in Process
<1>1. 0 \in 0 .. MaxAttempts /\ 0 \in 0 .. HeartbeatInterval /\ 0 \in 0 .. Latency + 1
  BY ConfigAssumption, BoundAssumption
<1> QED  BY <1>1 DEF Fresh, Process

\* Giving up on a statement leaves only meaningful statements on their way.
LEMMA AbandonKeepsLate ==
  ASSUME Inv, NEW w \in Workers, Abandon(w)
  PROVE  late' \subseteq Statement /\ AnswersMeant'
<1>1. CASE late' = late
  BY <1>1 DEF Inv, TypeOK, AnswersMeant
<1>2. CASE InFlight(w) /\ worker[w].age <= Latency /\ late' = late \cup {Outstanding(w)}
  BY <1>2, OutstandingMeant DEF Inv, TypeOK, AnswersMeant
<1> QED  BY <1>1, <1>2 DEF Abandon

\* A step of one process that leaves the table alone and takes no job.
LEMMA ProcessStep ==
  ASSUME Inv, NEW w \in Workers, NEW p \in Process,
         worker' = [worker EXCEPT ![w] = p],
         p.pc \in {"handling", "acking"} =>
           Busy(w) /\ p.job = worker[w].job /\ p.attempt = worker[w].attempt,
         row' \in [Jobs -> Row], NoLimbo', \A j \in Jobs : RowKept(j),
         late' \subseteq Statement, AnswersMeant', faults' \in 0 .. MaxFaults
  PROVE  Inv'
<1>1. worker' \in [Workers -> Process]
  BY DEF Inv, TypeOK
<1>2. NobodyStarts
  BY DEF Inv, TypeOK, NobodyStarts, Busy
<1>3. AttemptsDistinct' /\ CurrentAttemptIsLockers'
  BY <1>2, AttemptsSurvive DEF Inv
<1> QED  BY <1>1, <1>3 DEF Inv, TypeOK

LEMMA UntouchedTable ==
  ASSUME Inv, UNCHANGED row
  PROVE  /\ row' \in [Jobs -> Row] /\ NoLimbo' /\ \A j \in Jobs : RowKept(j)
BY DEF Inv, TypeOK, NoLimbo, RowKept

LEMMA UntouchedLate ==
  ASSUME Inv, UNCHANGED late
  PROVE  late' \subseteq Statement /\ AnswersMeant'
BY DEF Inv, TypeOK, AnswersMeant

LEMMA CallFailsCounts ==
  ASSUME Inv, NEW w \in Workers, Fault \/ CallFails(w)
  PROVE  faults' \in 0 .. MaxFaults
BY BoundAssumption DEF Inv, TypeOK, CallFails, Fault

\* A process gives up its job, or ends: whatever it waited for, Inv survives.
LEMMA GiveUpStep ==
  ASSUME Inv, NEW w \in Workers, NEW pc \in {"idle", "claiming", "down"}, NEW stopping \in BOOLEAN,
         worker' = [worker EXCEPT ![w] = Fresh(pc, stopping)],
         row' \in [Jobs -> Row], NoLimbo', \A j \in Jobs : RowKept(j),
         UNCHANGED late \/ Abandon(w),
         UNCHANGED faults \/ Fault \/ CallFails(w)
  PROVE  Inv'
<1>1. late' \subseteq Statement /\ AnswersMeant'
  BY AbandonKeepsLate, UntouchedLate
<1>2. faults' \in 0 .. MaxFaults
  BY CallFailsCounts DEF Inv, TypeOK
<1>3. Fresh(pc, stopping) \in Process /\ Fresh(pc, stopping).pc = pc
  BY FreshProcess DEF Fresh
<1> QED  BY <1>1, <1>2, <1>3, ProcessStep

LEMMA IdleProcess ==
  ASSUME Inv, NEW w \in Workers
  PROVE  worker[w] \in Process /\ worker[w].stopping \in BOOLEAN
BY DEF Inv, TypeOK, Process

LEMMA EnqueueStep ==
  ASSUME Inv, NEW j \in Jobs, Enqueue(j)
  PROVE  Inv'
<1>1. row[j] \in Row /\ row[j].status = "absent" /\ row[j].by = NoWorker
  BY DEF Inv, TypeOK, NoLimbo, Enqueue
<1>2. row' = [row EXCEPT ![j] = [row[j] EXCEPT !.status = "queued"]]
  BY DEF Enqueue, Inv, TypeOK
<1>3. /\ [row[j] EXCEPT !.status = "queued"] \in Row
      /\ [row[j] EXCEPT !.status = "queued"].attempts = row[j].attempts
      /\ [row[j] EXCEPT !.status = "queued"].by = row[j].by
      /\ [row[j] EXCEPT !.status = "queued"].status = "queued"
  BY <1>1 DEF Row
<1>4. row' \in [Jobs -> Row] /\ NoLimbo' /\ \A i \in Jobs : RowKept(i)
  BY <1>1, <1>2, <1>3 DEF Inv, TypeOK, NoLimbo, RowKept
<1>5. UNCHANGED <<worker, late, faults>>
  BY DEF Enqueue
<1>6. NobodyStarts
  BY <1>5 DEF NobodyStarts, Busy
<1>7. AttemptsDistinct' /\ CurrentAttemptIsLockers'
  BY <1>4, <1>6, AttemptsSurvive DEF Inv
<1> QED  BY <1>4, <1>5, <1>7 DEF Inv, TypeOK, AnswersMeant

\* ClaimLands: the claimer's new attempt exceeds every attempt already running.
LEMMA ClaimLandsStep ==
  ASSUME Inv, NEW w \in Workers, ClaimLands(w)
  PROVE  Inv'
<1>1. PICK got \in Jobs \cup {NoJob} :
        /\ Claim(w, worker[w].age, got)
        /\ worker' = [worker EXCEPT ![w] =
             IF got = NoJob THEN Idle(w)
             ELSE [Idle(w) EXCEPT !.pc = "handling", !.job = got,
                                  !.attempt = row[got].attempts + 1]]
  BY DEF ClaimLands
<1>2. worker[w].age \in 0 .. Latency /\ UNCHANGED <<late, faults>>
  BY BoundAssumption DEF ClaimLands, Inv, TypeOK, Process
<1>3. /\ row' \in [Jobs -> Row] /\ NoLimbo'
      /\ \A j \in Jobs : IF j = got THEN NewAttempt(j) /\ row'[j].by = w ELSE RowKept(j)
  BY <1>1, <1>2, ClaimKeepsRows DEF Inv
<1>4. CASE got = NoJob
  <2>1. worker' = [worker EXCEPT ![w] = Fresh("idle", worker[w].stopping)]
    BY <1>1, <1>4 DEF Idle
  <2>2. \A j \in Jobs : RowKept(j)
    BY <1>3, <1>4, NullAssumption
  <2> QED  BY <1>2, <1>3, <2>1, <2>2, IdleProcess, GiveUpStep
<1>5. CASE got \in Jobs
  <2> DEFINE f == Idle(w)
             p == [f EXCEPT !.pc = "handling", !.job = got, !.attempt = row[got].attempts + 1]
  <2>1. worker' = [worker EXCEPT ![w] = p]
    BY <1>1, <1>5, NullAssumption
  <2>2. /\ row[got].attempts \in 0 .. MaxAttempts
        /\ row'[got].attempts = row[got].attempts + 1
        /\ row'[got].attempts \in 0 .. MaxAttempts /\ row'[got].by = w
    BY <1>3, <1>5 DEF Inv, TypeOK, Row, NewAttempt
  <2>3. p \in Process /\ p.pc = "handling" /\ p.job = got /\ p.attempt = row[got].attempts + 1
    <3>1. f \in Process
      BY FreshProcess, IdleProcess DEF Idle
    <3> HIDE DEF f
    <3> QED  BY <1>5, <2>2, <3>1 DEF Process
  <2> HIDE DEF p
  <2>4. worker' \in [Workers -> Process] /\ worker'[w] = p
    BY <2>1, <2>3 DEF Inv, TypeOK
  <2>5. \A v \in Workers \ {w} : worker'[v] = worker[v]
    BY <2>1 DEF Inv, TypeOK
  <2>6. AttemptsDistinct'
    <3>1. ASSUME NEW v \in Workers \ {w}, Busy(v)'
          PROVE  /\ worker'[v].job = worker[v].job /\ worker'[v].attempt = worker[v].attempt
                 /\ worker[v].job \in Jobs
                 /\ worker[v].attempt \in 1 .. row[worker[v].job].attempts
                 /\ worker[v].attempt \in 1 .. row'[worker[v].job].attempts
      <4>1. /\ Busy(v) /\ worker'[v] = worker[v]
            /\ worker[v].job \in Jobs /\ worker[v].attempt \in 1 .. row[worker[v].job].attempts
        BY <2>5, <3>1 DEF Busy, Inv, AttemptsDistinct
      <4>2. row[worker[v].job].attempts \in Nat
        BY <4>1 DEF Inv, TypeOK, Row
      <4> QED  BY <1>3, <4>1, <4>2 DEF NewAttempt, RowKept
    <3>2. ASSUME NEW v \in Workers \ {w}, Busy(v)', worker'[v].job = got
          PROVE  worker'[v].attempt # p.attempt
      BY <2>2, <2>3, <3>1, <3>2
    <3>3. ASSUME NEW u \in Workers \ {w}, NEW v \in Workers \ {w}, u # v, Busy(u)', Busy(v)',
                 worker'[u].job = worker'[v].job
          PROVE  worker'[u].attempt # worker'[v].attempt
      BY <2>5, <3>3 DEF Busy, Inv, AttemptsDistinct
    <3>4. worker'[w].job \in Jobs /\ worker'[w].attempt \in 1 .. row'[worker'[w].job].attempts
      BY <1>5, <2>2, <2>3, <2>4
    <3> QED  BY <2>3, <2>4, <3>1, <3>2, <3>3, <3>4 DEF AttemptsDistinct
  <2>7. CurrentAttemptIsLockers'
    <3>1. ASSUME NEW v \in Workers \ {w}, Busy(v)', Current(v)',
                 row'[worker'[v].job].status = "running"
          PROVE  row'[worker'[v].job].by = v
      <4>1. /\ Busy(v) /\ worker'[v] = worker[v]
            /\ worker[v].job \in Jobs /\ worker[v].attempt \in 1 .. row[worker[v].job].attempts
        BY <2>5, <3>1 DEF Busy, Inv, AttemptsDistinct
      <4>2. worker[v].job # got
        BY <2>2, <3>1, <4>1 DEF Current
      <4> QED  BY <1>3, <3>1, <4>1, <4>2 DEF RowKept, Current, Inv, CurrentAttemptIsLockers
    <3>2. row'[worker'[w].job].by = w
      BY <2>2, <2>3, <2>4
    <3> QED  BY <3>1, <3>2 DEF CurrentAttemptIsLockers
  <2> QED  BY <1>2, <1>3, <2>4, <2>6, <2>7 DEF Inv, TypeOK, AnswersMeant
<1> QED  BY <1>4, <1>5

\* A busy process whose fields other than pc, job and attempt change.
LEMMA HandlingStep ==
  ASSUME Inv, NEW w \in Workers, worker[w].pc = "handling",
         NEW p \in Process, p.pc \in {"handling", "acking"},
         p.job = worker[w].job, p.attempt = worker[w].attempt,
         worker' = [worker EXCEPT ![w] = p],
         row' \in [Jobs -> Row], NoLimbo', \A j \in Jobs : RowKept(j),
         UNCHANGED late \/ Abandon(w),
         UNCHANGED faults \/ Fault \/ CallFails(w)
  PROVE  Inv'
<1>1. late' \subseteq Statement /\ AnswersMeant'
  BY AbandonKeepsLate, UntouchedLate
<1>2. faults' \in 0 .. MaxFaults
  BY CallFailsCounts DEF Inv, TypeOK
<1>3. Busy(w)
  BY DEF Busy
<1> QED  BY <1>1, <1>2, <1>3, ProcessStep

\* Landing of the statement a worker waits for, other than Claim.
LEMMA OutstandingLands ==
  ASSUME Inv, NEW w \in Workers, InFlight(w), worker[w].age <= Latency,
         worker[w].pc # "claiming", Update(Outstanding(w))
  PROVE  row' \in [Jobs -> Row] /\ NoLimbo' /\ \A j \in Jobs : RowKept(j)
BY OutstandingMeant, UpdateKeepsRows DEF Inv

LEMMA HeartbeatSteps ==
  ASSUME Inv, NEW w \in Workers,
         SendHeartbeat(w) \/ HeartbeatLands(w) \/ HeartbeatErrors(w) \/ HeartbeatStops(w)
  PROVE  Inv'
<1>1. worker[w] \in Process
  BY DEF Inv, TypeOK
<1>2. CASE SendHeartbeat(w)
  <2> DEFINE p == [worker[w] EXCEPT !.hb = "sent", !.beat = 0, !.age = 0]
  <2>1. worker' = [worker EXCEPT ![w] = p] /\ UNCHANGED <<row, late, faults>>
        /\ worker[w].pc = "handling"
    BY <1>2 DEF SendHeartbeat, Inv, TypeOK
  <2>2. 0 \in 0 .. HeartbeatInterval /\ 0 \in 0 .. Latency + 1
    BY ConfigAssumption, BoundAssumption
  <2>3. p \in Process /\ p.pc = "handling" /\ p.job = worker[w].job
        /\ p.attempt = worker[w].attempt
    BY <1>1, <2>1, <2>2 DEF Process
  <2> QED  BY <2>1, <2>3, UntouchedTable, HandlingStep
<1>3. ASSUME NEW h \in {"quiet", "lost", "stopped"}, worker[w].pc = "handling",
             worker' = [worker EXCEPT ![w] = [worker[w] EXCEPT !.hb = h]],
             row' \in [Jobs -> Row], NoLimbo', \A j \in Jobs : RowKept(j),
             UNCHANGED late \/ Abandon(w), UNCHANGED faults \/ CallFails(w)
      PROVE  Inv'
  <2> DEFINE p == [worker[w] EXCEPT !.hb = h]
  <2>1. p \in Process /\ p.pc = "handling" /\ p.job = worker[w].job
        /\ p.attempt = worker[w].attempt
    BY <1>1, <1>3 DEF Process
  <2> QED  BY <1>3, <2>1, HandlingStep
<1>4. CASE HeartbeatLands(w)
  <2> DEFINE h == IF Held(worker[w].job, w, worker[w].age) THEN "quiet" ELSE "lost"
  <2>1. /\ worker' = [worker EXCEPT ![w] = [worker[w] EXCEPT !.hb = h]]
        /\ UNCHANGED <<late, faults>> /\ worker[w].pc = "handling" /\ h \in {"quiet", "lost"}
    BY <1>4 DEF HeartbeatLands, Inv, TypeOK
  <2>2. row' \in [Jobs -> Row] /\ NoLimbo' /\ \A j \in Jobs : RowKept(j)
    BY <1>4, OutstandingLands DEF HeartbeatLands, InFlight
  <2> QED  BY <1>3, <2>1, <2>2
<1>5. CASE HeartbeatErrors(w)
  <2>1. /\ worker' = [worker EXCEPT ![w] = [worker[w] EXCEPT !.hb = "lost"]]
        /\ UNCHANGED row /\ worker[w].pc = "handling" /\ CallFails(w) /\ Abandon(w)
    BY <1>5 DEF HeartbeatErrors, Inv, TypeOK
  <2> QED  BY <1>3, <2>1, UntouchedTable
<1>6. CASE HeartbeatStops(w)
  <2>1. /\ worker' = [worker EXCEPT ![w] = [worker[w] EXCEPT !.hb = "stopped"]]
        /\ UNCHANGED <<row, late, faults>> /\ worker[w].pc = "handling"
    BY <1>6 DEF HeartbeatStops, Inv, TypeOK
  <2> QED  BY <1>3, <2>1, UntouchedTable
<1> QED  BY <1>2, <1>4, <1>5, <1>6

LEMMA HandlerReturnsStep ==
  ASSUME Inv, NEW w \in Workers, HandlerReturns(w)
  PROVE  Inv'
<1>1. PICK result \in {"ok", "err", "canceled"} :
        worker' = [worker EXCEPT ![w] = [worker[w] EXCEPT !.result = result]]
  BY DEF HandlerReturns, Inv, TypeOK
<1> DEFINE p == [worker[w] EXCEPT !.result = result]
<1>2. p \in Process /\ p.pc = worker[w].pc /\ p.job = worker[w].job
      /\ p.attempt = worker[w].attempt
  BY DEF Inv, TypeOK, Process
<1>3. UNCHANGED <<row, late, faults>> /\ worker[w].pc = "handling"
  BY DEF HandlerReturns
<1> QED  BY <1>1, <1>2, <1>3, UntouchedTable, HandlingStep

LEMMA FinishStep ==
  ASSUME Inv, NEW w \in Workers, Finish(w)
  PROVE  Inv'
<1> DEFINE p == [worker[w] EXCEPT !.pc = "acking", !.beat = 0, !.age = 0, !.hb = "quiet"]
<1>1. UNCHANGED <<row, late, faults>> /\ worker[w].pc = "handling"
  BY DEF Finish
<1>2. \/ worker' = [worker EXCEPT ![w] = Fresh("idle", worker[w].stopping)]
      \/ worker' = [worker EXCEPT ![w] = p]
  BY DEF Finish, Idle, Inv, TypeOK
<1>3. CASE worker' = [worker EXCEPT ![w] = Fresh("idle", worker[w].stopping)]
  BY <1>1, <1>3, UntouchedTable, IdleProcess, GiveUpStep
<1>4. CASE worker' = [worker EXCEPT ![w] = p]
  <2>1. 0 \in 0 .. HeartbeatInterval /\ 0 \in 0 .. Latency + 1 /\ worker[w] \in Process
    BY ConfigAssumption, BoundAssumption DEF Inv, TypeOK
  <2>2. p \in Process /\ p.pc = "acking" /\ p.job = worker[w].job
        /\ p.attempt = worker[w].attempt
    BY <2>1 DEF Process
  <2> QED  BY <1>1, <1>4, <2>2, UntouchedTable, HandlingStep
<1> QED  BY <1>2, <1>3, <1>4

\* The steps after which the process has no job.
LEMMA ReleasingSteps ==
  ASSUME Inv, NEW w \in Workers,
         \/ Poll(w) \/ ClaimErrors(w) \/ AckLands(w) \/ AckErrors(w)
         \/ Exit(w) \/ Crash(w) \/ Restart(w)
  PROVE  Inv'
<1>1. worker[w].stopping \in BOOLEAN
  BY IdleProcess
<1>2. CASE Poll(w)
  <2>1. worker' = [worker EXCEPT ![w] = [Fresh("idle", worker[w].stopping) EXCEPT !.pc = "claiming"]]
    BY <1>2 DEF Poll, Idle
  <2>2. [Fresh("idle", worker[w].stopping) EXCEPT !.pc = "claiming"]
          = Fresh("claiming", worker[w].stopping)
    BY DEF Fresh
  <2> QED  BY <1>1, <1>2, <2>1, <2>2, UntouchedTable, GiveUpStep DEF Poll
<1>3. CASE ClaimErrors(w)
  BY <1>1, <1>3, UntouchedTable, GiveUpStep DEF ClaimErrors, Idle
<1>4. CASE AckLands(w)
  <2>1. row' \in [Jobs -> Row] /\ NoLimbo' /\ \A j \in Jobs : RowKept(j)
    BY <1>4, OutstandingLands DEF AckLands, InFlight
  <2> QED  BY <1>1, <1>4, <2>1, GiveUpStep DEF AckLands, Idle
<1>5. CASE AckErrors(w)
  BY <1>1, <1>5, UntouchedTable, GiveUpStep DEF AckErrors, Idle
<1>6. CASE Exit(w)
  BY <1>6, UntouchedTable, GiveUpStep DEF Exit
<1>7. CASE Crash(w)
  BY <1>7, UntouchedTable, GiveUpStep DEF Crash
<1>8. CASE Restart(w)
  BY <1>8, UntouchedTable, GiveUpStep DEF Restart
<1> QED  BY <1>2, <1>3, <1>4, <1>5, <1>6, <1>7, <1>8

LEMMA ShutdownStep ==
  ASSUME Inv, NEW w \in Workers, Shutdown(w)
  PROVE  Inv'
<1> DEFINE p == [worker[w] EXCEPT !.stopping = TRUE]
<1>1. /\ worker' = [worker EXCEPT ![w] = p] /\ UNCHANGED <<row, late>> /\ Fault
      /\ worker[w] \in Process
  BY DEF Shutdown, Inv, TypeOK
<1>2. /\ p \in Process /\ p.pc = worker[w].pc
      /\ p.job = worker[w].job /\ p.attempt = worker[w].attempt
  BY <1>1 DEF Process
<1>3. p.pc \in {"handling", "acking"} => Busy(w)
  BY <1>2 DEF Busy
<1> HIDE DEF p
<1>4. row' \in [Jobs -> Row] /\ NoLimbo' /\ \A j \in Jobs : RowKept(j)
  BY <1>1, UntouchedTable
<1>5. late' \subseteq Statement /\ AnswersMeant'
  BY <1>1, UntouchedLate
<1>6. faults' \in 0 .. MaxFaults
  BY <1>1, CallFailsCounts
<1> QED  BY <1>1, <1>2, <1>3, <1>4, <1>5, <1>6, ProcessStep

LEMMA LateLandsStep ==
  ASSUME Inv, NEW s \in late, LateLands(s)
  PROVE  Inv'
<1>1. s \in Statement /\ UNCHANGED <<worker, faults>> /\ late' = late \ {s}
  BY DEF LateLands, Inv, TypeOK
<1>2. row' \in [Jobs -> Row] /\ NoLimbo' /\ \A j \in Jobs : RowKept(j) \/ NewAttempt(j)
  <2>1. CASE s.op = "claim"
    <3>1. PICK got \in Jobs \cup {NoJob} : Claim(s.by, s.age, got)
      BY <2>1 DEF LateLands
    <3>2. s.by \in Workers /\ s.age \in 0 .. Latency
      BY <1>1 DEF Statement
    <3> QED  BY <3>1, <3>2, ClaimKeepsRows DEF Inv
  <2>2. CASE s.op # "claim"
    <3>1. Update(s) /\ s.job \in Jobs /\ s.attempt \in 1 .. MaxAttempts
      BY <2>2 DEF LateLands, Inv, AnswersMeant
    <3> QED  BY <1>1, <2>2, <3>1, UpdateKeepsRows DEF Inv
  <2> QED  BY <2>1, <2>2
<1>3. NobodyStarts
  BY <1>1 DEF NobodyStarts, Busy
<1>4. AttemptsDistinct' /\ CurrentAttemptIsLockers'
  BY <1>2, <1>3, AttemptsSurvive DEF Inv
<1> QED  BY <1>1, <1>2, <1>4 DEF Inv, TypeOK, AnswersMeant

LEMMA TickStep ==
  ASSUME Inv, Tick
  PROVE  Inv'
<1>1. \A n \in -Latency .. LeaseDuration : Down(n) \in -Latency .. LeaseDuration
  BY ConfigAssumption, BoundAssumption DEF Down
<1>2. \A n \in Int : Down(n) \in Int
  BY BoundAssumption DEF Down
<1>3. ASSUME NEW j \in Jobs
      PROVE  /\ row'[j] \in Row /\ row'[j].status = row[j].status
             /\ row'[j].attempts = row[j].attempts /\ row'[j].by = row[j].by
  <2> DEFINE l == IF row[j].status = "running" THEN Down(row[j].lease) ELSE row[j].lease
             a == IF row[j].status \in {"queued", "failed"} THEN Down(row[j].avail)
                                                           ELSE row[j].avail
  <2>1. row[j] \in Row
    BY DEF Inv, TypeOK
  <2>2. row'[j] = [row[j] EXCEPT !.lease = l, !.avail = a]
    BY DEF Tick
  <2>3. l \in -Latency .. LeaseDuration /\ a \in Int
    BY <1>1, <1>2, <2>1 DEF Row
  <2> HIDE DEF l, a
  <2> QED  BY <2>1, <2>2, <2>3 DEF Row
<1>4. row' \in [Jobs -> Row] /\ NoLimbo' /\ \A j \in Jobs : RowKept(j)
  <2>1. row' \in [Jobs -> Row]
    BY <1>3 DEF Tick
  <2>2. NoLimbo'
    BY <1>3 DEF Inv, NoLimbo
  <2>3. \A j \in Jobs : RowKept(j)
    BY <1>3 DEF RowKept
  <2> QED  BY <2>1, <2>2, <2>3
<1>5. ASSUME NEW w \in Workers
      PROVE  /\ worker'[w] \in Process /\ worker'[w].pc = worker[w].pc
             /\ worker'[w].job = worker[w].job /\ worker'[w].attempt = worker[w].attempt
  <2> DEFINE b == IF worker[w].pc = "handling" /\ worker[w].beat < HeartbeatInterval
                    THEN worker[w].beat + 1 ELSE worker[w].beat
             a == IF InFlight(w) /\ worker[w].age <= Latency
                    THEN worker[w].age + 1 ELSE worker[w].age
  <2>1. worker[w] \in Process
    BY DEF Inv, TypeOK
  <2>2. worker'[w] = [worker[w] EXCEPT !.beat = b, !.age = a]
    BY DEF Tick
  <2>3. b \in 0 .. HeartbeatInterval /\ a \in 0 .. Latency + 1
    BY <2>1, ConfigAssumption, BoundAssumption DEF Process
  <2> HIDE DEF a, b
  <2> QED  BY <2>1, <2>2, <2>3 DEF Process
<1>6. worker' \in [Workers -> Process] /\ NobodyStarts
  BY <1>5 DEF Tick, NobodyStarts, Busy
<1>7. AttemptsDistinct' /\ CurrentAttemptIsLockers'
  BY <1>4, <1>6, AttemptsSurvive DEF Inv
<1>8. late' \subseteq Statement /\ AnswersMeant'
  <2>1. ASSUME NEW t \in late, t.age < Latency
        PROVE  /\ [t EXCEPT !.age = @ + 1] \in Statement
               /\ [t EXCEPT !.age = @ + 1].op = t.op
               /\ [t EXCEPT !.age = @ + 1].job = t.job
               /\ [t EXCEPT !.age = @ + 1].attempt = t.attempt
    <3>1. t \in Statement
      BY DEF Inv, TypeOK
    <3>2. t.age + 1 \in 0 .. Latency
      BY <2>1, <3>1, BoundAssumption DEF Statement
    <3> QED  BY <3>1, <3>2 DEF Statement
  <2>2. \A s \in late' : \E t \in late : t.age < Latency /\ s = [t EXCEPT !.age = @ + 1]
    BY DEF Tick
  <2>3. late' \subseteq Statement
    BY <2>1, <2>2
  <2>4. AnswersMeant'
    <3> SUFFICES ASSUME NEW s \in late', s.op # "claim"
                 PROVE  s.job \in Jobs /\ s.attempt \in 1 .. MaxAttempts
      BY DEF AnswersMeant
    <3>1. PICK t \in late : t.age < Latency /\ s = [t EXCEPT !.age = @ + 1]
      BY <2>2
    <3>2. s.op = t.op /\ s.job = t.job /\ s.attempt = t.attempt
      BY <2>1, <3>1
    <3> QED  BY <3>2 DEF Inv, AnswersMeant
  <2> QED  BY <2>3, <2>4
<1>9. UNCHANGED faults
  BY DEF Tick
<1> QED  BY <1>4, <1>6, <1>7, <1>8, <1>9 DEF Inv, TypeOK

LEMMA NextInv == Inv /\ [Next]_vars => Inv'
<1> SUFFICES ASSUME Inv, [Next]_vars PROVE Inv'
  OBVIOUS
<1>1. CASE \E j \in Jobs : Enqueue(j)
  BY <1>1, EnqueueStep
<1>2. ASSUME NEW w \in Workers, WorkerStep(w)
      PROVE  Inv'
  BY <1>2, ClaimLandsStep, HeartbeatSteps, HandlerReturnsStep, FinishStep, ReleasingSteps,
     ShutdownStep DEF WorkerStep
<1>3. CASE \E s \in late : LateLands(s)
  BY <1>3, LateLandsStep
<1>4. CASE Tick
  BY <1>4, TickStep
<1>5. CASE UNCHANGED vars
  BY <1>5 DEF vars, Inv, TypeOK, NoLimbo, AttemptsDistinct, CurrentAttemptIsLockers, Current,
              Busy, AnswersMeant
<1> QED  BY <1>1, <1>2, <1>3, <1>4, <1>5 DEF Next

-----------------------------------------------------------------------------
(* The theorems. *)

\* The queue keeps every value within its type, whatever the delays.
THEOREM TypeCorrect == Spec => []TypeOK
<1>1. Inv => TypeOK
  BY DEF Inv
<1> QED  BY <1>1, InitInv, NextInv, PTL DEF Spec

\* No job is stranded without an attempt left and without being buried.
THEOREM NoLimboHolds == Spec => []NoLimbo
<1>1. Inv => NoLimbo
  BY DEF Inv
<1> QED  BY <1>1, InitInv, NextInv, PTL DEF Spec

\* No attempt is executed twice, for any number of workers and stalls.
THEOREM AttemptsDistinctHolds == Spec => []AttemptsDistinct
<1>1. Inv => AttemptsDistinct
  BY DEF Inv
<1> QED  BY <1>1, InitInv, NextInv, PTL DEF Spec

\* The current attempt of a running job is its locker's.
THEOREM CurrentAttemptIsLockersHolds == Spec => []CurrentAttemptIsLockers
<1>1. Inv => CurrentAttemptIsLockers
  BY DEF Inv
<1> QED  BY <1>1, InitInv, NextInv, PTL DEF Spec

-----------------------------------------------------------------------------
(* The queue implements the task ledger. *)

Entry(r) == [phase |-> TaskPhase(r.status), tries |-> r.attempts]

\* A permitted change of a row is a step of the ledger's task, or none.
LEMMA RowStepRefines ==
  ASSUME NEW r \in Row, NEW q \in Row, RowStep(r, q)
  PROVE  Entry(q) = Entry(r) \/ Ledger!Step(Entry(r), Entry(q))
<1>1. CASE q.status = r.status /\ q.attempts = r.attempts
  BY <1>1 DEF Entry
<1>2. CASE r.status = "absent" /\ q.status = "queued" /\ r.attempts = 0 /\ q.attempts = 0
  BY <1>2 DEF Entry, TaskPhase, Ledger!Step, Ledger!Submit
<1>3. CASE /\ r.status \in {"queued", "failed", "running"} /\ r.attempts < MaxAttempts
           /\ q.status = "running" /\ q.attempts = r.attempts + 1
  BY <1>3 DEF Entry, TaskPhase, Ledger!Step, Ledger!Begin
<1>4. CASE r.status = "running" /\ q.attempts = r.attempts /\ q.status = "succeeded"
  BY <1>4 DEF Entry, TaskPhase, Ledger!Step, Ledger!Complete
<1>5. CASE /\ r.status = "running" /\ q.attempts = r.attempts
           /\ q.status = "failed" /\ r.attempts < MaxAttempts
  BY <1>5 DEF Entry, TaskPhase, Ledger!Step, Ledger!GiveUp
<1>6. CASE /\ r.status = "running" /\ q.attempts = r.attempts
           /\ q.status = "dead" /\ r.attempts = MaxAttempts
  BY <1>6, ConfigAssumption DEF Entry, TaskPhase, Ledger!Step, Ledger!GiveUp
<1> QED  BY <1>1, <1>2, <1>3, <1>4, <1>5, <1>6 DEF RowStep

\* No step of the system changes a row in any other way.
LEMMA RowsStep ==
  ASSUME Inv, [Next]_vars
  PROVE  \A j \in Jobs : RowStep(row[j], row'[j])
<1>1. CASE UNCHANGED row
  BY <1>1 DEF RowStep
<1>2. ASSUME NEW i \in Jobs, Enqueue(i)
      PROVE  \A j \in Jobs : RowStep(row[j], row'[j])
  <2>1. row[i] \in Row /\ row[i].status = "absent" /\ row[i].attempts = 0
    BY <1>2 DEF Inv, TypeOK, NoLimbo, Enqueue
  <2>2. row' = [row EXCEPT ![i] = [row[i] EXCEPT !.status = "queued"]]
    BY <1>2 DEF Enqueue, Inv, TypeOK
  <2>3. /\ [row[i] EXCEPT !.status = "queued"].attempts = 0
        /\ [row[i] EXCEPT !.status = "queued"].status = "queued"
    BY <2>1 DEF Row
  <2> QED  BY <2>1, <2>2, <2>3 DEF RowStep, Inv, TypeOK
<1>3. ASSUME NEW w \in Workers, ClaimLands(w)
      PROVE  \A j \in Jobs : RowStep(row[j], row'[j])
  <2>1. worker[w].age \in 0 .. Latency
    BY <1>3, BoundAssumption DEF ClaimLands, Inv, TypeOK, Process
  <2>2. PICK got \in Jobs \cup {NoJob} : Claim(w, worker[w].age, got)
    BY <1>3 DEF ClaimLands
  <2> QED  BY <2>1, <2>2, ClaimKeepsRows DEF Inv
<1>4. ASSUME NEW w \in Workers, HeartbeatLands(w) \/ AckLands(w)
      PROVE  \A j \in Jobs : RowStep(row[j], row'[j])
  <2>1. /\ InFlight(w) /\ worker[w].age <= Latency /\ worker[w].pc # "claiming"
        /\ Update(Outstanding(w))
    BY <1>4 DEF HeartbeatLands, AckLands, InFlight
  <2> QED  BY <2>1, OutstandingMeant, UpdateKeepsRows DEF Inv
<1>5. ASSUME NEW s \in late, LateLands(s)
      PROVE  \A j \in Jobs : RowStep(row[j], row'[j])
  <2>1. s \in Statement
    BY DEF Inv, TypeOK
  <2>2. CASE s.op = "claim"
    <3>1. PICK got \in Jobs \cup {NoJob} : Claim(s.by, s.age, got)
      BY <1>5, <2>2 DEF LateLands
    <3>2. s.by \in Workers /\ s.age \in 0 .. Latency
      BY <2>1 DEF Statement
    <3> QED  BY <3>1, <3>2, ClaimKeepsRows DEF Inv
  <2>3. CASE s.op # "claim"
    <3>1. Update(s) /\ s.job \in Jobs /\ s.attempt \in 1 .. MaxAttempts
      BY <1>5, <2>3 DEF LateLands, Inv, AnswersMeant
    <3> QED  BY <2>1, <2>3, <3>1, UpdateKeepsRows DEF Inv
  <2> QED  BY <2>2, <2>3
<1>6. CASE Tick
  <2> SUFFICES ASSUME NEW j \in Jobs
               PROVE  row'[j].status = row[j].status /\ row'[j].attempts = row[j].attempts
    BY DEF RowStep
  <2>1. row[j] \in Row
    BY DEF Inv, TypeOK
  <2> QED  BY <1>6, <2>1 DEF Tick, Row
<1>7. ASSUME NEW w \in Workers, WorkerStep(w)
      PROVE  UNCHANGED row \/ ClaimLands(w) \/ HeartbeatLands(w) \/ AckLands(w)
  BY <1>7 DEF WorkerStep, Poll, ClaimErrors, SendHeartbeat, HeartbeatErrors, HeartbeatStops,
              HandlerReturns, Finish, AckErrors, Shutdown, Exit, Crash, Restart
<1> QED  BY <1>1, <1>2, <1>3, <1>4, <1>5, <1>6, <1>7 DEF Next, vars

\* Whatever the workers, the clock and the network do, a caller of EnqueueWith
\* sees the task ledger: at most MaxAttempts counted tries, burial only after the
\* last of them, and a settled task left alone.
THEOREM ImplementsLedgerHolds == Spec => ImplementsLedger
<1>1. Init => Ledger!Init
  BY DEF Init, NoRow, Ledger!Init, TaskPhase
<1>2. ASSUME Inv, Inv', [Next]_vars
      PROVE  Ledger!Next
  <2>1. ASSUME NEW j \in Jobs
        PROVE  Entry(row'[j]) = Entry(row[j]) \/ Ledger!Step(Entry(row[j]), Entry(row'[j]))
    BY <1>2, RowsStep, RowStepRefines DEF Inv, TypeOK
  <2> QED  BY <2>1 DEF Ledger!Next, Entry
<1>3. QED
  BY <1>1, <1>2, InitInv, NextInv, PTL DEF Spec, ImplementsLedger, Ledger!Spec

-----------------------------------------------------------------------------
(* Timers on time.  A worker that renews every HeartbeatInterval still has *)
(* Reserve of its lease when a renewal or an answer leaves; Reserve        *)
(* exceeds Latency, so an answer it gave up on is gone before the lease    *)
(* runs out.                                                               *)

\* The configuration under which a worker can rely on its lease.
Prompt ==
  /\ Timely /\ ~ReuseIDs
  /\ 2 * Latency + HeartbeatInterval < LeaseDuration

\* What is left of a lease when its grant or renewal reaches the table, at least; and when
\* the next renewal leaves the worker.
Slack == LeaseDuration - Latency
Reserve == Slack - HeartbeatInterval

\* w will take no job any more.
Gone(w) == worker[w].pc = "down" \/ (worker[w].pc = "idle" /\ worker[w].stopping)

LateBy(w) == {s \in late : s.by = w}
LateAnswers(w) == {s \in LateBy(w) : s.op \in {"succeed", "fail"}}
LateClaims(w) == {s \in LateBy(w) : s.op = "claim"}

\* Row j runs attempt n for w, with d or more of the lease left.
HeldFor(w, j, n, d) ==
  row[j].status = "running" /\ row[j].by = w /\ row[j].attempts = n /\ row[j].lease >= d

\* If w locks row j at all, it is for attempt n.
OnlyFor(w, j, n) == row[j].by = w => row[j].attempts = n

Holds(w, d) == HeldFor(w, worker[w].job, worker[w].attempt, d)

\* The heartbeat goroutine stops only when the process stops.
StopsWhenTold(w) ==
  worker[w].pc = "handling" /\ worker[w].hb = "stopped" => worker[w].stopping

\* Between heartbeats the lease shrinks no faster than the ticker advances; while one is
\* unanswered, no faster than its AckTimeout.
BeatsInTime(w) ==
  worker[w].pc = "handling" /\ ~worker[w].stopping =>
    /\ worker[w].hb = "quiet" => Holds(w, Slack - worker[w].beat)
    /\ worker[w].hb = "sent" => worker[w].age <= AckTimeout /\ Holds(w, Reserve - worker[w].age)

\* The answer leaves while the lease has Reserve left.
AnswersInTime(w) ==
  worker[w].pc = "acking" /\ ~worker[w].stopping =>
    worker[w].age <= AckTimeout /\ Holds(w, Reserve - worker[w].age)

\* So does an answer its sender gave up on, as long as the sender may claim again.
LateAnswersInTime(w) ==
  ~Gone(w) => \A s \in LateAnswers(w) : HeldFor(w, s.job, s.attempt, Reserve - s.age)

\* An attempt has one answer, and none is on its way while the attempt runs.
OneAnswer(w) ==
  /\ \A s, t \in LateAnswers(w) : s.job = t.job => s = t
  /\ Busy(w) => \A s \in LateAnswers(w) : s.job # worker[w].job

\* A busy worker never locks its job for another attempt: its own late claims
\* reach the table before the lease of the claim that succeeded runs out.
OwnAttempt(w) ==
  Busy(w) => /\ OnlyFor(w, worker[w].job, worker[w].attempt)
             /\ \A c \in LateClaims(w) : Holds(w, Slack - c.age)

\* The same of an attempt whose answer is late.
LateOwnAttempt(w) ==
  \A s \in LateAnswers(w) :
    /\ OnlyFor(w, s.job, s.attempt)
    /\ \A c \in LateClaims(w) : \/ HeldFor(w, s.job, s.attempt, Reserve - s.age)
                                \/ HeldFor(w, s.job, s.attempt, Slack - c.age)

HandlerTimed(w) == StopsWhenTold(w) /\ BeatsInTime(w) /\ AnswersInTime(w)
LateTimed(w) == LateAnswersInTime(w) /\ OneAnswer(w) /\ OwnAttempt(w) /\ LateOwnAttempt(w)

TimedInv == \A w \in Workers : HandlerTimed(w) /\ LateTimed(w)

\* A step leaves row j alone as far as w is concerned: it does not change it, or renews w's
\* lease, or gives the row to somebody else once w has no lease.
Spares(w, j) ==
  \/ row'[j] = row[j]
  \/ row'[j].by # w /\ ~(row[j].status = "running" /\ row[j].by = w /\ row[j].lease > 0)
  \/ /\ row[j].by = w /\ row'[j].status = "running" /\ row'[j].by = w
     /\ row'[j].attempts = row[j].attempts /\ row'[j].lease >= Slack

-----------------------------------------------------------------------------
LEMMA Bounds ==
  ASSUME Prompt
  PROVE  /\ LeaseDuration \in Int /\ Latency \in Nat /\ HeartbeatInterval \in Nat
         /\ AckTimeout \in Nat /\ AckTimeout <= Latency
         /\ Slack \in Int /\ Reserve \in Int
         /\ Reserve > Latency /\ Reserve <= Slack /\ Slack > Latency
         /\ Reserve = Slack - HeartbeatInterval /\ Slack = LeaseDuration - Latency
BY ConfigAssumption, BoundAssumption DEF Prompt, Slack, Reserve

\* What w holds, it still holds after a step that spares the row.
LEMMA SparedHeld ==
  ASSUME Prompt, NEW w \in Workers, NEW j \in Jobs, row[j] \in Row, row'[j] \in Row, Spares(w, j),
         NEW n, NEW d \in Int, 0 < d, d <= Slack, HeldFor(w, j, n, d)
  PROVE  HeldFor(w, j, n, d)'
<1>1. row[j].lease \in Int /\ row'[j].lease \in Int /\ Slack \in Int
  BY Bounds DEF Row
<1> QED  BY <1>1 DEF Spares, HeldFor

LEMMA SparedOnly ==
  ASSUME NEW w \in Workers, NEW j \in Jobs, Spares(w, j), NEW n, OnlyFor(w, j, n)
  PROVE  OnlyFor(w, j, n)'
BY DEF Spares, OnlyFor

\* A statement of somebody else, or a heartbeat, spares every row.
LEMMA UpdateSpares ==
  ASSUME Prompt, Inv, NEW s \in Statement, Update(s), s.op # "claim", s.job \in Jobs,
         NEW w \in Workers, NEW j \in Jobs, s.by # w \/ s.op = "heartbeat" \/ s.job # j
  PROVE  Spares(w, j)
<1>1. CASE ~Held(s.job, s.by, s.age) \/ s.job # j
  BY <1>1 DEF Update, Spares, Inv, TypeOK
<1>2. CASE Held(s.job, s.by, s.age) /\ s.job = j
  <2>1. /\ row'[j] = Effect(s) /\ row[j].by = s.by /\ row[j].status = "running"
        /\ row[j] \in Row /\ s.age \in 0 .. Latency
    BY <1>2 DEF Update, Held, Inv, TypeOK, Statement
  <2>2. CASE s.op = "heartbeat"
    <3>1. row'[j] = Renewed(row[j], s.age)
      BY <1>2, <2>1, <2>2 DEF Effect
    <3>2. /\ row'[j].status = "running" /\ row'[j].by = s.by
          /\ row'[j].attempts = row[j].attempts
      BY <2>1, <3>1, RenewedRow
    <3>3. row'[j].lease = LeaseDuration - s.age
      BY <2>1, <3>1 DEF Renewed, Row
    <3>4. row'[j].lease >= Slack
      BY <2>1, <3>3, Bounds
    <3> QED  BY <2>1, <3>2, <3>4 DEF Spares
  <2>3. CASE s.op # "heartbeat"
    <3>1. s.by # w
      BY <1>2, <2>3
    <3>2. Effect(s).by = NoWorker
      <4>1. CASE s.op = "succeed"
        BY <1>2, <2>1, <4>1 DEF Effect, Released, Row
      <4>2. CASE s.op = "fail"
        BY <1>2, <2>1, <4>2 DEF Effect, Failed, Released, Row
      <4> QED  BY <2>3, <4>1, <4>2 DEF Statement
    <3> QED  BY <2>1, <3>1, <3>2, NullAssumption DEF Spares
  <2> QED  BY <2>2, <2>3
<1> QED  BY <1>1, <1>2

\* A claim takes no row whose lease has time left, and buries none.
LEMMA ClaimSpares ==
  ASSUME Inv, NEW v \in Workers, NEW age \in Nat, NEW got \in Jobs \cup {NoJob},
         Claim(v, age, got), NEW w \in Workers, NEW j \in Jobs, v # w \/ j # got
  PROVE  Spares(w, j)
<1>1. row[j] \in Row /\ row[j].lease \in Int
  BY DEF Inv, TypeOK, Row
<1>2. CASE j = got
  <2>1. row[j].status = "running" => row[j].lease <= 0
    BY <1>1, <1>2, NullAssumption DEF Claim, Claimable
  <2>2. row'[j].by = v
    BY <1>1, <1>2 DEF Claim, Claimed, Row
  <2> QED  BY <1>1, <1>2, <2>1, <2>2 DEF Spares
<1>3. CASE j # got /\ j \in Exhausted(age)
  <2>1. row[j].lease <= 0
    BY <1>1, <1>3 DEF Exhausted
  <2>2. row'[j].by = NoWorker
    BY <1>1, <1>3 DEF Claim, Released, Row
  <2> QED  BY <1>1, <2>1, <2>2, NullAssumption DEF Spares
<1>4. CASE j # got /\ j \notin Exhausted(age)
  BY <1>4 DEF Claim, Spares
<1> QED  BY <1>2, <1>3, <1>4

LEMMA ClaimNeedsExpiry ==
  ASSUME Inv, NEW v \in Workers, NEW age \in Nat, NEW got \in Jobs,
         Claim(v, age, got), NEW w, NEW n, NEW d \in Int, d > 0
  PROVE  ~HeldFor(w, got, n, d)
<1>1. row[got] \in Row /\ row[got].lease \in Int
  BY DEF Inv, TypeOK, Row
<1> QED  BY <1>1, NullAssumption DEF Claim, Claimable, HeldFor
-----------------------------------------------------------------------------
(* What survives when the rows of w are spared. *)

LEMMA JobsMeant ==
  ASSUME Inv, NEW w \in Workers
  PROVE  /\ worker[w] \in Process
         /\ Busy(w) => worker[w].job \in Jobs
         /\ \A s \in LateBy(w) : s \in Statement /\ s.age \in 0 .. Latency
         /\ \A s \in LateAnswers(w) : s \in LateBy(w) /\ s.job \in Jobs
         /\ \A c \in LateClaims(w) : c \in LateBy(w)
BY DEF Inv, TypeOK, AttemptsDistinct, AnswersMeant, LateBy, LateAnswers, LateClaims, Statement

\* A process that keeps its job, its heartbeat and its row keeps its margin.
LEMMA HandlerSpared ==
  ASSUME Prompt, Inv, Inv', NEW w \in Workers, HandlerTimed(w), worker'[w] = worker[w],
         Busy(w) => Spares(w, worker[w].job)
  PROVE  HandlerTimed(w)'
<1>1. StopsWhenTold(w)'
  BY DEF HandlerTimed, StopsWhenTold
<1>2. ASSUME NEW d \in Int, 0 < d, d <= Slack, Busy(w), Holds(w, d)
      PROVE  Holds(w, d)'
  BY <1>2, JobsMeant, SparedHeld DEF Holds, Inv, TypeOK
<1>3. worker[w] \in Process
  BY JobsMeant
<1>4. BeatsInTime(w)'
  <2> SUFFICES ASSUME worker[w].pc = "handling", ~worker[w].stopping
               PROVE  /\ worker[w].hb = "quiet" => Holds(w, Slack - worker[w].beat)'
                      /\ worker[w].hb = "sent" => /\ worker[w].age <= AckTimeout
                                                 /\ Holds(w, Reserve - worker[w].age)'
    BY DEF BeatsInTime, Holds
  <2>1. Busy(w)
    BY DEF Busy
  <2>2. CASE worker[w].hb = "quiet"
    <3>1. Slack - worker[w].beat \in Int /\ 0 < Slack - worker[w].beat
          /\ Slack - worker[w].beat <= Slack
      BY <1>3, Bounds DEF Process
    <3> QED  BY <1>2, <2>1, <2>2, <3>1 DEF HandlerTimed, BeatsInTime
  <2>3. CASE worker[w].hb = "sent"
    <3>1. worker[w].age <= AckTimeout /\ Holds(w, Reserve - worker[w].age)
      BY <2>3 DEF HandlerTimed, BeatsInTime
    <3>2. Reserve - worker[w].age \in Int /\ 0 < Reserve - worker[w].age
          /\ Reserve - worker[w].age <= Slack
      BY <1>3, <3>1, Bounds DEF Process
    <3> QED  BY <1>2, <2>1, <2>3, <3>1, <3>2
  <2> QED  BY <2>2, <2>3
<1>5. AnswersInTime(w)'
  <2> SUFFICES ASSUME worker[w].pc = "acking", ~worker[w].stopping
               PROVE  worker[w].age <= AckTimeout /\ Holds(w, Reserve - worker[w].age)'
    BY DEF AnswersInTime, Holds
  <2>1. Busy(w)
    BY DEF Busy
  <2>2. worker[w].age <= AckTimeout /\ Holds(w, Reserve - worker[w].age)
    BY DEF HandlerTimed, AnswersInTime
  <2>3. Reserve - worker[w].age \in Int /\ 0 < Reserve - worker[w].age
        /\ Reserve - worker[w].age <= Slack
    BY <1>3, <2>2, Bounds DEF Process
  <2> QED  BY <1>2, <2>1, <2>2, <2>3
<1> QED  BY <1>1, <1>4, <1>5 DEF HandlerTimed

\* What is late stays in time when no answer or claim joins it and no job is taken.
LEMMA LateSpared ==
  ASSUME Prompt, Inv, Inv', NEW w \in Workers, LateTimed(w),
         LateAnswers(w)' \subseteq LateAnswers(w), LateClaims(w)' \subseteq LateClaims(w),
         \A s \in LateAnswers(w)' : Spares(w, s.job),
         Gone(w) => Gone(w)',
         Busy(w)' => /\ Busy(w) /\ worker'[w].job = worker[w].job
                     /\ worker'[w].attempt = worker[w].attempt
                     /\ Spares(w, worker[w].job)
  PROVE  LateTimed(w)'
<1>1. ASSUME NEW j \in Jobs, NEW n, NEW d \in Int, 0 < d, d <= Slack,
             HeldFor(w, j, n, d), Spares(w, j)
      PROVE  HeldFor(w, j, n, d)'
  BY <1>1, SparedHeld DEF Inv, TypeOK
<1>2. \A s \in LateBy(w) : /\ Reserve - s.age \in Int /\ 0 < Reserve - s.age
                          /\ Reserve - s.age <= Slack
                          /\ Slack - s.age \in Int /\ 0 < Slack - s.age
                          /\ Slack - s.age <= Slack
  <2> SUFFICES ASSUME NEW s \in LateBy(w)
               PROVE  /\ Reserve - s.age \in Int /\ 0 < Reserve - s.age
                      /\ Reserve - s.age <= Slack
                      /\ Slack - s.age \in Int /\ 0 < Slack - s.age /\ Slack - s.age <= Slack
    OBVIOUS
  <2>1. s.age \in 0 .. Latency
    BY JobsMeant
  <2> QED  BY <2>1, Bounds
<1>3. LateAnswersInTime(w)'
  <2> SUFFICES ASSUME ~Gone(w), NEW s \in LateAnswers(w)'
               PROVE  HeldFor(w, s.job, s.attempt, Reserve - s.age)'
    BY DEF LateAnswersInTime
  <2>1. s \in LateAnswers(w) /\ s.job \in Jobs /\ s \in LateBy(w) /\ Spares(w, s.job)
    BY JobsMeant
  <2>2. HeldFor(w, s.job, s.attempt, Reserve - s.age)
    BY <2>1 DEF LateTimed, LateAnswersInTime
  <2> QED  BY <1>1, <1>2, <2>1, <2>2
<1>4. OneAnswer(w)'
  BY DEF LateTimed, OneAnswer
<1>5. OwnAttempt(w)'
  <2> SUFFICES ASSUME Busy(w)'
               PROVE  /\ OnlyFor(w, worker[w].job, worker[w].attempt)'
                      /\ \A c \in LateClaims(w)' : Holds(w, Slack - c.age)'
    BY DEF OwnAttempt
  <2>1. /\ Busy(w) /\ worker'[w].job = worker[w].job /\ worker'[w].attempt = worker[w].attempt
        /\ Spares(w, worker[w].job) /\ worker[w].job \in Jobs
    BY JobsMeant
  <2>2. /\ OnlyFor(w, worker[w].job, worker[w].attempt)
        /\ \A c \in LateClaims(w) : HeldFor(w, worker[w].job, worker[w].attempt, Slack - c.age)
    BY <2>1 DEF LateTimed, OwnAttempt, Holds
  <2>3. OnlyFor(w, worker[w].job, worker[w].attempt)'
    BY <2>1, <2>2 DEF Spares, OnlyFor
  <2>4. ASSUME NEW c \in LateClaims(w)'
        PROVE  Holds(w, Slack - c.age)'
    <3>1. c \in LateBy(w) /\ c \in LateClaims(w)
      BY JobsMeant
    <3>2. PICK j \in Jobs, n \in Nat : j = worker[w].job /\ n = worker[w].attempt
      BY <2>1 DEF Inv, TypeOK, Process
    <3>3. HeldFor(w, j, n, Slack - c.age) /\ Spares(w, j)
      BY <2>1, <2>2, <3>1, <3>2
    <3>4. HeldFor(w, j, n, Slack - c.age)'
      BY <1>1, <1>2, <3>1, <3>3
    <3> QED  BY <2>1, <3>2, <3>4 DEF Holds
  <2> QED  BY <2>3, <2>4
<1>6. LateOwnAttempt(w)'
  <2> SUFFICES ASSUME NEW s \in LateAnswers(w)'
               PROVE  /\ OnlyFor(w, s.job, s.attempt)'
                      /\ \A c \in LateClaims(w)' :
                           \/ HeldFor(w, s.job, s.attempt, Reserve - s.age)'
                           \/ HeldFor(w, s.job, s.attempt, Slack - c.age)'
    BY DEF LateOwnAttempt
  <2>1. s \in LateAnswers(w) /\ s.job \in Jobs /\ s \in LateBy(w) /\ Spares(w, s.job)
    BY JobsMeant
  <2>2. OnlyFor(w, s.job, s.attempt)'
    BY <2>1, SparedOnly DEF LateTimed, LateOwnAttempt
  <2>3. ASSUME NEW c \in LateClaims(w)'
        PROVE  \/ HeldFor(w, s.job, s.attempt, Reserve - s.age)'
               \/ HeldFor(w, s.job, s.attempt, Slack - c.age)'
    <3>1. c \in LateBy(w) /\ c \in LateClaims(w)
      BY JobsMeant
    <3>2. \/ HeldFor(w, s.job, s.attempt, Reserve - s.age)
          \/ HeldFor(w, s.job, s.attempt, Slack - c.age)
      BY <2>1, <3>1 DEF LateTimed, LateOwnAttempt
    <3> QED  BY <1>1, <1>2, <2>1, <3>1, <3>2
  <2> QED  BY <2>2, <2>3
<1> QED  BY <1>3, <1>4, <1>5, <1>6 DEF LateTimed

\* Who does not move is not disturbed by what spares its rows.
LEMMA OtherKept ==
  ASSUME Prompt, Inv, Inv', TimedInv, NEW w \in Workers,
         worker'[w] = worker[w], LateBy(w)' = LateBy(w), \A j \in Jobs : Spares(w, j)
  PROVE  HandlerTimed(w)' /\ LateTimed(w)'
<1>1. Gone(w)' = Gone(w) /\ Busy(w)' = Busy(w)
  BY DEF Gone, Busy
<1>2. LateAnswers(w)' = LateAnswers(w) /\ LateClaims(w)' = LateClaims(w)
  BY DEF LateAnswers, LateClaims
<1>3. HandlerTimed(w) /\ LateTimed(w)
  BY DEF TimedInv
<1>4. /\ Busy(w) => Spares(w, worker[w].job)
      /\ \A s \in LateAnswers(w)' : Spares(w, s.job)
  BY <1>2, JobsMeant
<1>5. HandlerTimed(w)'
  BY <1>3, <1>4, HandlerSpared
<1>6. LateTimed(w)'
  BY <1>1, <1>2, <1>3, <1>4, LateSpared
<1> QED  BY <1>5, <1>6

LEMMA OneWorkerMoves ==
  ASSUME Prompt, Inv, Inv', TimedInv, NEW w \in Workers, HandlerTimed(w)', LateTimed(w)',
         \A v \in Workers \ {w} : /\ worker'[v] = worker[v] /\ LateBy(v)' = LateBy(v)
                                 /\ \A j \in Jobs : Spares(v, j)
  PROVE  TimedInv'
BY OtherKept DEF TimedInv

LEMMA TimedEnqueue ==
  ASSUME Prompt, Inv, Inv', TimedInv, NEW i \in Jobs, Enqueue(i)
  PROVE  TimedInv'
<1>1. \A w \in Workers, j \in Jobs : Spares(w, j)
  BY NullAssumption DEF Enqueue, Spares, Inv, TypeOK, NoLimbo, Row
<1>2. \A w \in Workers : worker'[w] = worker[w] /\ LateBy(w)' = LateBy(w)
  BY DEF Enqueue, LateBy
<1> QED  BY <1>1, <1>2, OtherKept DEF TimedInv

-----------------------------------------------------------------------------
(* The steps of a process that touch neither the table nor what is late. *)

LEMMA SilentStep ==
  ASSUME Prompt, Inv, Inv', TimedInv, NEW w \in Workers, NEW p,
         worker' = [worker EXCEPT ![w] = p], UNCHANGED <<row, late>>,
         Gone(w) => Gone(w)',
         Busy(w)' => Busy(w) /\ p.job = worker[w].job /\ p.attempt = worker[w].attempt,
         HandlerTimed(w)'
  PROVE  TimedInv'
<1>1. /\ worker'[w] = p /\ \A v \in Workers \ {w} : worker'[v] = worker[v]
  BY DEF Inv, TypeOK
<1>2. \A v \in Workers : LateBy(v)' = LateBy(v) /\ \A j \in Jobs : Spares(v, j)
  BY DEF LateBy, Spares
<1>3. LateTimed(w)'
  <2>1. LateAnswers(w)' = LateAnswers(w) /\ LateClaims(w)' = LateClaims(w)
    BY DEF LateAnswers, LateClaims, LateBy
  <2>2. \A s \in LateAnswers(w)' : Spares(w, s.job)
    BY DEF Spares
  <2>3. Busy(w)' => /\ Busy(w) /\ worker'[w].job = worker[w].job
                    /\ worker'[w].attempt = worker[w].attempt
                    /\ Spares(w, worker[w].job)
    BY <1>1 DEF Spares
  <2>4. LateTimed(w)
    BY DEF TimedInv
  <2> QED  BY <2>1, <2>2, <2>3, <2>4, LateSpared
<1> QED  BY <1>1, <1>2, <1>3, OneWorkerMoves

\* A process without a job has no lease to keep.
LEMMA JoblessTimed ==
  ASSUME NEW w \in Workers, ~Busy(w)'
  PROVE  HandlerTimed(w)'
BY DEF Busy, HandlerTimed, StopsWhenTold, BeatsInTime, AnswersInTime

LEMMA TimedJobless ==
  ASSUME Prompt, Inv, Inv', TimedInv, NEW w \in Workers, Poll(w) \/ Exit(w)
  PROVE  TimedInv'
<1>1. PICK pc \in {"claiming", "down"}, b \in BOOLEAN :
        worker' = [worker EXCEPT ![w] = Fresh(pc, b)] /\ (Gone(w) => pc = "down")
  <2>1. CASE Poll(w)
    <3>1. Fresh("claiming", worker[w].stopping) =
            [Fresh("idle", worker[w].stopping) EXCEPT !.pc = "claiming"]
      BY DEF Fresh
    <3> QED  BY <2>1, <3>1, IdleProcess DEF Poll, Idle, Gone
  <2>2. CASE Exit(w)
    BY <2>2 DEF Exit
  <2> QED  BY <2>1, <2>2
<1>2. UNCHANGED <<row, late>>
  BY DEF Poll, Exit
<1>3. worker'[w].pc = pc
  BY <1>1 DEF Inv, TypeOK, Fresh
<1>4. ~Busy(w)' /\ (Gone(w) => Gone(w)')
  BY <1>1, <1>3 DEF Busy, Gone
<1> QED  BY <1>1, <1>2, <1>4, JoblessTimed, SilentStep

LEMMA TimedShutdown ==
  ASSUME Prompt, Inv, Inv', TimedInv, NEW w \in Workers, Shutdown(w)
  PROVE  TimedInv'
<1> DEFINE p == [worker[w] EXCEPT !.stopping = TRUE]
<1>1. worker' = [worker EXCEPT ![w] = p] /\ UNCHANGED <<row, late>> /\ worker[w].pc # "down"
  BY DEF Shutdown, Inv, TypeOK
<1>2. worker[w] \in Process /\ ~worker[w].stopping
  BY DEF Inv, TypeOK, Shutdown
<1>3. /\ p.stopping = TRUE /\ p.pc = worker[w].pc /\ p.job = worker[w].job
      /\ p.attempt = worker[w].attempt
  BY <1>2 DEF Process
<1> HIDE DEF p
<1>4. worker'[w] = p
  BY <1>1 DEF Inv, TypeOK
<1>5. HandlerTimed(w)'
  BY <1>3, <1>4 DEF HandlerTimed, StopsWhenTold, BeatsInTime, AnswersInTime
<1>6. (Gone(w) => Gone(w)') /\ (Busy(w)' => Busy(w))
  BY <1>1, <1>2, <1>3, <1>4 DEF Gone, Busy
<1> QED  BY <1>1, <1>3, <1>5, <1>6, SilentStep

LEMMA TimedSendHeartbeat ==
  ASSUME Prompt, Inv, Inv', TimedInv, NEW w \in Workers, SendHeartbeat(w)
  PROVE  TimedInv'
<1> DEFINE p == [worker[w] EXCEPT !.hb = "sent", !.beat = 0, !.age = 0]
<1>1. /\ worker' = [worker EXCEPT ![w] = p] /\ UNCHANGED <<row, late>>
      /\ worker[w].pc = "handling" /\ worker[w].hb = "quiet"
      /\ worker[w].beat = HeartbeatInterval
  BY DEF SendHeartbeat, Inv, TypeOK
<1>2. worker[w] \in Process /\ HandlerTimed(w)
  BY DEF Inv, TypeOK, TimedInv
<1>3. /\ p.pc = "handling" /\ p.hb = "sent" /\ p.age = 0 /\ p.job = worker[w].job
      /\ p.attempt = worker[w].attempt /\ p.stopping = worker[w].stopping
  BY <1>1, <1>2 DEF Process
<1> HIDE DEF p
<1>4. worker'[w] = p
  BY <1>1 DEF Inv, TypeOK
<1>5. ~worker[w].stopping => Holds(w, Reserve) /\ Reserve - 0 = Reserve
  BY <1>1, <1>2, Bounds DEF HandlerTimed, BeatsInTime
<1>6. HandlerTimed(w)'
  BY <1>1, <1>3, <1>4, <1>5, Bounds
     DEF HandlerTimed, StopsWhenTold, BeatsInTime, AnswersInTime, Holds, HeldFor
<1>7. ~Gone(w) /\ Busy(w)
  BY <1>1 DEF Gone, Busy
<1> QED  BY <1>1, <1>3, <1>6, <1>7, SilentStep

LEMMA TimedHeartbeatStops ==
  ASSUME Prompt, Inv, Inv', TimedInv, NEW w \in Workers, HeartbeatStops(w)
  PROVE  TimedInv'
<1> DEFINE p == [worker[w] EXCEPT !.hb = "stopped"]
<1>1. /\ worker' = [worker EXCEPT ![w] = p] /\ UNCHANGED <<row, late>>
      /\ worker[w].pc = "handling" /\ worker[w].stopping /\ worker[w] \in Process
  BY DEF HeartbeatStops, Inv, TypeOK
<1>2. /\ p.pc = "handling" /\ p.stopping = worker[w].stopping /\ p.job = worker[w].job
      /\ p.attempt = worker[w].attempt
  BY <1>1 DEF Process
<1> HIDE DEF p
<1>3. worker'[w] = p
  BY <1>1 DEF Inv, TypeOK
<1>4. HandlerTimed(w)'
  BY <1>1, <1>2, <1>3 DEF HandlerTimed, StopsWhenTold, BeatsInTime, AnswersInTime
<1>5. ~Gone(w) /\ Busy(w)
  BY <1>1 DEF Gone, Busy
<1> QED  BY <1>1, <1>2, <1>4, <1>5, SilentStep

LEMMA TimedHandlerReturns ==
  ASSUME Prompt, Inv, Inv', TimedInv, NEW w \in Workers, HandlerReturns(w)
  PROVE  TimedInv'
<1>1. PICK result \in {"ok", "err", "canceled"} :
        worker' = [worker EXCEPT ![w] = [worker[w] EXCEPT !.result = result]]
  BY DEF HandlerReturns, Inv, TypeOK
<1> DEFINE p == [worker[w] EXCEPT !.result = result]
<1>2. /\ UNCHANGED <<row, late>> /\ worker[w].pc = "handling" /\ HandlerTimed(w)
      /\ worker[w] \in Process
  BY DEF HandlerReturns, TimedInv, Inv, TypeOK
<1>3. /\ p.pc = worker[w].pc /\ p.stopping = worker[w].stopping /\ p.job = worker[w].job
      /\ p.attempt = worker[w].attempt /\ p.hb = worker[w].hb /\ p.beat = worker[w].beat
      /\ p.age = worker[w].age
  BY <1>2 DEF Process
<1>4. worker' = [worker EXCEPT ![w] = p]
  BY <1>1
<1> HIDE DEF p
<1>5. worker'[w] = p
  BY <1>4 DEF Inv, TypeOK
<1>6. HandlerTimed(w)'
  BY <1>2, <1>3, <1>5
     DEF HandlerTimed, StopsWhenTold, BeatsInTime, AnswersInTime, Holds, HeldFor
<1>7. ~Gone(w) /\ Busy(w)
  BY <1>2 DEF Gone, Busy
<1> QED  BY <1>2, <1>3, <1>4, <1>6, <1>7, SilentStep

\* The answer leaves with the reserve the last heartbeat interval left.
LEMMA TimedFinish ==
  ASSUME Prompt, Inv, Inv', TimedInv, NEW w \in Workers, Finish(w)
  PROVE  TimedInv'
<1> DEFINE p == [worker[w] EXCEPT !.pc = "acking", !.beat = 0, !.age = 0, !.hb = "quiet"]
<1>1. /\ UNCHANGED <<row, late>> /\ worker[w].pc = "handling" /\ worker[w].hb # "sent"
      /\ worker[w] \in Process /\ HandlerTimed(w)
  BY DEF Finish, Inv, TypeOK, TimedInv
<1>2. ~Gone(w) /\ Busy(w)
  BY <1>1 DEF Gone, Busy
<1>3. CASE worker' = [worker EXCEPT ![w] = Idle(w)]
  <2>1. ~Busy(w)'
    BY <1>3 DEF Inv, TypeOK, Idle, Fresh, Busy
  <2> QED  BY <1>1, <1>2, <1>3, <2>1, JoblessTimed, SilentStep
<1>4. CASE worker[w].hb # "lost" /\ worker' = [worker EXCEPT ![w] = p]
  <2>1. /\ p.pc = "acking" /\ p.stopping = worker[w].stopping /\ p.job = worker[w].job
        /\ p.attempt = worker[w].attempt /\ p.age = 0
    BY <1>1 DEF Process
  <2> HIDE DEF p
  <2>2. worker'[w] = p
    BY <1>4 DEF Inv, TypeOK
  <2>3. ~worker[w].stopping => Holds(w, Reserve)
    <3> SUFFICES ASSUME ~worker[w].stopping PROVE Holds(w, Reserve)
      OBVIOUS
    <3>1. worker[w].hb = "quiet"
      BY <1>1, <1>4 DEF HandlerTimed, StopsWhenTold, Process
    <3>2. Holds(w, Slack - worker[w].beat)
      BY <1>1, <3>1 DEF HandlerTimed, BeatsInTime
    <3>3. row[worker[w].job].lease \in Int
      BY <1>2, JobsMeant DEF Inv, TypeOK, Row
    <3> QED  BY <1>1, <3>2, <3>3, Bounds DEF Holds, HeldFor, Process
  <2>4. Reserve - 0 = Reserve /\ 0 <= AckTimeout
    BY Bounds
  <2>5. HandlerTimed(w)'
    BY <1>1, <2>1, <2>2, <2>3, <2>4
       DEF HandlerTimed, StopsWhenTold, BeatsInTime, AnswersInTime, Holds, HeldFor
  <2> QED  BY <1>1, <1>2, <1>4, <2>1, <2>5, SilentStep
<1> QED  BY <1>3, <1>4 DEF Finish, Inv, TypeOK
-----------------------------------------------------------------------------
(* The steps of a process that touch the table or what is late. *)

\* What w sends is by w: nobody else's late statements change.
LEMMA AbandonIsOwn ==
  ASSUME Inv, NEW w \in Workers, UNCHANGED late \/ Abandon(w)
  PROVE  \A v \in Workers \ {w} : LateBy(v)' = LateBy(v)
<1>1. CASE UNCHANGED late
  BY <1>1 DEF LateBy
<1>2. CASE InFlight(w) /\ worker[w].age <= Latency /\ late' = late \cup {Outstanding(w)}
  BY <1>2, OutstandingMeant DEF Inv, LateBy
<1> QED  BY <1>1, <1>2 DEF Abandon

LEMMA TimedHeartbeatLands ==
  ASSUME Prompt, Inv, Inv', TimedInv, NEW w \in Workers, HeartbeatLands(w)
  PROVE  TimedInv'
<1> DEFINE h == IF Held(worker[w].job, w, worker[w].age) THEN "quiet" ELSE "lost"
           p == [worker[w] EXCEPT !.hb = h]
           s == Outstanding(w)
<1>1. /\ worker[w].pc = "handling" /\ worker[w].hb = "sent" /\ worker[w].age <= Latency
      /\ Update(s) /\ UNCHANGED late /\ worker' = [worker EXCEPT ![w] = p]
      /\ HandlerTimed(w) /\ LateTimed(w) /\ worker[w] \in Process
  BY DEF HeartbeatLands, TimedInv, Inv, TypeOK
<1>2. ~Gone(w) /\ Busy(w) /\ InFlight(w)
  BY <1>1 DEF Gone, Busy, InFlight
<1>3. /\ s \in Statement /\ s.op = "heartbeat" /\ s.by = w /\ s.job = worker[w].job
      /\ s.age = worker[w].age /\ s.job \in Jobs /\ s.age \in 0 .. Latency
  BY <1>1, <1>2, OutstandingMeant DEF Inv, Outstanding, Statement
<1>4. \A v \in Workers, j \in Jobs : Spares(v, j)
  BY <1>1, <1>3, UpdateSpares
<1>5. /\ p.pc = "handling" /\ p.stopping = worker[w].stopping /\ p.job = worker[w].job
      /\ p.attempt = worker[w].attempt /\ p.hb = h /\ p.beat = worker[w].beat
  BY <1>1 DEF Process
<1>6. h \in {"quiet", "lost"}
  OBVIOUS
<1>7. ~worker[w].stopping /\ h = "quiet" =>
        /\ row'[worker[w].job].status = "running" /\ row'[worker[w].job].by = w
        /\ row'[worker[w].job].attempts = worker[w].attempt
        /\ row'[worker[w].job].lease >= Slack - worker[w].beat
  <2> SUFFICES ASSUME ~worker[w].stopping, h = "quiet"
               PROVE  /\ row'[worker[w].job].status = "running" /\ row'[worker[w].job].by = w
                      /\ row'[worker[w].job].attempts = worker[w].attempt
                      /\ row'[worker[w].job].lease >= Slack - worker[w].beat
    OBVIOUS
  <2>1. Holds(w, Reserve - worker[w].age)
    BY <1>1 DEF HandlerTimed, BeatsInTime
  <2>2. row' = [row EXCEPT ![s.job] = Renewed(row[s.job], s.age)]
    BY <1>1, <1>3 DEF Update, Effect
  <2>3. row'[s.job] = Renewed(row[s.job], s.age) /\ row[s.job] \in Row
    BY <1>3, <2>2 DEF Inv, TypeOK
  <2>4. /\ row'[s.job].status = "running" /\ row'[s.job].by = w
        /\ row'[s.job].attempts = worker[w].attempt
        /\ row'[s.job].lease = LeaseDuration - s.age
    BY <1>3, <2>1, <2>3 DEF Renewed, Row, Holds, HeldFor
  <2> QED  BY <1>1, <1>3, <2>4, Bounds DEF Process
<1> HIDE DEF h, p, s
<1>8. worker'[w] = p /\ \A v \in Workers \ {w} : worker'[v] = worker[v]
  BY <1>1 DEF Inv, TypeOK
<1>9. HandlerTimed(w)'
  BY <1>5, <1>6, <1>7, <1>8, <1>1
     DEF HandlerTimed, StopsWhenTold, BeatsInTime, AnswersInTime, Holds, HeldFor
<1>10. LateTimed(w)'
  <2>1. /\ LateAnswers(w)' = LateAnswers(w) /\ LateClaims(w)' = LateClaims(w)
    BY <1>1 DEF LateAnswers, LateClaims, LateBy
  <2>2. /\ \A t \in LateAnswers(w)' : Spares(w, t.job)
        /\ Spares(w, worker[w].job)
    BY <1>2, <1>4, <2>1, JobsMeant
  <2> QED  BY <1>1, <1>2, <1>5, <1>8, <2>1, <2>2, LateSpared
<1>11. \A v \in Workers : LateBy(v)' = LateBy(v)
  BY <1>1 DEF LateBy
<1> QED  BY <1>4, <1>8, <1>9, <1>10, <1>11, OneWorkerMoves

LEMMA TimedHeartbeatErrors ==
  ASSUME Prompt, Inv, Inv', TimedInv, NEW w \in Workers, HeartbeatErrors(w)
  PROVE  TimedInv'
<1> DEFINE p == [worker[w] EXCEPT !.hb = "lost"]
<1>1. /\ worker[w].pc = "handling" /\ UNCHANGED row /\ Abandon(w)
      /\ worker' = [worker EXCEPT ![w] = p] /\ worker[w] \in Process /\ LateTimed(w)
  BY DEF HeartbeatErrors, TimedInv, Inv, TypeOK
<1>2. ~Gone(w) /\ Busy(w)
  BY <1>1 DEF Gone, Busy
<1>3. /\ p.pc = "handling" /\ p.stopping = worker[w].stopping /\ p.job = worker[w].job
      /\ p.attempt = worker[w].attempt /\ p.hb = "lost"
  BY <1>1 DEF Process
<1> HIDE DEF p
<1>4. worker'[w] = p /\ \A v \in Workers \ {w} : worker'[v] = worker[v]
  BY <1>1 DEF Inv, TypeOK
<1>5. HandlerTimed(w)'
  BY <1>3, <1>4 DEF HandlerTimed, StopsWhenTold, BeatsInTime, AnswersInTime
<1>6. LateAnswers(w)' = LateAnswers(w) /\ LateClaims(w)' = LateClaims(w)
  <2>1. InFlight(w) => Outstanding(w).op = "heartbeat"
    BY <1>1 DEF Outstanding
  <2> QED  BY <1>1, <2>1 DEF Abandon, LateAnswers, LateClaims, LateBy
<1>7. \A v \in Workers : \A j : Spares(v, j)
  BY <1>1 DEF Spares
<1>8. LateTimed(w)'
  BY <1>1, <1>2, <1>3, <1>4, <1>6, <1>7, LateSpared
<1> QED  BY <1>1, <1>4, <1>5, <1>7, <1>8, AbandonIsOwn, OneWorkerMoves

\* A job w answered, but whose answer is still on its way, is not there to claim.
LEMMA TimedClaimLands ==
  ASSUME Prompt, Inv, Inv', TimedInv, NEW w \in Workers, ClaimLands(w)
  PROVE  TimedInv'
<1>1. PICK got \in Jobs \cup {NoJob} :
        /\ Claim(w, worker[w].age, got)
        /\ worker' = [worker EXCEPT ![w] =
             IF got = NoJob THEN Idle(w)
             ELSE [Idle(w) EXCEPT !.pc = "handling", !.job = got,
                                  !.attempt = row[got].attempts + 1]]
  BY DEF ClaimLands
<1>2. /\ worker[w].age \in 0 .. Latency /\ UNCHANGED late /\ ~Gone(w) /\ LateTimed(w)
  BY BoundAssumption DEF ClaimLands, Gone, Inv, TypeOK, Process, TimedInv
<1>3. \A v \in Workers, j \in Jobs : v # w \/ j # got => Spares(v, j)
  BY <1>1, <1>2, ClaimSpares
<1>4. \A v \in Workers \ {w} : /\ worker'[v] = worker[v] /\ LateBy(v)' = LateBy(v)
                               /\ \A j \in Jobs : Spares(v, j)
  BY <1>1, <1>2, <1>3 DEF Inv, TypeOK, LateBy
<1>5. /\ LateAnswers(w)' = LateAnswers(w) /\ LateClaims(w)' = LateClaims(w)
  BY <1>2 DEF LateAnswers, LateClaims, LateBy
<1>6. \A s \in LateAnswers(w) : s.job \in Jobs /\ s.job # got
  <2> SUFFICES ASSUME NEW s \in LateAnswers(w) PROVE s.job \in Jobs /\ s.job # got
    OBVIOUS
  <2>1. s.job \in Jobs /\ s.age \in 0 .. Latency
    BY JobsMeant
  <2>2. HeldFor(w, s.job, s.attempt, Reserve - s.age)
    BY <1>2 DEF LateTimed, LateAnswersInTime
  <2>3. Reserve - s.age \in Int /\ Reserve - s.age > 0
    BY <2>1, Bounds
  <2> QED  BY <1>1, <1>2, <2>1, <2>2, <2>3, ClaimNeedsExpiry
<1>7. \A s \in LateAnswers(w)' : Spares(w, s.job)
  BY <1>3, <1>5, <1>6
<1>8. CASE got = NoJob
  <2>1. ~Busy(w)'
    BY <1>1, <1>8 DEF Inv, TypeOK, Idle, Fresh, Busy
  <2>2. LateTimed(w)'
    BY <1>2, <1>5, <1>7, <2>1, LateSpared
  <2> QED  BY <1>4, <2>1, <2>2, JoblessTimed, OneWorkerMoves
<1>9. CASE got \in Jobs
  <2> DEFINE f == Idle(w)
             p == [f EXCEPT !.pc = "handling", !.job = got, !.attempt = row[got].attempts + 1]
  <2>1. worker' = [worker EXCEPT ![w] = p]
    BY <1>1, <1>9, NullAssumption
  <2>2. /\ p.pc = "handling" /\ p.job = got /\ p.attempt = row[got].attempts + 1
        /\ p.hb = "quiet" /\ p.beat = 0
    BY DEF Idle, Fresh
  <2> HIDE DEF p
  <2>3. worker'[w] = p
    BY <2>1 DEF Inv, TypeOK
  <2>4. /\ row[got] \in Row /\ row'[got] = Claimed(row[got], w, worker[w].age)
    BY <1>1, <1>9 DEF Claim, Inv, TypeOK
  <2>5. /\ row'[got].status = "running" /\ row'[got].by = w
        /\ row'[got].attempts = row[got].attempts + 1
        /\ row'[got].lease = LeaseDuration - worker[w].age
    BY <2>4 DEF Claimed, Row
  <2>6. row'[got].lease >= Slack /\ Slack - 0 = Slack
    BY <1>2, <2>5, Bounds
  <2>7. HandlerTimed(w)'
    BY <2>2, <2>3, <2>5, <2>6
       DEF HandlerTimed, StopsWhenTold, BeatsInTime, AnswersInTime, Holds, HeldFor
  <2>8. ASSUME NEW s \in LateAnswers(w)
        PROVE  /\ HeldFor(w, s.job, s.attempt, Reserve - s.age)'
               /\ OnlyFor(w, s.job, s.attempt)'
    <3>1. s.job \in Jobs /\ s.age \in 0 .. Latency /\ Spares(w, s.job)
      BY <1>5, <1>7, JobsMeant
    <3>2. HeldFor(w, s.job, s.attempt, Reserve - s.age)
      BY <1>2 DEF LateTimed, LateAnswersInTime
    <3>3. /\ Reserve - s.age \in Int /\ Reserve - s.age > 0 /\ Reserve - s.age <= Slack
      BY <3>1, Bounds
    <3>4. HeldFor(w, s.job, s.attempt, Reserve - s.age)'
      BY <3>1, <3>2, <3>3, SparedHeld DEF Inv, TypeOK
    <3> QED  BY <3>4 DEF HeldFor, OnlyFor
  <2>9. LateAnswersInTime(w)' /\ LateOwnAttempt(w)'
    BY <1>5, <2>8 DEF LateAnswersInTime, LateOwnAttempt
  <2>10. OneAnswer(w)'
    BY <1>2, <1>5, <1>6, <2>2, <2>3 DEF OneAnswer, LateTimed
  <2>11. OwnAttempt(w)'
    <3>1. \A c \in LateClaims(w) : row'[got].lease >= Slack - c.age
      <4> SUFFICES ASSUME NEW c \in LateClaims(w) PROVE row'[got].lease >= Slack - c.age
        OBVIOUS
      <4>1. c.age \in 0 .. Latency /\ row'[got].lease \in Int
        BY <1>2, <2>5, JobsMeant, Bounds
      <4> QED  BY <2>6, <4>1, Bounds
    <3> QED  BY <1>5, <2>2, <2>3, <2>5, <3>1 DEF OwnAttempt, OnlyFor, Holds, HeldFor
  <2> QED  BY <1>4, <2>7, <2>9, <2>10, <2>11, OneWorkerMoves DEF LateTimed
<1> QED  BY <1>8, <1>9

\* ClaimErrors, AckErrors, Crash: the process gives up, its statement may live on.
LEMMA TimedGiveUp ==
  ASSUME Prompt, Inv, Inv', TimedInv, NEW w \in Workers,
         ClaimErrors(w) \/ AckErrors(w) \/ Crash(w)
  PROVE  TimedInv'
<1>1. /\ UNCHANGED row /\ Abandon(w) /\ worker[w] \in Process
      /\ HandlerTimed(w) /\ LateTimed(w)
      /\ \/ worker' = [worker EXCEPT ![w] = Fresh("idle", worker[w].stopping)]
            /\ worker[w].pc \in {"claiming", "acking"}
         \/ worker' = [worker EXCEPT ![w] = Fresh("down", FALSE)] /\ worker[w].pc # "down"
  BY DEF ClaimErrors, AckErrors, Crash, Idle, TimedInv, Inv, TypeOK
<1>2. /\ \A v \in Workers \ {w} : worker'[v] = worker[v]
      /\ ~Busy(w)'
      /\ ~Gone(w)' => ~worker[w].stopping /\ ~Gone(w) /\ worker[w].pc \in {"claiming", "acking"}
  BY <1>1 DEF Inv, TypeOK, Fresh, Busy, Gone
<1>3. \A v \in Workers : \A j : Spares(v, j)
  BY <1>1 DEF Spares
<1>4. /\ HandlerTimed(w)' /\ OwnAttempt(w)'
  BY <1>2, JoblessTimed DEF OwnAttempt
<1>5. CASE LateAnswers(w)' = LateAnswers(w) /\ LateClaims(w)' = LateClaims(w)
  <2>1. LateTimed(w)'
    <3>1. Gone(w) => Gone(w)'
      BY <1>2
    <3> QED  BY <1>1, <1>2, <1>3, <1>5, <3>1, LateSpared
  <2> QED  BY <1>1, <1>2, <1>3, <1>4, <2>1, AbandonIsOwn, OneWorkerMoves
<1>6. CASE worker[w].pc = "claiming" /\ late' = late \cup {Outstanding(w)}
  <2> DEFINE o == Outstanding(w)
  <2>1. o.op = "claim" /\ o.by = w
    BY <1>6 DEF Outstanding
  <2>2. LateAnswers(w)' = LateAnswers(w) /\ LateClaims(w)' = LateClaims(w) \cup {o}
    BY <1>6, <2>1 DEF LateAnswers, LateClaims, LateBy
  <2>3. ~Gone(w)
    BY <1>6 DEF Gone
  <2>4. \A s \in LateAnswers(w) : HeldFor(w, s.job, s.attempt, Reserve - s.age)
    BY <1>1, <2>3 DEF LateTimed, LateAnswersInTime
  <2>5. LateAnswersInTime(w)' /\ LateOwnAttempt(w)'
    BY <1>1, <2>2, <2>4 DEF LateAnswersInTime, LateOwnAttempt, HeldFor, OnlyFor
  <2>6. OneAnswer(w)'
    BY <1>1, <1>2, <2>2 DEF LateTimed, OneAnswer
  <2> QED  BY <1>1, <1>2, <1>3, <1>4, <2>5, <2>6, AbandonIsOwn, OneWorkerMoves DEF LateTimed
<1>7. CASE worker[w].pc = "acking" /\ late' = late \cup {Outstanding(w)}
  <2> DEFINE o == Outstanding(w)
  <2>1. /\ o.op \in {"succeed", "fail"} /\ o.by = w /\ o.job = worker[w].job
        /\ o.attempt = worker[w].attempt /\ o.age = worker[w].age
    BY <1>7 DEF Outstanding
  <2> HIDE DEF o
  <2>2. LateAnswers(w)' = LateAnswers(w) \cup {o} /\ LateClaims(w)' = LateClaims(w)
    BY <1>7, <2>1 DEF LateAnswers, LateClaims, LateBy, o
  <2>3. Busy(w)
    BY <1>7 DEF Busy
  <2>4. OneAnswer(w)'
    BY <1>1, <1>2, <2>1, <2>2, <2>3 DEF LateTimed, OneAnswer
  <2>5. LateAnswersInTime(w)'
    <3> SUFFICES ASSUME ~Gone(w)', NEW s \in LateAnswers(w)'
                 PROVE  HeldFor(w, s.job, s.attempt, Reserve - s.age)'
      BY DEF LateAnswersInTime
    <3>1. CASE s = o
      <4>1. Holds(w, Reserve - worker[w].age)
        BY <1>1, <1>2, <1>7 DEF HandlerTimed, AnswersInTime
      <4> QED  BY <1>1, <2>1, <3>1, <4>1 DEF Holds, HeldFor
    <3>2. CASE s \in LateAnswers(w)
      <4>1. HeldFor(w, s.job, s.attempt, Reserve - s.age)
        BY <1>1, <1>2, <3>2 DEF LateTimed, LateAnswersInTime
      <4> QED  BY <1>1, <4>1 DEF HeldFor
    <3> QED  BY <2>2, <3>1, <3>2
  <2>6. LateOwnAttempt(w)'
    <3> SUFFICES ASSUME NEW s \in LateAnswers(w)'
                 PROVE  /\ OnlyFor(w, s.job, s.attempt)'
                        /\ \A c \in LateClaims(w)' :
                             \/ HeldFor(w, s.job, s.attempt, Reserve - s.age)'
                             \/ HeldFor(w, s.job, s.attempt, Slack - c.age)'
      BY DEF LateOwnAttempt
    <3>1. CASE s = o
      BY <1>1, <2>1, <2>2, <2>3, <3>1
         DEF LateTimed, OwnAttempt, Holds, HeldFor, OnlyFor
    <3>2. CASE s \in LateAnswers(w)
      BY <1>1, <2>2, <3>2 DEF LateTimed, LateOwnAttempt, HeldFor, OnlyFor
    <3> QED  BY <2>2, <3>1, <3>2
  <2> QED  BY <1>1, <1>2, <1>3, <1>4, <2>4, <2>5, <2>6, AbandonIsOwn, OneWorkerMoves
           DEF LateTimed
<1>8. CASE worker[w].pc = "handling" /\ late' = late \cup {Outstanding(w)}
  <2>1. Outstanding(w).op = "heartbeat"
    BY <1>8 DEF Outstanding
  <2>2. LateAnswers(w)' = LateAnswers(w) /\ LateClaims(w)' = LateClaims(w)
    BY <1>8, <2>1 DEF LateAnswers, LateClaims, LateBy
  <2> QED  BY <1>5, <2>2
<1>9. CASE UNCHANGED late
  BY <1>5, <1>9 DEF LateAnswers, LateClaims, LateBy
<1> QED  BY <1>1, <1>6, <1>7, <1>8, <1>9 DEF Abandon, InFlight

\* An answer that lands ends its own attempt and touches no other answer's row.
LEMMA TimedAckLands ==
  ASSUME Prompt, Inv, Inv', TimedInv, NEW w \in Workers, AckLands(w)
  PROVE  TimedInv'
<1> DEFINE s == Outstanding(w)
<1>1. /\ worker[w].pc = "acking" /\ worker[w].age <= Latency /\ Update(s) /\ UNCHANGED late
      /\ worker' = [worker EXCEPT ![w] = Idle(w)] /\ LateTimed(w)
  BY DEF AckLands, TimedInv
<1>2. ~Gone(w) /\ Busy(w) /\ InFlight(w)
  BY <1>1 DEF Gone, Busy, InFlight
<1>3. s \in Statement /\ s.op # "claim" /\ s.by = w /\ s.job = worker[w].job /\ s.job \in Jobs
  BY <1>1, <1>2, OutstandingMeant DEF Inv
<1> HIDE DEF s
<1>4. \A v \in Workers, j \in Jobs : v # w \/ j # s.job => Spares(v, j)
  BY <1>1, <1>3, UpdateSpares
<1>5. ~Busy(w)' /\ \A v \in Workers \ {w} : worker'[v] = worker[v]
  BY <1>1 DEF Inv, TypeOK, Idle, Fresh, Busy
<1>6. \A v \in Workers : LateBy(v)' = LateBy(v)
  BY <1>1 DEF LateBy
<1>7. LateAnswers(w)' = LateAnswers(w) /\ LateClaims(w)' = LateClaims(w)
  BY <1>6 DEF LateAnswers, LateClaims
<1>8. \A t \in LateAnswers(w) : t.job \in Jobs /\ t.job # s.job
  BY <1>1, <1>2, <1>3, JobsMeant DEF LateTimed, OneAnswer
<1>9. LateTimed(w)'
  <2>1. \A t \in LateAnswers(w)' : Spares(w, t.job)
    BY <1>4, <1>7, <1>8
  <2> QED  BY <1>1, <1>2, <1>5, <1>7, <2>1, LateSpared
<1> QED  BY <1>4, <1>5, <1>6, <1>9, JoblessTimed, OneWorkerMoves

\* A statement nobody waits for finds its attempt current, or the row taken from its sender.
LEMMA TimedLateLands ==
  ASSUME Prompt, Inv, Inv', TimedInv, NEW s \in late, LateLands(s)
  PROVE  TimedInv'
<1> DEFINE w == s.by
<1>1. /\ s \in Statement /\ w \in Workers /\ s.age \in 0 .. Latency
      /\ UNCHANGED worker /\ late' = late \ {s}
  BY DEF LateLands, Inv, TypeOK, Statement
<1>2. /\ HandlerTimed(w) /\ LateTimed(w) /\ s \in LateBy(w)
  BY <1>1 DEF TimedInv, LateBy
<1>3. \A v \in Workers \ {w} : worker'[v] = worker[v] /\ LateBy(v)' = LateBy(v)
  BY <1>1 DEF LateBy
<1>4. /\ LateAnswers(w)' = LateAnswers(w) \ {s} /\ LateClaims(w)' = LateClaims(w) \ {s}
      /\ Gone(w)' = Gone(w) /\ Busy(w)' = Busy(w) /\ worker'[w] = worker[w]
  BY <1>1 DEF LateAnswers, LateClaims, LateBy, Gone, Busy
<1>5. /\ \A v \in Workers \ {w}, j \in Jobs : Spares(v, j)
      /\ \A t \in LateAnswers(w) \ {s} : Spares(w, t.job)
      /\ Busy(w) => Spares(w, worker[w].job)
  <2>1. CASE s.op = "claim"
    <3>1. PICK got \in Jobs \cup {NoJob} : Claim(w, s.age, got)
      BY <2>1 DEF LateLands
    <3>2. \A v \in Workers, j \in Jobs : v # w \/ j # got => Spares(v, j)
      BY <1>1, <3>1, ClaimSpares
    <3>3. s \in LateClaims(w)
      BY <1>2, <2>1 DEF LateClaims
    <3>4. ASSUME NEW t \in LateAnswers(w)
          PROVE  t.job \in Jobs /\ t.job # got
      <4>1. t.job \in Jobs /\ t.age \in 0 .. Latency
        BY <1>1, JobsMeant
      <4>2. \/ HeldFor(w, t.job, t.attempt, Reserve - t.age)
            \/ HeldFor(w, t.job, t.attempt, Slack - s.age)
        BY <1>2, <3>3 DEF LateTimed, LateOwnAttempt
      <4>3. /\ Reserve - t.age \in Int /\ Reserve - t.age > 0
            /\ Slack - s.age \in Int /\ Slack - s.age > 0
        BY <1>1, <4>1, Bounds
      <4> QED  BY <1>1, <3>1, <4>1, <4>2, <4>3, ClaimNeedsExpiry
    <3>5. ASSUME Busy(w)
          PROVE  worker[w].job \in Jobs /\ worker[w].job # got
      <4>1. worker[w].job \in Jobs /\ Slack - s.age \in Int /\ Slack - s.age > 0
        BY <1>1, <3>5, JobsMeant, Bounds
      <4>2. HeldFor(w, worker[w].job, worker[w].attempt, Slack - s.age)
        BY <1>2, <3>3, <3>5 DEF LateTimed, OwnAttempt, Holds
      <4> QED  BY <1>1, <3>1, <4>1, <4>2, ClaimNeedsExpiry
    <3> QED  BY <1>1, <3>2, <3>4, <3>5
  <2>2. CASE s.op # "claim"
    <3>1. Update(s) /\ s.job \in Jobs
      BY <2>2 DEF LateLands, Inv, AnswersMeant
    <3>2. \A v \in Workers, j \in Jobs : v # w \/ s.op = "heartbeat" \/ j # s.job => Spares(v, j)
      BY <1>1, <2>2, <3>1, UpdateSpares
    <3>3. CASE s.op = "heartbeat"
      BY <1>1, <3>2, <3>3, JobsMeant
    <3>4. CASE s.op # "heartbeat"
      <4>1. s \in LateAnswers(w)
        BY <1>1, <1>2, <2>2, <3>4 DEF LateAnswers, Statement
      <4>2. \A t \in LateAnswers(w) \ {s} : t.job \in Jobs /\ t.job # s.job
        BY <1>1, <1>2, <4>1, JobsMeant DEF LateTimed, OneAnswer
      <4>3. Busy(w) => worker[w].job \in Jobs /\ worker[w].job # s.job
        BY <1>1, <1>2, <4>1, JobsMeant DEF LateTimed, OneAnswer
      <4> QED  BY <1>1, <3>2, <4>2, <4>3
    <3> QED  BY <3>3, <3>4
  <2> QED  BY <2>1, <2>2
<1> HIDE DEF w
<1>6. HandlerTimed(w)'
  BY <1>1, <1>2, <1>4, <1>5, HandlerSpared
<1>7. LateTimed(w)'
  BY <1>1, <1>2, <1>4, <1>5, LateSpared
<1> QED  BY <1>1, <1>3, <1>5, <1>6, <1>7, OneWorkerMoves

-----------------------------------------------------------------------------
(* Time. *)

\* A lease loses at most one tick, and nothing else of the row changes.
LEMMA TickRow ==
  ASSUME Prompt, Inv, Tick, NEW j \in Jobs, NEW w, NEW n, NEW d \in Int
  PROVE  /\ HeldFor(w, j, n, d) => HeldFor(w, j, n, d - 1)'
         /\ OnlyFor(w, j, n) => OnlyFor(w, j, n)'
<1>1. row[j] \in Row /\ row[j].lease \in Int
  BY DEF Inv, TypeOK, Row
<1>2. /\ row'[j].status = row[j].status /\ row'[j].by = row[j].by
      /\ row'[j].attempts = row[j].attempts
      /\ row[j].status = "running" => row'[j].lease = Down(row[j].lease)
  BY <1>1 DEF Tick, Row
<1>3. Down(row[j].lease) \in Int /\ Down(row[j].lease) >= row[j].lease - 1
  BY <1>1 DEF Down
<1> QED  BY <1>1, <1>2, <1>3 DEF HeldFor, OnlyFor

LEMMA TickLate ==
  ASSUME Inv, Tick, NEW w \in Workers
  PROVE  /\ \A s \in LateBy(w)' : \E t \in LateBy(w) : s = [t EXCEPT !.age = t.age + 1]
         /\ \A s \in LateAnswers(w)' :
              \E t \in LateAnswers(w) : s = [t EXCEPT !.age = t.age + 1]
         /\ \A s \in LateClaims(w)' : \E t \in LateClaims(w) : s = [t EXCEPT !.age = t.age + 1]
<1>1. \A s \in late' : \E t \in late : t \in Statement /\ s = [t EXCEPT !.age = t.age + 1]
  BY DEF Tick, Inv, TypeOK
<1>2. \A t \in Statement : /\ [t EXCEPT !.age = t.age + 1].op = t.op
                           /\ [t EXCEPT !.age = t.age + 1].by = t.by
  BY DEF Statement
<1>3. ASSUME NEW s \in LateBy(w)'
      PROVE  \E t \in LateBy(w) : s.op = t.op /\ s = [t EXCEPT !.age = t.age + 1]
  <2>1. s \in late' /\ s.by = w
    BY DEF LateBy
  <2>2. PICK t \in late : t \in Statement /\ s = [t EXCEPT !.age = t.age + 1]
    BY <1>1, <2>1
  <2>3. s.op = t.op /\ t \in LateBy(w)
    BY <1>2, <2>1, <2>2 DEF LateBy
  <2> QED  BY <2>2, <2>3
<1>4. /\ \A s \in LateAnswers(w)' : s \in LateBy(w)' /\ s.op \in {"succeed", "fail"}
      /\ \A s \in LateClaims(w)' : s \in LateBy(w)' /\ s.op = "claim"
  BY DEF LateAnswers, LateClaims
<1> QED  BY <1>3, <1>4 DEF LateAnswers, LateClaims

\* No timer is due, so the ticker or the timeout advances with the lease.
LEMMA TimedTick ==
  ASSUME Prompt, Inv, Inv', TimedInv, Tick
  PROVE  TimedInv'
<1> SUFFICES ASSUME NEW w \in Workers PROVE HandlerTimed(w)' /\ LateTimed(w)'
  BY DEF TimedInv
<1> DEFINE p == worker[w]
           q == worker'[w]
<1>1. /\ p \in Process /\ HandlerTimed(w) /\ LateTimed(w) /\ ~Due(w)
  BY DEF Inv, TypeOK, TimedInv, Tick, Prompt
<1>2. /\ q.pc = p.pc /\ q.job = p.job /\ q.attempt = p.attempt /\ q.hb = p.hb
      /\ q.stopping = p.stopping
      /\ p.pc = "handling" /\ p.beat < HeartbeatInterval => q.beat = p.beat + 1
      /\ InFlight(w) /\ p.age <= Latency => q.age = p.age + 1
  BY <1>1 DEF Tick, Process
<1>3. Busy(w)' = Busy(w) /\ Gone(w)' = Gone(w)
  BY <1>2 DEF Busy, Gone
<1>4. Busy(w) => p.job \in Jobs
  BY JobsMeant
<1>5. ASSUME NEW d \in Int, Busy(w), Holds(w, d)
      PROVE  Holds(w, d - 1)'
  <2>1. PICK j \in Jobs, n \in Nat : j = p.job /\ n = p.attempt
    BY <1>1, <1>4, <1>5 DEF Process
  <2>2. HeldFor(w, j, n, d - 1)'
    BY <1>5, <2>1, TickRow DEF Holds
  <2> QED  BY <1>2, <2>1, <2>2 DEF Holds
<1>6. HandlerTimed(w)'
  <2>1. StopsWhenTold(w)'
    BY <1>1, <1>2 DEF HandlerTimed, StopsWhenTold
  <2>2. ASSUME p.pc = "handling", ~p.stopping, p.hb = "quiet"
        PROVE  Holds(w, Slack - worker[w].beat)'
    <3>1. p.beat \in Nat /\ p.beat < HeartbeatInterval
      BY <1>1, <2>2, Bounds DEF Due, Process
    <3>2. q.beat = p.beat + 1 /\ Slack - q.beat = (Slack - p.beat) - 1 /\ Slack - p.beat \in Int
      BY <1>2, <2>2, <3>1, Bounds
    <3>3. Busy(w) /\ Holds(w, Slack - p.beat)
      BY <1>1, <2>2 DEF HandlerTimed, BeatsInTime, Busy
    <3>4. PICK d \in Int : d = Slack - p.beat
      BY <3>2
    <3>5. Holds(w, d - 1)'
      BY <1>5, <3>3, <3>4
    <3> QED  BY <3>2, <3>4, <3>5 DEF Holds, HeldFor
  <2>3. ASSUME ~p.stopping, p.pc = "acking" \/ (p.pc = "handling" /\ p.hb = "sent")
        PROVE  q.age <= AckTimeout /\ Holds(w, Reserve - worker[w].age)'
    <3>1. p.age \in Nat /\ p.age < AckTimeout /\ InFlight(w)
      BY <1>1, <2>3, Bounds DEF Due, Process, InFlight
    <3>2. /\ q.age = p.age + 1 /\ q.age <= AckTimeout
          /\ Reserve - q.age = (Reserve - p.age) - 1 /\ Reserve - p.age \in Int
      BY <1>2, <3>1, Bounds
    <3>3. Busy(w) /\ Holds(w, Reserve - p.age)
      BY <1>1, <2>3 DEF HandlerTimed, BeatsInTime, AnswersInTime, Busy
    <3>4. PICK d \in Int : d = Reserve - p.age
      BY <3>2
    <3>5. Holds(w, d - 1)'
      BY <1>5, <3>3, <3>4
    <3> QED  BY <3>2, <3>4, <3>5 DEF Holds, HeldFor
  <2> QED  BY <1>2, <2>1, <2>2, <2>3 DEF HandlerTimed, BeatsInTime, AnswersInTime
<1>7. \A t \in LateBy(w) : /\ t \in Statement /\ t.age \in 0 .. Latency
                           /\ Reserve - t.age \in Int /\ Slack - t.age \in Int
                           /\ [t EXCEPT !.age = t.age + 1].job = t.job
                           /\ [t EXCEPT !.age = t.age + 1].attempt = t.attempt
                           /\ [t EXCEPT !.age = t.age + 1].age = t.age + 1
                           /\ Reserve - (t.age + 1) = (Reserve - t.age) - 1
                           /\ Slack - (t.age + 1) = (Slack - t.age) - 1
  <2> SUFFICES ASSUME NEW t \in LateBy(w)
               PROVE  /\ t \in Statement /\ t.age \in 0 .. Latency
                      /\ Reserve - t.age \in Int /\ Slack - t.age \in Int
                      /\ [t EXCEPT !.age = t.age + 1].job = t.job
                      /\ [t EXCEPT !.age = t.age + 1].attempt = t.attempt
                      /\ [t EXCEPT !.age = t.age + 1].age = t.age + 1
                      /\ Reserve - (t.age + 1) = (Reserve - t.age) - 1
                      /\ Slack - (t.age + 1) = (Slack - t.age) - 1
    OBVIOUS
  <2>1. t \in Statement /\ t.age \in 0 .. Latency
    BY JobsMeant
  <2> QED  BY <2>1, Bounds DEF Statement
<1>8. LateAnswersInTime(w)'
  <2> SUFFICES ASSUME ~Gone(w), NEW s \in LateAnswers(w)'
               PROVE  HeldFor(w, s.job, s.attempt, Reserve - s.age)'
    BY <1>3 DEF LateAnswersInTime
  <2>1. PICK t \in LateAnswers(w) : s = [t EXCEPT !.age = t.age + 1]
    BY TickLate
  <2>2. t \in LateBy(w) /\ t.job \in Jobs
    BY JobsMeant
  <2>3. HeldFor(w, t.job, t.attempt, Reserve - t.age)
    BY <1>1 DEF LateTimed, LateAnswersInTime
  <2>4. HeldFor(w, t.job, t.attempt, (Reserve - t.age) - 1)'
    BY <1>7, <2>2, <2>3, TickRow
  <2> QED  BY <1>7, <2>1, <2>2, <2>4
<1>9. OneAnswer(w)'
  <2>1. ASSUME NEW s \in LateAnswers(w)', NEW u \in LateAnswers(w)', s.job = u.job
        PROVE  s = u
    <3>1. PICK t \in LateAnswers(w) : s = [t EXCEPT !.age = t.age + 1]
      BY TickLate
    <3>2. PICK v \in LateAnswers(w) : u = [v EXCEPT !.age = v.age + 1]
      BY TickLate
    <3>3. t.job = v.job
      BY <1>7, <2>1, <3>1, <3>2, JobsMeant
    <3> QED  BY <1>1, <3>1, <3>2, <3>3 DEF LateTimed, OneAnswer
  <2>2. ASSUME Busy(w), NEW s \in LateAnswers(w)'
        PROVE  s.job # p.job
    <3>1. PICK t \in LateAnswers(w) : s = [t EXCEPT !.age = t.age + 1]
      BY TickLate
    <3> QED  BY <1>1, <1>7, <2>2, <3>1, JobsMeant DEF LateTimed, OneAnswer
  <2> QED  BY <1>2, <1>3, <2>1, <2>2 DEF OneAnswer
<1>10. OwnAttempt(w)'
  <2> SUFFICES ASSUME Busy(w)
               PROVE  /\ OnlyFor(w, worker[w].job, worker[w].attempt)'
                      /\ \A c \in LateClaims(w)' : Holds(w, Slack - c.age)'
    BY <1>3 DEF OwnAttempt
  <2>1. OnlyFor(w, worker[w].job, worker[w].attempt)'
    <3>1. PICK j \in Jobs, n \in Nat : j = p.job /\ n = p.attempt
      BY <1>1, <1>4 DEF Process
    <3>2. OnlyFor(w, j, n)
      BY <1>1, <3>1 DEF LateTimed, OwnAttempt
    <3>3. OnlyFor(w, j, n)'
      BY <3>2, 0 \in Int, TickRow
    <3> QED  BY <1>2, <3>1, <3>3
  <2>2. ASSUME NEW c \in LateClaims(w)'
        PROVE  Holds(w, Slack - c.age)'
    <3>1. PICK t \in LateClaims(w) : c = [t EXCEPT !.age = t.age + 1]
      BY TickLate
    <3>2. t \in LateBy(w) /\ Holds(w, Slack - t.age)
      BY <1>1, JobsMeant DEF LateTimed, OwnAttempt
    <3>3. Holds(w, (Slack - t.age) - 1)'
      BY <1>5, <1>7, <3>2
    <3> QED  BY <1>7, <3>1, <3>2, <3>3
  <2> QED  BY <2>1, <2>2
<1>11. LateOwnAttempt(w)'
  <2> SUFFICES ASSUME NEW s \in LateAnswers(w)'
               PROVE  /\ OnlyFor(w, s.job, s.attempt)'
                      /\ \A c \in LateClaims(w)' :
                           \/ HeldFor(w, s.job, s.attempt, Reserve - s.age)'
                           \/ HeldFor(w, s.job, s.attempt, Slack - c.age)'
    BY DEF LateOwnAttempt
  <2>1. PICK t \in LateAnswers(w) : s = [t EXCEPT !.age = t.age + 1]
    BY TickLate
  <2>2. t \in LateBy(w) /\ t.job \in Jobs /\ s.job = t.job /\ s.attempt = t.attempt
    BY <1>7, <2>1, JobsMeant
  <2>3. OnlyFor(w, s.job, s.attempt)'
    <3>1. OnlyFor(w, t.job, t.attempt)
      BY <1>1 DEF LateTimed, LateOwnAttempt
    <3>2. OnlyFor(w, t.job, t.attempt)'
      BY <2>2, <3>1, 0 \in Int, TickRow
    <3> QED  BY <2>2, <3>2
  <2>4. ASSUME NEW c \in LateClaims(w)'
        PROVE  \/ HeldFor(w, s.job, s.attempt, Reserve - s.age)'
               \/ HeldFor(w, s.job, s.attempt, Slack - c.age)'
    <3>1. PICK u \in LateClaims(w) : c = [u EXCEPT !.age = u.age + 1]
      BY TickLate
    <3>2. u \in LateBy(w)
      BY JobsMeant
    <3>3. \/ HeldFor(w, t.job, t.attempt, Reserve - t.age)
          \/ HeldFor(w, t.job, t.attempt, Slack - u.age)
      BY <1>1 DEF LateTimed, LateOwnAttempt
    <3>4. \/ HeldFor(w, t.job, t.attempt, (Reserve - t.age) - 1)'
          \/ HeldFor(w, t.job, t.attempt, (Slack - u.age) - 1)'
      BY <1>7, <2>2, <3>2, <3>3, TickRow
    <3> QED  BY <1>7, <2>1, <2>2, <3>1, <3>2, <3>4
  <2> QED  BY <2>3, <2>4
<1> QED  BY <1>6, <1>8, <1>9, <1>10, <1>11 DEF LateTimed

-----------------------------------------------------------------------------
LEMMA InitTimed == Init => TimedInv
<1> SUFFICES ASSUME Init, NEW w \in Workers PROVE HandlerTimed(w) /\ LateTimed(w)
  BY DEF TimedInv
<1>1. worker[w].pc = "idle"
  BY DEF Init, Fresh
<1>2. LateAnswers(w) = {} /\ ~Busy(w)
  BY <1>1 DEF Init, LateAnswers, LateBy, Busy
<1>3. HandlerTimed(w)
  BY <1>1 DEF HandlerTimed, StopsWhenTold, BeatsInTime, AnswersInTime
<1>4. LateTimed(w)
  BY <1>2 DEF LateTimed, LateAnswersInTime, OneAnswer, OwnAttempt, LateOwnAttempt
<1> QED  BY <1>3, <1>4

LEMMA NextTimed == Prompt /\ Inv /\ Inv' /\ TimedInv /\ [Next]_vars => TimedInv'
<1> SUFFICES ASSUME Prompt, Inv, Inv', TimedInv, [Next]_vars PROVE TimedInv'
  OBVIOUS
<1>1. CASE \E j \in Jobs : Enqueue(j)
  BY <1>1, TimedEnqueue
<1>2. ASSUME NEW w \in Workers, WorkerStep(w)
      PROVE  TimedInv'
  <2>1. ~Restart(w)
    BY DEF Prompt, Restart
  <2> QED  BY <1>2, <2>1, TimedJobless, TimedClaimLands, TimedGiveUp, TimedSendHeartbeat,
              TimedHeartbeatLands, TimedHeartbeatErrors, TimedHeartbeatStops,
              TimedHandlerReturns, TimedFinish, TimedAckLands, TimedShutdown DEF WorkerStep
<1>3. CASE \E s \in late : LateLands(s)
  BY <1>3, TimedLateLands
<1>4. CASE Tick
  BY <1>4, TimedTick
<1>5. CASE UNCHANGED vars
  <2>1. \A w \in Workers, j \in Jobs : Spares(w, j)
    BY <1>5 DEF vars, Spares
  <2>2. \A w \in Workers : worker'[w] = worker[w] /\ LateBy(w)' = LateBy(w)
    BY <1>5 DEF vars, LateBy
  <2> QED  BY <2>1, <2>2, OtherKept DEF TimedInv
<1> QED  BY <1>1, <1>2, <1>3, <1>4, <1>5 DEF Next

LEMMA TimedOwns ==
  ASSUME Prompt, Inv, TimedInv
  PROVE  LiveHandlerOwnsJob
<1> SUFFICES ASSUME NEW w \in Workers, Live(w)
             PROVE  /\ row[worker[w].job].status = "running" /\ row[worker[w].job].by = w
                    /\ Current(w) /\ row[worker[w].job].lease > 0
  BY DEF LiveHandlerOwnsJob
<1>1. /\ worker[w].pc = "handling" /\ ~worker[w].stopping /\ worker[w] \in Process
      /\ worker[w].hb \in {"quiet", "sent"} /\ HandlerTimed(w)
  BY DEF Live, Cancelled, Inv, TypeOK, TimedInv, HandlerTimed, StopsWhenTold, Process
<1>2. row[worker[w].job].lease \in Int
  BY <1>1, JobsMeant DEF Busy, Inv, TypeOK, Row
<1>3. CASE worker[w].hb = "quiet"
  <2>1. Holds(w, Slack - worker[w].beat) /\ Slack - worker[w].beat > 0
        /\ Slack - worker[w].beat \in Int
    BY <1>1, <1>3, Bounds DEF HandlerTimed, BeatsInTime, Process
  <2> QED  BY <1>2, <2>1 DEF Holds, HeldFor, Current
<1>4. CASE worker[w].hb = "sent"
  <2>1. worker[w].age <= AckTimeout /\ Holds(w, Reserve - worker[w].age)
    BY <1>1, <1>4 DEF HandlerTimed, BeatsInTime
  <2>2. Reserve - worker[w].age > 0 /\ Reserve - worker[w].age \in Int
    BY <1>1, <2>1, Bounds DEF Process
  <2> QED  BY <1>2, <2>1, <2>2 DEF Holds, HeldFor, Current
<1> QED  BY <1>1, <1>3, <1>4

\* With timers on time, IDs not reused and a lease longer than a heartbeat interval and two
\* network delays, a handler nobody cancelled owns its job.
THEOREM LiveHandlerOwnsJobHolds == Prompt => (Spec => []LiveHandlerOwnsJob)
<1>1. SUFFICES ASSUME Prompt PROVE Spec => []LiveHandlerOwnsJob
  OBVIOUS
<1>2. Init => Inv /\ TimedInv
  BY <1>1, InitInv, InitTimed
<1>3. Inv /\ TimedInv /\ [Next]_vars => (Inv /\ TimedInv)'
  BY <1>1, NextInv, NextTimed
<1>4. Inv /\ TimedInv => LiveHandlerOwnsJob
  BY <1>1, TimedOwns
<1> QED  BY <1>2, <1>3, <1>4, PTL DEF Spec

\* The invariant, read at the steps that settle a row.
LEMMA AnswerMeetsAttempt ==
  ASSUME Prompt, Inv, TimedInv, [Next]_vars
  PROVE  /\ \A w \in Workers : AckLands(w) /\ row' # row => Current(w)
         /\ \A s \in late : LateLands(s) /\ s.op \in {"succeed", "fail"} /\ row' # row
              => s.attempt = row[s.job].attempts
<1>1. ASSUME NEW w \in Workers, AckLands(w), row' # row
      PROVE  Current(w)
  <2>1. /\ Held(worker[w].job, w, worker[w].age) /\ Busy(w)
    BY <1>1 DEF AckLands, Update, Outstanding, Busy
  <2> QED  BY <2>1 DEF Held, TimedInv, LateTimed, OwnAttempt, OnlyFor, Current
<1>2. ASSUME NEW s \in late, LateLands(s), s.op \in {"succeed", "fail"}, row' # row
      PROVE  s.attempt = row[s.job].attempts
  <2>1. Held(s.job, s.by, s.age) /\ s.by \in Workers
    BY <1>2 DEF LateLands, Update, Inv, TypeOK, Statement
  <2>2. s \in LateAnswers(s.by)
    BY <1>2 DEF LateAnswers, LateBy
  <2> QED  BY <2>1, <2>2 DEF Held, TimedInv, LateTimed, LateOwnAttempt, OnlyFor
<1> QED  BY <1>1, <1>2

\* So Succeed and Fail settle the row only for the attempt they report, even late.
THEOREM AcksSettleOwnAttemptHolds == Prompt => (Spec => AcksSettleOwnAttempt)
<1>1. SUFFICES ASSUME Prompt PROVE Spec => AcksSettleOwnAttempt
  OBVIOUS
<1>2. Init => Inv /\ TimedInv
  BY <1>1, InitInv, InitTimed
<1>3. Inv /\ TimedInv /\ [Next]_vars => (Inv /\ TimedInv)'
  BY <1>1, NextInv, NextTimed
<1>4. Inv /\ TimedInv /\ [Next]_vars =>
        [/\ \A w \in Workers : AckLands(w) /\ row' # row => Current(w)
         /\ \A s \in late : LateLands(s) /\ s.op \in {"succeed", "fail"} /\ row' # row
              => s.attempt = row[s.job].attempts]_vars
  BY <1>1, AnswerMeetsAttempt
<1> QED  BY <1>2, <1>3, <1>4, PTL DEF Spec, AcksSettleOwnAttempt
=============================================================================
