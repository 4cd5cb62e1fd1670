----------------------------- MODULE Scheduling -----------------------------
(***************************************************************************)
(* The periodic cleanups of the worker processes (cmd/worker/main.go).     *)
(* Every process enqueues one at its start and one at each tick of its own *)
(* ticker, which it starts later; the job is named after the interval that *)
(* the tick falls into, so that processes whose tickers differ share one   *)
(* job an interval.  One of the two kinds of cleanup is followed.          *)
(***************************************************************************)
EXTENDS Integers, FiniteSets

CONSTANTS Processes,
          Interval,      \* of the cleanup, in units of the clock
          MaxTime        \* bound: the clock

SchedulingAssumption == Interval \in Nat \ {0} /\ MaxTime \in Nat

VARIABLES now,
          process,       \* each process: what it has done, when it read the clock, when its ticker
                         \* was started, the ticker's next tick, the tick in the channel
          jobs,          \* the jobs: intervals that have one
          lost           \* history variable: intervals a tick of which was dropped, or whose
                         \* insertion failed

vars == <<now, process, jobs, lost>>

None == -1
Down == [pc |-> "down", since |-> None, ticker |-> None, next |-> None, tick |-> None]

Init ==
  /\ now = 0
  /\ process = [w \in Processes |-> Down]
  /\ jobs = {} /\ lost = {}

\* A plausible bug, never used here: Round for Truncate.
BucketRounded(t) == ((t + Interval \div 2) \div Interval) * Interval

\* Time.Truncate: the start of the interval, and the deduplication key of the job.
Bucket(t) == (t \div Interval) * Interval

\* The insertion, or a conflict with the job of another process, or an error.
Enqueue(t) == jobs' = jobs \cup {Bucket(t)} /\ UNCHANGED lost
EnqueueFails(t) == lost' = lost \cup {t} /\ jobs' \in {jobs, jobs \cup {Bucket(t)}}

\* A process reads the clock ...
Start(w) ==
  /\ process[w] = Down
  /\ process' = [process EXCEPT ![w] = [Down EXCEPT !.pc = "booting", !.since = now]]
  /\ UNCHANGED <<now, jobs, lost>>

\* ... inserts its first job, or ends when it cannot, with or without the job ...
EnqueueFirst(w) ==
  /\ process[w].pc = "booting"
  /\ \/ /\ Enqueue(process[w].since)
        /\ process' = [process EXCEPT ![w].pc = "enqueued"]
     \/ /\ jobs' \in {jobs, jobs \cup {Bucket(process[w].since)}} /\ UNCHANGED lost
        /\ process' = [process EXCEPT ![w] = Down]
  /\ UNCHANGED now

\* ... and starts the ticker in a goroutine, after the first job of the other cleanup.
StartTicker(w) ==
  /\ process[w].pc = "enqueued"
  /\ process' = [process EXCEPT ![w].pc = "running", ![w].ticker = now,
                                ![w].next = now + Interval]
  /\ UNCHANGED <<now, jobs, lost>>

\* The channel of a ticker holds one tick: the next is dropped while the scheduler is still busy.
Advance ==
  /\ now < MaxTime
  /\ now' = now + 1
  /\ LET ticking == {w \in Processes : process[w].next = now + 1}
     IN /\ process' = [w \in Processes |->
             IF w \notin ticking THEN process[w]
             ELSE [process[w] EXCEPT !.next = @ + Interval,
                                     !.tick = IF @ = None THEN now + 1 ELSE @]]
        /\ lost' = IF \E w \in ticking : process[w].tick # None THEN lost \cup {now + 1} ELSE lost
  /\ UNCHANGED jobs

\* scheduleMediaCleanup and scheduleExportCleanup use the time of the tick, however late.
Schedule(w) ==
  /\ process[w].tick # None
  /\ Enqueue(process[w].tick) \/ EnqueueFails(process[w].tick)
  /\ process' = [process EXCEPT ![w].tick = None]
  /\ UNCHANGED now

Stop(w) ==
  /\ process[w] # Down
  /\ process' = [process EXCEPT ![w] = Down]
  /\ UNCHANGED <<now, jobs, lost>>

Next ==
  \/ Advance
  \/ \E w \in Processes :
       Start(w) \/ EnqueueFirst(w) \/ StartTicker(w) \/ Schedule(w) \/ Stop(w)

Spec == Init /\ [][Next]_vars

----------------------------------------------------------------------------
Intervals == {k * Interval : k \in 0 .. MaxTime \div Interval}
Within(t, i) == i <= t /\ t < i + Interval

\* A process stands for the interval of its first job and for those that begin after its ticker
\* was started: while it gets from the one to the other an interval may begin unnoticed.
Covers(w, i) ==
  \/ process[w].pc \in {"enqueued", "running"} /\ Within(process[w].since, i)
  \/ process[w].pc = "running" /\ process[w].ticker < i

\* Every interval that is over and that a process stands for has its cleanup, unless the insertion
\* failed or came too late, or is still to be made; and no cleanup is for an interval that has not
\* begun, so its limits are never too recent.
CleanupEveryInterval ==
  /\ \A i \in jobs : i <= now
  /\ \A w \in Processes, i \in Intervals :
       Covers(w, i) /\ i + Interval <= now =>
         \/ i \in jobs
         \/ \E t \in lost : Within(t, i)
         \/ process[w].tick # None /\ Within(process[w].tick, i)
=============================================================================
