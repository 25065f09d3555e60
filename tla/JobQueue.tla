------------------------------ MODULE JobQueue ------------------------------
(***************************************************************************)
(* The durable outbox, its dispatcher and the job queue that runs it.      *)
(*                                                                         *)
(* PostgreSQL keeps the outbox rows (event_outbox.status).  The cron       *)
(* function dispatch_pending_work copies due rows into arq, a Redis job    *)
(* queue, under the job id "ingestion:<event id>".  One worker process     *)
(* with max_jobs = 1 runs the jobs, and its cron functions too, so at most *)
(* one of them is in progress at any moment.                               *)
(*                                                                         *)
(* arq is an external library; what matters of it here:                    *)
(*  - enqueuing a job id that is queued, in progress, or whose result is   *)
(*    still kept does nothing;                                             *)
(*  - a job that returns or raises is finished and its result is kept for  *)
(*    ResultTTL; a job that raises Retry goes back to the queue; each      *)
(*    start counts one try, and a job out of tries fails without running;  *)
(*  - a job is cancelled once it has run for JobTimeout;                   *)
(*  - when the process is killed its job is started again only after the   *)
(*    in-progress key lapses, JobTimeout + InProgressGrace after the job's *)
(*    start; when the process is stopped in an orderly way the cancelled   *)
(*    job is back in the queue at once;                                    *)
(*  - Redis may lose everything it holds.                                  *)
(*                                                                         *)
(* Time is a number of ticks left before something lapses.  A module that  *)
(* EXTENDS this one gives each job kind its handler: the steps between     *)
(* pc = "claim" and pc = "return" (or "retry").                            *)
(***************************************************************************)
EXTENDS Integers, FiniteSets

CONSTANTS
    Events,          \* the ids that rows of event_outbox can get
    NoEvent,         \* the worker is idle
    MaxTries,        \* WorkerSettings.max_tries
    JobTimeout,      \* WorkerSettings.job_timeout
    InProgressGrace, \* arq keeps the in-progress key this much longer
    ResultTTL,       \* arq's keep_result
    MaxFaults        \* bound: process deaths, stops and Redis losses together

ASSUME QueueAssumption ==
    /\ NoEvent \notin Events
    /\ MaxTries \in Nat \ {0}
    /\ JobTimeout \in Nat \ {0}
    /\ InProgressGrace \in Nat \ {0}
    /\ ResultTTL \in Nat \ {0}
    /\ MaxFaults \in Nat

VARIABLES
    ev_status,  \* [Events -> EventStatus]: EventOutbox.status
    job,        \* [Events -> JobState]: what arq holds under the event's job id
    tries,      \* [Events -> Nat]: starts of the job so far
    ttl,        \* [Events -> Nat]: ticks until job[e] changes by itself
    cur,        \* the event whose job runs, or NoEvent
    pc,         \* the next step of that job
    faults      \* faults so far

queueVars == <<job, tries, ttl>>
workerVars == <<cur, pc>>
jobVars == <<ev_status, job, tries, ttl, cur, pc, faults>>

EventStatus == {"none", "pending", "queued", "delivered", "failed"}

\* "lost": the process that ran it died and the in-progress key has not lapsed
\* "kept": finished, and its result still blocks the job id
JobState == {"none", "queued", "active", "lost", "kept"}

\* Mutated form of LiveEvent: a dispatched row is never looked at again.
PendingEvent(e) == ev_status[e] = "pending"

\* A row the dispatcher will still pick up.
LiveEvent(e) == ev_status[e] \in {"pending", "queued"}

QueueTypeOK(Steps) ==
    /\ ev_status \in [Events -> EventStatus]
    /\ job \in [Events -> JobState]
    /\ tries \in [Events -> Nat]
    /\ ttl \in [Events -> Nat]
    /\ cur \in Events \cup {NoEvent}
    /\ pc \in Steps
    /\ faults \in 0..MaxFaults

QueueInit ==
    /\ ev_status = [e \in Events |-> "none"]
    /\ job = [e \in Events |-> "none"]
    /\ tries = [e \in Events |-> 0]
    /\ ttl = [e \in Events |-> 0]
    /\ cur = NoEvent
    /\ pc = "idle"
    /\ faults = 0

-----------------------------------------------------------------------------
(* The dispatcher. *)

\* ArqRedis.enqueue_job with a job id.
Enqueue(e) == job' = [job EXCEPT ![e] = IF @ = "none" THEN "queued" ELSE @]

\* A due row: pending, or queued so long ago that the job may have been lost.
\* The 30 seconds of DISPATCH_STALE_AFTER and the backoff in next_attempt_at
\* are not timed: a row may be found due at any moment.
dispatch_pending_work(e) ==
    /\ cur = NoEvent
    /\ LiveEvent(e)
    /\ Enqueue(e)
    /\ ev_status' = [ev_status EXCEPT ![e] = "queued"]
    /\ UNCHANGED <<tries, ttl, cur, pc, faults>>

\* The process dies between the enqueue and the commit of the status.
DispatchDies(e) ==
    /\ cur = NoEvent
    /\ LiveEvent(e)
    /\ faults < MaxFaults
    /\ faults' = faults + 1
    /\ Enqueue(e)
    /\ UNCHANGED <<ev_status, tries, ttl, cur, pc>>

-----------------------------------------------------------------------------
(* arq runs a job. *)

StartJob(e) ==
    /\ cur = NoEvent
    /\ job[e] = "queued"
    /\ tries[e] < MaxTries
    /\ cur' = e
    /\ pc' = "claim"
    /\ job' = [job EXCEPT ![e] = "active"]
    /\ tries' = [tries EXCEPT ![e] = @ + 1]
    /\ ttl' = [ttl EXCEPT ![e] = JobTimeout]
    /\ UNCHANGED <<ev_status, faults>>

\* The job id is finished: its result is kept and its count of tries dropped.
KeepResult(e) ==
    /\ job' = [job EXCEPT ![e] = "kept"]
    /\ tries' = [tries EXCEPT ![e] = 0]
    /\ ttl' = [ttl EXCEPT ![e] = ResultTTL]

OutOfTries(e) ==
    /\ cur = NoEvent
    /\ job[e] = "queued"
    /\ tries[e] >= MaxTries
    /\ KeepResult(e)
    /\ UNCHANGED <<ev_status, cur, pc, faults>>

Idle == cur' = NoEvent /\ pc' = "idle"

JobReturns ==
    /\ pc = "return"
    /\ KeepResult(cur)
    /\ Idle
    /\ UNCHANGED <<ev_status, faults>>

\* Back in the queue, with the tries it has used.
Requeue(e) ==
    /\ job' = [job EXCEPT ![e] = "queued"]
    /\ ttl' = [ttl EXCEPT ![e] = 0]
    /\ UNCHANGED tries

JobRetries ==
    /\ pc = "retry"
    /\ Requeue(cur)
    /\ Idle
    /\ UNCHANGED <<ev_status, faults>>

\* The handler raises out of a bookkeeping transaction (the database refuses
\* it), or arq cancels it at job_timeout: what it had committed stays.
JobAborts ==
    /\ cur # NoEvent
    /\ KeepResult(cur)
    /\ Idle
    /\ UNCHANGED <<ev_status, faults>>

-----------------------------------------------------------------------------
(* Faults. *)

\* The worker process is killed.
Crash ==
    /\ cur # NoEvent
    /\ faults < MaxFaults
    /\ faults' = faults + 1
    /\ job' = [job EXCEPT ![cur] = "lost"]
    /\ ttl' = [ttl EXCEPT ![cur] = @ + InProgressGrace]
    /\ Idle
    /\ UNCHANGED <<ev_status, tries>>

\* The worker process is stopped and started again (a deployment).
Restart ==
    /\ cur # NoEvent
    /\ faults < MaxFaults
    /\ faults' = faults + 1
    /\ Requeue(cur)
    /\ Idle
    /\ UNCHANGED ev_status

\* Redis loses its data; the worker, cut off from it, exits.
RedisLoss ==
    /\ faults < MaxFaults
    /\ faults' = faults + 1
    /\ \E e \in Events : job[e] # "none"
    /\ job' = [e \in Events |-> "none"]
    /\ tries' = [e \in Events |-> 0]
    /\ ttl' = [e \in Events |-> 0]
    /\ Idle
    /\ UNCHANGED ev_status

-----------------------------------------------------------------------------
(* Time. *)

Dec(n) == IF n > 0 THEN n - 1 ELSE 0

\* A running job is cancelled when its time is up, so time waits for that.
TimeMayPass == cur # NoEvent => ttl[cur] > 0

\* One tick for the keys that Redis expires.
QueueTick ==
    /\ ttl' = [e \in Events |-> Dec(ttl[e])]
    /\ job' = [e \in Events |->
                 IF ttl[e] # 1 THEN job[e]
                 ELSE CASE job[e] = "lost" -> "queued"
                        [] job[e] = "kept" -> "none"
                        [] OTHER -> job[e]]
    /\ UNCHANGED <<ev_status, tries, cur, pc, faults>>

=============================================================================
