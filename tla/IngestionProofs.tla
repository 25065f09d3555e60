-------------------------- MODULE IngestionProofs ---------------------------
(***************************************************************************)
(* Proofs about Ingestion and CollectorRequests for all runs, events,      *)
(* cursors and bounds.                                                     *)
(*                                                                         *)
(* WorkerHoldsLease and LeaseHolderUnsettled are inductive once the shape  *)
(* of the worker is known: it is idle exactly when it has no event, and a  *)
(* job in progress has at most JobTimeout left.  UnsettledRunIsInOutbox    *)
(* also needs that only published rows have jobs, that a run without a row *)
(* has no stage, and that a job that is about to mark its event delivered  *)
(* has seen its stage succeed.                                             *)
(*                                                                         *)
(* On these rests the refinement: both modules implement RunLedger.        *)
(***************************************************************************)
EXTENDS CollectorRequests, TLAPS

\* The worker between its steps.
WorkerShape ==
    /\ cur = NoEvent <=> pc = "idle"
    /\ cur # NoEvent => ttl[cur] <= JobTimeout

LeaseInv == WorkerHoldsLease /\ LeaseHolderUnsettled

USE QueueAssumption, IngestionAssumption

-----------------------------------------------------------------------------
(* The steps that the job queue takes without the handler. *)

QueueStep ==
    \/ \E e \in Events : dispatch_pending_work(e) \/ DispatchDies(e)
    \/ \E e \in Events : StartJob(e) \/ OutOfTries(e)
    \/ JobReturns \/ JobRetries \/ JobAborts
    \/ Crash \/ Restart \/ RedisLoss

\* Such a step keeps the variables of the queue typed.
LEMMA QueueStepType ==
    ASSUME QueueTypeOK(Steps), QueueStep
    PROVE  QueueTypeOK(Steps)'
<1> USE DEF QueueTypeOK, Steps, EventStatus, JobState
<1>1. CASE \E e \in Events : dispatch_pending_work(e)
  BY <1>1 DEF dispatch_pending_work, Enqueue
<1>2. CASE \E e \in Events : DispatchDies(e)
  BY <1>2 DEF DispatchDies, Enqueue
<1>3. CASE \E e \in Events : StartJob(e)
  BY <1>3 DEF StartJob
<1>4. CASE \E e \in Events : OutOfTries(e)
  BY <1>4 DEF OutOfTries, KeepResult
<1>5. CASE JobReturns
  BY <1>5 DEF JobReturns, KeepResult, Idle
<1>6. CASE JobRetries
  BY <1>6 DEF JobRetries, Requeue, Idle
<1>7. CASE JobAborts
  BY <1>7 DEF JobAborts, KeepResult, Idle
<1>8. CASE Crash
  BY <1>8 DEF Crash, Idle
<1>9. CASE Restart
  BY <1>9 DEF Restart, Requeue, Idle
<1>10. CASE RedisLoss
  BY <1>10 DEF RedisLoss, Idle
<1>11. QED
  BY <1>1, <1>2, <1>3, <1>4, <1>5, <1>6, <1>7, <1>8, <1>9, <1>10 DEF QueueStep

\* It leaves the worker idle, starts a job at its claim, or changes nothing of
\* a job in progress.
LEMMA QueueStepShape ==
    ASSUME QueueTypeOK(Steps), WorkerShape, QueueStep
    PROVE  /\ WorkerShape'
           /\ (pc' = "idle" \/ pc' = "claim")
<1> USE DEF QueueTypeOK, WorkerShape, Steps
<1>1. CASE \E e \in Events : dispatch_pending_work(e)
  BY <1>1 DEF dispatch_pending_work, Enqueue
<1>2. CASE \E e \in Events : DispatchDies(e)
  BY <1>2 DEF DispatchDies, Enqueue
<1>3. CASE \E e \in Events : StartJob(e)
  BY <1>3 DEF StartJob
<1>4. CASE \E e \in Events : OutOfTries(e)
  BY <1>4 DEF OutOfTries, KeepResult
<1>5. CASE JobReturns
  BY <1>5 DEF JobReturns, KeepResult, Idle
<1>6. CASE JobRetries
  BY <1>6 DEF JobRetries, Requeue, Idle
<1>7. CASE JobAborts
  BY <1>7 DEF JobAborts, KeepResult, Idle
<1>8. CASE Crash
  BY <1>8 DEF Crash, Idle
<1>9. CASE Restart
  BY <1>9 DEF Restart, Requeue, Idle
<1>10. CASE RedisLoss
  BY <1>10 DEF RedisLoss, Idle
<1>11. QED
  BY <1>1, <1>2, <1>3, <1>4, <1>5, <1>6, <1>7, <1>8, <1>9, <1>10 DEF QueueStep

-----------------------------------------------------------------------------
(* Every step is one of the named ones. *)

LEMMA StepCases ==
    ASSUME [Next]_vars
    PROVE  \/ QueueStep /\ UNCHANGED dataVars
           \/ \E r \in Runs, e \in Events, before \in Cursors, after \in Cursors :
                 receive_batch(r, e, before, after)
           \/ \E r \in Runs, e \in Events, before \in Cursors :
                 queue_connector_crawl(r, e, before)
           \/ \E r \in Runs, e \in Events : retry_run(r, e)
           \/ \E f \in FileRuns : RetryFileRun(f)
           \/ \E s \in {"active", "paused", "archived"} : update_source(s)
           \/ ClaimDelivered \/ ClaimUnavailable \/ ClaimSucceeded
           \/ ClaimBusy \/ ClaimLeaseLost \/ ClaimStage
           \/ \E c \in Cursors : collect_web_job(c)
           \/ CountObservations
           \/ PermanentFailure \/ RetryExhausted \/ ScheduleRetry
           \/ TransientUnavailable
           \/ FinishUnavailable \/ FinishSucceeded \/ mark_event_delivered
           \/ Tick
           \/ UNCHANGED vars
BY DEF Next, Api, Dispatcher, Arq, QueueStep, process_ingestion_event

\* The handler's run is a run: only published rows have jobs.
PublishedHaveJobs ==
    /\ \A e \in Events : ev_run[e] = NoRun => job[e] = "none" /\ ev_status[e] = "none"
    /\ cur # NoEvent => ev_run[cur] # NoRun

BaseInv == TypeOK /\ WorkerShape /\ PublishedHaveJobs

-----------------------------------------------------------------------------
(* Types, the worker's shape and the published rows. *)

\* The queue starts no job for a row that was not published.
LEMMA QueueStepPublished ==
    ASSUME BaseInv, QueueStep, UNCHANGED dataVars
    PROVE  PublishedHaveJobs'
<1> USE DEF BaseInv, TypeOK, QueueTypeOK, WorkerShape, PublishedHaveJobs, dataVars,
            payloadVars, Steps
<1>1. CASE \E e \in Events : dispatch_pending_work(e)
  BY <1>1 DEF dispatch_pending_work, Enqueue, LiveEvent
<1>2. CASE \E e \in Events : DispatchDies(e)
  BY <1>2 DEF DispatchDies, Enqueue, LiveEvent
<1>3. CASE \E e \in Events : StartJob(e)
  BY <1>3 DEF StartJob
<1>4. CASE \E e \in Events : OutOfTries(e)
  BY <1>4 DEF OutOfTries, KeepResult
<1>5. CASE JobReturns
  BY <1>5 DEF JobReturns, KeepResult, Idle
<1>6. CASE JobRetries
  BY <1>6 DEF JobRetries, Requeue, Idle
<1>7. CASE JobAborts
  BY <1>7 DEF JobAborts, KeepResult, Idle
<1>8. CASE Crash
  BY <1>8 DEF Crash, Idle
<1>9. CASE Restart
  BY <1>9 DEF Restart, Requeue, Idle
<1>10. CASE RedisLoss
  BY <1>10 DEF RedisLoss, Idle
<1>11. QED
  BY <1>1, <1>2, <1>3, <1>4, <1>5, <1>6, <1>7, <1>8, <1>9, <1>10 DEF QueueStep

\* A step of the queue alone keeps all of it.
LEMMA QueueStepBase ==
    ASSUME BaseInv, QueueStep, UNCHANGED dataVars
    PROVE  BaseInv'
<1>1. QueueTypeOK(Steps)' /\ WorkerShape'
  BY QueueStepType, QueueStepShape DEF BaseInv, TypeOK
<1>2. PublishedHaveJobs'
  BY QueueStepPublished
<1>3. QED
  BY <1>1, <1>2 DEF BaseInv, TypeOK, dataVars, sourceVars, runVars, stateVars, payloadVars

\* Every step keeps the types, the worker's shape and the published rows.
LEMMA BaseStep ==
    ASSUME BaseInv, [Next]_vars
    PROVE  BaseInv'
<1> DEFINE Goal == BaseInv'
<1> SUFFICES Goal  OBVIOUS
<1> USE DEF BaseInv, TypeOK, QueueTypeOK, WorkerShape, PublishedHaveJobs,
            Steps, StageKey, StageStatus, EventStatus, JobState, run,
            jobVars, dataVars, sourceVars, runVars, stateVars,
            payloadVars
<1>1. CASE QueueStep /\ UNCHANGED dataVars
  BY <1>1, QueueStepBase
<1>2. ASSUME NEW r \in Runs, NEW e \in Events, NEW before \in Cursors, NEW
             after \in Cursors,
             receive_batch(r, e, before, after)
      PROVE  Goal
  BY <1>2 DEF receive_batch, AddRun, Publish, TakeLease
<1>3. ASSUME NEW r \in Runs, NEW e \in Events, NEW before \in Cursors,
             queue_connector_crawl(r, e, before)
      PROVE  Goal
  BY <1>3 DEF queue_connector_crawl, AddRun, Publish, TakeLease
<1>4. ASSUME NEW r \in Runs, NEW e \in Events,
             retry_run(r, e)
      PROVE  Goal
  BY <1>4 DEF retry_run, Publish, TakeLease, LeaseFreeFor
<1>5. ASSUME NEW f \in FileRuns,
             RetryFileRun(f)
      PROVE  Goal
  BY <1>5 DEF RetryFileRun, TakeLease, LeaseFreeFor
<1>6. ASSUME NEW s \in {"active", "paused", "archived"},
             update_source(s)
      PROVE  Goal
  BY <1>6 DEF update_source
<1>7. CASE ClaimDelivered
  BY <1>7 DEF ClaimDelivered, HandlerFrame, Goto
<1>8. CASE ClaimUnavailable
  BY <1>8 DEF ClaimUnavailable, HandlerFrame, Goto, Claimable, SetStage,
       SetEvent, ReleaseLease
<1>9. CASE ClaimSucceeded
  BY <1>9 DEF ClaimSucceeded, HandlerFrame, Goto, Claimable, SetEvent
<1>10. CASE ClaimBusy
  BY <1>10 DEF ClaimBusy, HandlerFrame, Goto, Claimable
<1>11. CASE ClaimLeaseLost
  BY <1>11 DEF ClaimLeaseLost, HandlerFrame, Goto, ClaimAhead, Claimable,
       SetStage, SetEvent, ReleaseLease
<1>12. CASE ClaimStage
  BY <1>12 DEF ClaimStage, HandlerFrame, Goto, ClaimAhead, Claimable,
       SetStage, LeaseLive
<1>13. ASSUME NEW c \in Cursors, collect_web_job(c)
      PROVE  Goal
  BY <1>13 DEF collect_web_job, HandlerFrame, Goto
<1>14. CASE CountObservations
  BY <1>14 DEF CountObservations, HandlerFrame, Goto, AtCount
<1>15. CASE PermanentFailure
  BY <1>15 DEF PermanentFailure, HandlerFrame, Goto, Working, FailStage,
       SetStage, SetEvent, ReleaseLease
<1>16. CASE RetryExhausted
  BY <1>16 DEF RetryExhausted, HandlerFrame, Goto, Working, FailStage,
       SetStage, SetEvent, ReleaseLease
<1>17. CASE ScheduleRetry
  BY <1>17 DEF ScheduleRetry, HandlerFrame, Goto, Working, SetStage, SetEvent
<1>18. CASE TransientUnavailable
  BY <1>18 DEF TransientUnavailable, HandlerFrame, Goto, Working
<1>19. CASE FinishUnavailable
  BY <1>19 DEF FinishUnavailable, HandlerFrame, Goto, SetStage, ReleaseLease
<1>20. CASE FinishSucceeded
  BY <1>20 DEF FinishSucceeded, HandlerFrame, Goto, SetStage, ReleaseLease
<1>21. CASE mark_event_delivered
  BY <1>21 DEF mark_event_delivered, HandlerFrame, Goto, SetEvent
<1>22. CASE Tick
  BY <1>22 DEF Tick, QueueTick, TimeMayPass, Dec
<1>23. CASE UNCHANGED vars
  BY <1>23 DEF vars
<1>24. QED
  BY <1>1, <1>2, <1>3, <1>4, <1>5, <1>6, <1>7, <1>8, <1>9,
       <1>10, <1>11, <1>12, <1>13, <1>14, <1>15, <1>16, <1>17, <1>18, <1>19,
       <1>20, <1>21, <1>22, <1>23, StepCases

LEMMA BaseInit == Init => BaseInv
BY DEF Init, QueueInit, BaseInv, TypeOK, QueueTypeOK, WorkerShape,
       PublishedHaveJobs, Steps, StageKey, StageStatus, EventStatus, JobState

\* The base of the invariants below holds in every reachable state.
THEOREM BaseCorrect == Spec => []BaseInv
<1>1. Init => BaseInv
  BY BaseInit
<1>2. BaseInv /\ [Next]_vars => BaseInv'
  BY BaseStep
<1>3. QED
  BY <1>1, <1>2, PTL DEF Spec

\* Every variable keeps its type.
THEOREM TypeCorrect == Spec => []TypeOK
BY BaseCorrect, PTL DEF BaseInv

-----------------------------------------------------------------------------
(* The collection lease. *)

\* Whoever gets the lease has an open stage, and whoever settles the stage gives
\* the lease back.
LEMMA HolderStep ==
    ASSUME BaseInv, LeaseHolderUnsettled, [Next]_vars
    PROVE  LeaseHolderUnsettled'
<1> DEFINE Goal == LeaseHolderUnsettled'
<1> SUFFICES Goal  OBVIOUS
<1> USE DEF LeaseHolderUnsettled, Open, BaseInv, TypeOK, QueueTypeOK, WorkerShape,
            PublishedHaveJobs, Steps, StageStatus, run, jobVars,
            dataVars, sourceVars, runVars, stateVars, payloadVars
<1>1. CASE QueueStep /\ UNCHANGED dataVars
  BY <1>1, QueueStepShape
<1>2. ASSUME NEW r \in Runs, NEW e \in Events, NEW before \in Cursors, NEW
             after \in Cursors,
             receive_batch(r, e, before, after)
      PROVE  Goal
  BY <1>2 DEF receive_batch, AddRun, Publish, TakeLease, LeaseLive
<1>3. ASSUME NEW r \in Runs, NEW e \in Events, NEW before \in Cursors,
             queue_connector_crawl(r, e, before)
      PROVE  Goal
  BY <1>3 DEF queue_connector_crawl, AddRun, Publish, TakeLease, LeaseLive
<1>4. ASSUME NEW r \in Runs, NEW e \in Events,
             retry_run(r, e)
      PROVE  Goal
  BY <1>4 DEF retry_run, Publish, TakeLease, LeaseFreeFor, LeaseLive
<1>5. ASSUME NEW f \in FileRuns,
             RetryFileRun(f)
      PROVE  Goal
  BY <1>5 DEF RetryFileRun, TakeLease, LeaseFreeFor, LeaseLive
<1>6. ASSUME NEW s \in {"active", "paused", "archived"},
             update_source(s)
      PROVE  Goal
  BY <1>6 DEF update_source
<1>7. CASE ClaimDelivered
  BY <1>7 DEF ClaimDelivered, HandlerFrame, Goto
<1>8. CASE ClaimUnavailable
  BY <1>8 DEF ClaimUnavailable, HandlerFrame, Goto, Claimable, SetStage,
       SetEvent, ReleaseLease
<1>9. CASE ClaimSucceeded
  BY <1>9 DEF ClaimSucceeded, HandlerFrame, Goto, Claimable, SetEvent
<1>10. CASE ClaimBusy
  BY <1>10 DEF ClaimBusy, HandlerFrame, Goto, Claimable
<1>11. CASE ClaimLeaseLost
  BY <1>11 DEF ClaimLeaseLost, HandlerFrame, Goto, ClaimAhead, Claimable,
       SetStage, SetEvent, ReleaseLease
<1>12. CASE ClaimStage
  BY <1>12 DEF ClaimStage, HandlerFrame, Goto, ClaimAhead, Claimable,
       SetStage, LeaseLive
<1>13. ASSUME NEW c \in Cursors, collect_web_job(c)
      PROVE  Goal
  BY <1>13 DEF collect_web_job, HandlerFrame, Goto
<1>14. CASE CountObservations
  BY <1>14 DEF CountObservations, HandlerFrame, Goto, AtCount
<1>15. CASE PermanentFailure
  BY <1>15 DEF PermanentFailure, HandlerFrame, Goto, Working, FailStage,
       SetStage, SetEvent, ReleaseLease
<1>16. CASE RetryExhausted
  BY <1>16 DEF RetryExhausted, HandlerFrame, Goto, Working, FailStage,
       SetStage, SetEvent, ReleaseLease
<1>17. CASE ScheduleRetry
  BY <1>17 DEF ScheduleRetry, HandlerFrame, Goto, Working, SetStage, SetEvent
<1>18. CASE TransientUnavailable
  BY <1>18 DEF TransientUnavailable, HandlerFrame, Goto, Working
<1>19. CASE FinishUnavailable
  BY <1>19 DEF FinishUnavailable, HandlerFrame, Goto, SetStage, ReleaseLease
<1>20. CASE FinishSucceeded
  BY <1>20 DEF FinishSucceeded, HandlerFrame, Goto, SetStage, ReleaseLease
<1>21. CASE mark_event_delivered
  BY <1>21 DEF mark_event_delivered, HandlerFrame, Goto, SetEvent
<1>22. CASE Tick
  BY <1>22 DEF Tick, QueueTick, TimeMayPass, Dec
<1>23. CASE UNCHANGED vars
  BY <1>23 DEF vars
<1>24. QED
  BY <1>1, <1>2, <1>3, <1>4, <1>5, <1>6, <1>7, <1>8, <1>9,
       <1>10, <1>11, <1>12, <1>13, <1>14, <1>15, <1>16, <1>17, <1>18, <1>19,
       <1>20, <1>21, <1>22, <1>23, StepCases

\* A step of the queue alone touches no lease, and ends the work in progress
\* or happens while there is none.
LEMMA WorkerLeaseStep ==
    ASSUME BaseInv, WorkerHoldsLease, LeaseHolderUnsettled, [Next]_vars
    PROVE  WorkerHoldsLease'
<1> DEFINE Goal == WorkerHoldsLease'
<1> SUFFICES Goal  OBVIOUS
<1> USE DEF WorkerHoldsLease, LeaseHolderUnsettled, InProgress,
            Open, BaseInv, TypeOK, QueueTypeOK, WorkerShape,
            PublishedHaveJobs, Steps, StageStatus, run, jobVars,
            dataVars, sourceVars, runVars, stateVars, payloadVars
<1>1. CASE QueueStep /\ UNCHANGED dataVars
  BY <1>1, QueueStepShape
<1>2. ASSUME NEW r \in Runs, NEW e \in Events, NEW before \in Cursors, NEW
             after \in Cursors,
             receive_batch(r, e, before, after)
      PROVE  Goal
  BY <1>2 DEF receive_batch, AddRun, Publish, TakeLease, LeaseLive
<1>3. ASSUME NEW r \in Runs, NEW e \in Events, NEW before \in Cursors,
             queue_connector_crawl(r, e, before)
      PROVE  Goal
  BY <1>3 DEF queue_connector_crawl, AddRun, Publish, TakeLease, LeaseLive
<1>4. ASSUME NEW r \in Runs, NEW e \in Events,
             retry_run(r, e)
      PROVE  Goal
  BY <1>4 DEF retry_run, Publish, TakeLease, LeaseFreeFor, LeaseLive
<1>5. ASSUME NEW f \in FileRuns,
             RetryFileRun(f)
      PROVE  Goal
  BY <1>5 DEF RetryFileRun, TakeLease, LeaseFreeFor, LeaseLive
<1>6. ASSUME NEW s \in {"active", "paused", "archived"},
             update_source(s)
      PROVE  Goal
  BY <1>6 DEF update_source
<1>7. CASE ClaimDelivered
  BY <1>7 DEF ClaimDelivered, HandlerFrame, Goto
<1>8. CASE ClaimUnavailable
  BY <1>8 DEF ClaimUnavailable, HandlerFrame, Goto, Claimable, SetStage,
       SetEvent, ReleaseLease
<1>9. CASE ClaimSucceeded
  BY <1>9 DEF ClaimSucceeded, HandlerFrame, Goto, Claimable, SetEvent
<1>10. CASE ClaimBusy
  BY <1>10 DEF ClaimBusy, HandlerFrame, Goto, Claimable
<1>11. CASE ClaimLeaseLost
  BY <1>11 DEF ClaimLeaseLost, HandlerFrame, Goto, ClaimAhead, Claimable,
       SetStage, SetEvent, ReleaseLease
<1>12. CASE ClaimStage
  BY <1>12 DEF ClaimStage, HandlerFrame, Goto, ClaimAhead, Claimable,
       SetStage, LeaseLive
<1>13. ASSUME NEW c \in Cursors, collect_web_job(c)
      PROVE  Goal
  BY <1>13 DEF collect_web_job, HandlerFrame, Goto
<1>14. CASE CountObservations
  BY <1>14 DEF CountObservations, HandlerFrame, Goto, AtCount
<1>15. CASE PermanentFailure
  BY <1>15 DEF PermanentFailure, HandlerFrame, Goto, Working, FailStage,
       SetStage, SetEvent, ReleaseLease
<1>16. CASE RetryExhausted
  BY <1>16 DEF RetryExhausted, HandlerFrame, Goto, Working, FailStage,
       SetStage, SetEvent, ReleaseLease
<1>17. CASE ScheduleRetry
  BY <1>17 DEF ScheduleRetry, HandlerFrame, Goto, Working, SetStage, SetEvent
<1>18. CASE TransientUnavailable
  BY <1>18 DEF TransientUnavailable, HandlerFrame, Goto, Working
<1>19. CASE FinishUnavailable
  BY <1>19 DEF FinishUnavailable, HandlerFrame, Goto, SetStage, ReleaseLease
<1>20. CASE FinishSucceeded
  BY <1>20 DEF FinishSucceeded, HandlerFrame, Goto, SetStage, ReleaseLease
<1>21. CASE mark_event_delivered
  BY <1>21 DEF mark_event_delivered, HandlerFrame, Goto, SetEvent
<1>22. CASE Tick
  BY <1>22 DEF Tick, QueueTick, TimeMayPass, Dec
<1>23. CASE UNCHANGED vars
  BY <1>23 DEF vars
<1>24. QED
  BY <1>1, <1>2, <1>3, <1>4, <1>5, <1>6, <1>7, <1>8, <1>9,
       <1>10, <1>11, <1>12, <1>13, <1>14, <1>15, <1>16, <1>17, <1>18, <1>19,
       <1>20, <1>21, <1>22, <1>23, StepCases

\* Both invariants of the lease, for every number of runs, events and faults
\* and every length of the timers with CollectionLease > JobTimeout.
THEOREM LeaseCorrect == Spec => []LeaseInv
<1>1. Init => LeaseInv
  BY DEF Init, QueueInit, LeaseInv, WorkerHoldsLease, LeaseHolderUnsettled, InProgress
<1>2. BaseInv /\ LeaseInv /\ [Next]_vars => LeaseInv'
  BY HolderStep, WorkerLeaseStep DEF LeaseInv
<1>3. QED
  BY <1>1, <1>2, BaseCorrect, PTL DEF Spec

\* The run that process_ingestion_event works on holds a lease that outlives
\* the job.
THEOREM WorkerHoldsLeaseCorrect == Spec => []WorkerHoldsLease
BY LeaseCorrect, PTL DEF LeaseInv

\* A collection run that holds the lease is never settled.
THEOREM LeaseHolderUnsettledCorrect == Spec => []LeaseHolderUnsettled
BY LeaseCorrect, PTL DEF LeaseInv

-----------------------------------------------------------------------------
(* The outbox. *)

OutboxInv ==
    /\ UnsettledRunIsInOutbox
    /\ \A r \in Runs : kind[r] = "none" => stage[r] = "none"
    /\ \A e \in Events : ev_run[e] # NoRun => kind[ev_run[e]] # "none"
    /\ InProgress => kind[run] # "none"
    /\ pc = "mark" => stage[run] = "succeeded"

\* The dispatcher and arq never drop a live row.
LEMMA QueueStepKeepsLive ==
    ASSUME BaseInv, QueueStep
    PROVE  \A e \in Events : LiveEvent(e) => LiveEvent(e)'
<1> USE DEF LiveEvent, BaseInv, TypeOK, QueueTypeOK
<1>1. CASE \E e \in Events : dispatch_pending_work(e)
  BY <1>1 DEF dispatch_pending_work
<1>2. CASE ~\E e \in Events : dispatch_pending_work(e)
  <2>1. UNCHANGED ev_status
    BY <1>2 DEF QueueStep, DispatchDies, StartJob, OutOfTries, JobReturns,
         JobRetries, JobAborts, Crash, Restart, RedisLoss
  <2>2. QED
    BY <2>1
<1>3. QED
  BY <1>1, <1>2

\* A handler that is not idle works on a published row.
LEMMA HandlerRun ==
    ASSUME BaseInv, pc # "idle"
    PROVE  cur \in Events /\ run \in Runs
BY DEF BaseInv, TypeOK, QueueTypeOK, WorkerShape, PublishedHaveJobs, run

\* A step of the handler that settles its run, or reopens it with its own row
\* live, leaves every unsettled run with a live row.
LEMMA HandlerKeepsOutbox ==
    ASSUME BaseInv, UnsettledRunIsInOutbox, pc # "idle", UNCHANGED ev_run,
           NEW status \in StageStatus, stage' = [stage EXCEPT ![run] = status],
           \A e \in Events : e = cur \/ ev_status'[e] = ev_status[e],
           status \in Open => cur \in Events /\ ev_status'[cur] \in {"pending", "queued"}
    PROVE  UnsettledRunIsInOutbox'
<1>1. cur \in Events /\ run \in Runs
  BY HandlerRun
<1> SUFFICES ASSUME NEW r \in Runs, stage'[r] \in Open
             PROVE  \E e \in Events : ev_run'[e] = r /\ LiveEvent(e)'
  BY DEF UnsettledRunIsInOutbox
<1>2. CASE r = run
  <2>1. stage'[r] = status
    BY <1>1, <1>2 DEF BaseInv, TypeOK
  <2>2. QED
    BY <1>1, <1>2, <2>1 DEF run, LiveEvent
<1>3. CASE r # run
  <2>1. stage'[r] = stage[r]
    BY <1>1, <1>3 DEF BaseInv, TypeOK
  <2>2. PICK e \in Events : ev_run[e] = r /\ LiveEvent(e)
    BY <2>1 DEF UnsettledRunIsInOutbox
  <2>3. e # cur
    BY <1>3, <2>2 DEF run
  <2>4. QED
    BY <2>2, <2>3 DEF LiveEvent
<1>4. QED
  BY <1>2, <1>3

\* A step that makes a row terminal settles its run, and a run is opened again
\* only together with a new row.
LEMMA OutboxStep ==
    ASSUME BaseInv, LeaseHolderUnsettled, OutboxInv, [Next]_vars
    PROVE  OutboxInv'
<1> DEFINE Goal == OutboxInv'
<1> SUFFICES Goal  OBVIOUS
<1> USE DEF OutboxInv, InProgress, UnsettledRunIsInOutbox,
            LeaseHolderUnsettled, Open, LiveEvent, BaseInv, TypeOK,
            QueueTypeOK, WorkerShape, PublishedHaveJobs, Steps,
            StageStatus, run, jobVars, dataVars, sourceVars, runVars,
            stateVars, payloadVars
<1>1. CASE QueueStep /\ UNCHANGED dataVars
  BY <1>1, QueueStepKeepsLive, QueueStepShape
<1>2. ASSUME NEW r \in Runs, NEW e \in Events, NEW before \in Cursors, NEW
             after \in Cursors,
             receive_batch(r, e, before, after)
      PROVE  Goal
  BY <1>2 DEF receive_batch, AddRun, Publish, TakeLease
<1>3. ASSUME NEW r \in Runs, NEW e \in Events, NEW before \in Cursors,
             queue_connector_crawl(r, e, before)
      PROVE  Goal
  BY <1>3 DEF queue_connector_crawl, AddRun, Publish, TakeLease
<1>4. ASSUME NEW r \in Runs, NEW e \in Events,
             retry_run(r, e)
      PROVE  Goal
  BY <1>4 DEF retry_run, Publish, TakeLease, LeaseFreeFor
<1>5. ASSUME NEW f \in FileRuns,
             RetryFileRun(f)
      PROVE  Goal
  BY <1>5 DEF RetryFileRun, TakeLease, LeaseFreeFor
<1>6. ASSUME NEW s \in {"active", "paused", "archived"},
             update_source(s)
      PROVE  Goal
  BY <1>6 DEF update_source
<1>7. CASE ClaimDelivered
  BY <1>7 DEF ClaimDelivered, HandlerFrame, Goto
<1>8. CASE ClaimUnavailable
  BY <1>8 DEF ClaimUnavailable, HandlerFrame, Goto, Claimable, SetStage,
       SetEvent, ReleaseLease
<1>9. CASE ClaimSucceeded
  BY <1>9 DEF ClaimSucceeded, HandlerFrame, Goto, Claimable, SetEvent
<1>10. CASE ClaimBusy
  BY <1>10 DEF ClaimBusy, HandlerFrame, Goto, Claimable
<1>11. CASE ClaimLeaseLost
  BY <1>11 DEF ClaimLeaseLost, HandlerFrame, Goto, ClaimAhead, Claimable,
       SetStage, SetEvent, ReleaseLease
<1>12. CASE ClaimStage
  BY <1>12 DEF ClaimStage, HandlerFrame, Goto, ClaimAhead, Claimable,
       SetStage, LeaseLive
<1>13. ASSUME NEW c \in Cursors, collect_web_job(c)
      PROVE  Goal
  BY <1>13 DEF collect_web_job, HandlerFrame, Goto
<1>14. CASE CountObservations
  BY <1>14 DEF CountObservations, HandlerFrame, Goto, AtCount
<1>15. CASE PermanentFailure
  <2>1. UnsettledRunIsInOutbox'
    BY <1>15, HandlerKeepsOutbox, "failed" \in StageStatus DEF PermanentFailure,
         HandlerFrame, Goto, Working, FailStage, SetStage, SetEvent, Open,
         StageStatus, BaseInv, TypeOK, QueueTypeOK, payloadVars
  <2>2. QED
    BY <1>15, <2>1, HandlerRun DEF PermanentFailure, HandlerFrame, Goto, Working,
         FailStage, SetStage, SetEvent, Open, StageStatus, OutboxInv, BaseInv,
         TypeOK, QueueTypeOK, run
<1>16. CASE RetryExhausted
  <2>1. UnsettledRunIsInOutbox'
    BY <1>16, HandlerKeepsOutbox, "failed" \in StageStatus DEF RetryExhausted,
         HandlerFrame, Goto, Working, FailStage, SetStage, SetEvent, Open,
         StageStatus, BaseInv, TypeOK, QueueTypeOK, payloadVars
  <2>2. QED
    BY <1>16, <2>1, HandlerRun DEF RetryExhausted, HandlerFrame, Goto, Working,
         FailStage, SetStage, SetEvent, Open, StageStatus, OutboxInv, BaseInv,
         TypeOK, QueueTypeOK, run
<1>17. CASE ScheduleRetry
  <2>1. UnsettledRunIsInOutbox'
    BY <1>17, HandlerKeepsOutbox, "retrying" \in StageStatus DEF ScheduleRetry,
         HandlerFrame, Goto, Working, SetStage, SetEvent, LiveEvent, Open,
         StageStatus, BaseInv, TypeOK, QueueTypeOK, payloadVars
  <2>2. QED
    BY <1>17, <2>1, HandlerRun DEF ScheduleRetry, HandlerFrame, Goto, Working,
         SetStage, SetEvent, LiveEvent, Open, StageStatus, OutboxInv, BaseInv,
         TypeOK, QueueTypeOK, run
<1>18. CASE TransientUnavailable
  BY <1>18 DEF TransientUnavailable, HandlerFrame, Goto, Working
<1>19. CASE FinishUnavailable
  <2>1. UnsettledRunIsInOutbox'
    BY <1>19, HandlerKeepsOutbox, "failed" \in StageStatus DEF FinishUnavailable,
         HandlerFrame, Goto, SetStage, Open, StageStatus, BaseInv, TypeOK,
         QueueTypeOK, payloadVars
  <2>2. QED
    BY <1>19, <2>1, HandlerRun DEF FinishUnavailable, HandlerFrame, Goto,
         SetStage, Open, StageStatus, OutboxInv, BaseInv, TypeOK, QueueTypeOK,
         run
<1>20. CASE FinishSucceeded
  <2>1. UnsettledRunIsInOutbox'
    BY <1>20, HandlerKeepsOutbox, "succeeded" \in StageStatus DEF FinishSucceeded,
         HandlerFrame, Goto, SetStage, Open, StageStatus, BaseInv, TypeOK,
         QueueTypeOK, payloadVars
  <2>2. QED
    BY <1>20, <2>1, HandlerRun DEF FinishSucceeded, HandlerFrame, Goto, SetStage,
         Open, StageStatus, OutboxInv, BaseInv, TypeOK, QueueTypeOK, run
<1>21. CASE mark_event_delivered
  BY <1>21 DEF mark_event_delivered, HandlerFrame, Goto, SetEvent
<1>22. CASE Tick
  BY <1>22 DEF Tick, QueueTick, TimeMayPass, Dec
<1>23. CASE UNCHANGED vars
  BY <1>23 DEF vars
<1>24. QED
  BY <1>1, <1>2, <1>3, <1>4, <1>5, <1>6, <1>7, <1>8, <1>9,
       <1>10, <1>11, <1>12, <1>13, <1>14, <1>15, <1>16, <1>17, <1>18, <1>19,
       <1>20, <1>21, <1>22, <1>23, StepCases

\* Every row of the outbox and every unsettled run keep the shape the steps need.
THEOREM OutboxCorrect == Spec => []OutboxInv
<1>1. Init => OutboxInv
  BY DEF Init, QueueInit, OutboxInv, UnsettledRunIsInOutbox, Open,
         InProgress
<1>2. BaseInv /\ LeaseHolderUnsettled /\ OutboxInv /\ [Next]_vars => OutboxInv'
  BY OutboxStep
<1>3. QED
  BY <1>1, <1>2, BaseCorrect, LeaseHolderUnsettledCorrect, PTL DEF Spec

\* A run that is not settled has a row the dispatcher still picks up.
THEOREM UnsettledRunIsInOutboxCorrect == Spec => []UnsettledRunIsInOutbox
<1>1. OutboxInv => UnsettledRunIsInOutbox
  BY DEF OutboxInv
<1>2. QED
  BY <1>1, OutboxCorrect, PTL

-----------------------------------------------------------------------------
(* What one step may do to the cursor and to the stored observations. *)

\* Only an accepted batch and the crawl of the lease's holder move the cursor.
LEMMA CursorStep ==
    ASSUME BaseInv, [Next]_vars
    PROVE  (cursor' # cursor => ~LeaseLive \/ (pc = "work" /\ run = lease_run_id))
<1> DEFINE Goal == (cursor' # cursor => ~LeaseLive \/ (pc = "work" /\ run = lease_run_id))
<1> SUFFICES Goal  OBVIOUS
<1> USE DEF jobVars, dataVars, sourceVars, runVars, stateVars, payloadVars
<1>1. CASE QueueStep /\ UNCHANGED dataVars
  BY <1>1
<1>2. ASSUME NEW r \in Runs, NEW e \in Events, NEW before \in Cursors, NEW
             after \in Cursors,
             receive_batch(r, e, before, after)
      PROVE  Goal
  BY <1>2 DEF receive_batch, AddRun, Publish, TakeLease
<1>3. ASSUME NEW r \in Runs, NEW e \in Events, NEW before \in Cursors,
             queue_connector_crawl(r, e, before)
      PROVE  Goal
  BY <1>3 DEF queue_connector_crawl, AddRun, Publish, TakeLease
<1>4. ASSUME NEW r \in Runs, NEW e \in Events,
             retry_run(r, e)
      PROVE  Goal
  BY <1>4 DEF retry_run, Publish, TakeLease, LeaseFreeFor
<1>5. ASSUME NEW f \in FileRuns,
             RetryFileRun(f)
      PROVE  Goal
  BY <1>5 DEF RetryFileRun, TakeLease, LeaseFreeFor
<1>6. ASSUME NEW s \in {"active", "paused", "archived"},
             update_source(s)
      PROVE  Goal
  BY <1>6 DEF update_source
<1>7. CASE ClaimDelivered
  BY <1>7 DEF ClaimDelivered, HandlerFrame, Goto
<1>8. CASE ClaimUnavailable
  BY <1>8 DEF ClaimUnavailable, HandlerFrame, Goto, Claimable, SetStage,
       SetEvent, ReleaseLease
<1>9. CASE ClaimSucceeded
  BY <1>9 DEF ClaimSucceeded, HandlerFrame, Goto, Claimable, SetEvent
<1>10. CASE ClaimBusy
  BY <1>10 DEF ClaimBusy, HandlerFrame, Goto, Claimable
<1>11. CASE ClaimLeaseLost
  BY <1>11 DEF ClaimLeaseLost, HandlerFrame, Goto, ClaimAhead, Claimable,
       SetStage, SetEvent, ReleaseLease
<1>12. CASE ClaimStage
  BY <1>12 DEF ClaimStage, HandlerFrame, Goto, ClaimAhead, Claimable,
       SetStage, LeaseLive
<1>13. ASSUME NEW c \in Cursors, collect_web_job(c)
      PROVE  Goal
  BY <1>13 DEF collect_web_job, MayCollect
<1>14. CASE CountObservations
  BY <1>14 DEF CountObservations, HandlerFrame, Goto, AtCount
<1>15. CASE PermanentFailure
  BY <1>15 DEF PermanentFailure, HandlerFrame, Goto, Working, FailStage,
       SetStage, SetEvent, ReleaseLease
<1>16. CASE RetryExhausted
  BY <1>16 DEF RetryExhausted, HandlerFrame, Goto, Working, FailStage,
       SetStage, SetEvent, ReleaseLease
<1>17. CASE ScheduleRetry
  BY <1>17 DEF ScheduleRetry, HandlerFrame, Goto, Working, SetStage, SetEvent
<1>18. CASE TransientUnavailable
  BY <1>18 DEF TransientUnavailable, HandlerFrame, Goto, Working
<1>19. CASE FinishUnavailable
  BY <1>19 DEF FinishUnavailable, HandlerFrame, Goto, SetStage, ReleaseLease
<1>20. CASE FinishSucceeded
  BY <1>20 DEF FinishSucceeded, HandlerFrame, Goto, SetStage, ReleaseLease
<1>21. CASE mark_event_delivered
  BY <1>21 DEF mark_event_delivered, HandlerFrame, Goto, SetEvent
<1>22. CASE Tick
  BY <1>22 DEF Tick, QueueTick, TimeMayPass, Dec
<1>23. CASE UNCHANGED vars
  BY <1>23 DEF vars
<1>24. QED
  BY <1>1, <1>2, <1>3, <1>4, <1>5, <1>6, <1>7, <1>8, <1>9,
       <1>10, <1>11, <1>12, <1>13, <1>14, <1>15, <1>16, <1>17, <1>18, <1>19,
       <1>20, <1>21, <1>22, <1>23, StepCases

\* The cursor of a source with a live lease is moved only by the worker that
\* collects for the lease's holder.
THEOREM CursorMovedByHolderCorrect == Spec => CursorMovedByHolder
<1>1. BaseInv /\ [Next]_vars
        => [cursor' # cursor => ~LeaseLive \/ (pc = "work" /\ run = lease_run_id)]_vars
  BY CursorStep
<1>2. QED
  BY <1>1, BaseCorrect, PTL DEF Spec, CursorMovedByHolder

\* A step that stores observations is an accepted batch of a new run, or the
\* crawl of the worker's own run under the event's generation.
LEMMA FenceStep ==
    ASSUME BaseInv, [Next]_vars
    PROVE  (\A r \in observed' \ observed :
              /\ source_status = "active"
              /\ kind[r] # "none" => cur # NoEvent /\ run = r /\ ev_generation[cur] = generation)
<1> DEFINE Goal == (\A r \in observed' \ observed :
              /\ source_status = "active"
              /\ kind[r] # "none" => cur # NoEvent /\ run = r /\ ev_generation[cur] = generation)
<1> SUFFICES Goal  OBVIOUS
<1> USE DEF jobVars, dataVars, sourceVars, runVars, stateVars, payloadVars
<1>1. CASE QueueStep /\ UNCHANGED dataVars
  BY <1>1
<1>2. ASSUME NEW r \in Runs, NEW e \in Events, NEW before \in Cursors, NEW
             after \in Cursors,
             receive_batch(r, e, before, after)
      PROVE  Goal
  BY <1>2 DEF receive_batch, AddRun, Publish, TakeLease
<1>3. ASSUME NEW r \in Runs, NEW e \in Events, NEW before \in Cursors,
             queue_connector_crawl(r, e, before)
      PROVE  Goal
  BY <1>3 DEF queue_connector_crawl, AddRun, Publish, TakeLease
<1>4. ASSUME NEW r \in Runs, NEW e \in Events,
             retry_run(r, e)
      PROVE  Goal
  BY <1>4 DEF retry_run, Publish, TakeLease, LeaseFreeFor
<1>5. ASSUME NEW f \in FileRuns,
             RetryFileRun(f)
      PROVE  Goal
  BY <1>5 DEF RetryFileRun, TakeLease, LeaseFreeFor
<1>6. ASSUME NEW s \in {"active", "paused", "archived"},
             update_source(s)
      PROVE  Goal
  BY <1>6 DEF update_source
<1>7. CASE ClaimDelivered
  BY <1>7 DEF ClaimDelivered, HandlerFrame, Goto
<1>8. CASE ClaimUnavailable
  BY <1>8 DEF ClaimUnavailable, HandlerFrame, Goto, Claimable, SetStage,
       SetEvent, ReleaseLease
<1>9. CASE ClaimSucceeded
  BY <1>9 DEF ClaimSucceeded, HandlerFrame, Goto, Claimable, SetEvent
<1>10. CASE ClaimBusy
  BY <1>10 DEF ClaimBusy, HandlerFrame, Goto, Claimable
<1>11. CASE ClaimLeaseLost
  BY <1>11 DEF ClaimLeaseLost, HandlerFrame, Goto, ClaimAhead, Claimable,
       SetStage, SetEvent, ReleaseLease
<1>12. CASE ClaimStage
  BY <1>12 DEF ClaimStage, HandlerFrame, Goto, ClaimAhead, Claimable,
       SetStage, LeaseLive
<1>13. ASSUME NEW c \in Cursors, collect_web_job(c)
      PROVE  Goal
  BY <1>13 DEF collect_web_job, MayCollect, SourceUsable, BaseInv, WorkerShape
<1>14. CASE CountObservations
  BY <1>14 DEF CountObservations, HandlerFrame, Goto, AtCount
<1>15. CASE PermanentFailure
  BY <1>15 DEF PermanentFailure, HandlerFrame, Goto, Working, FailStage,
       SetStage, SetEvent, ReleaseLease
<1>16. CASE RetryExhausted
  BY <1>16 DEF RetryExhausted, HandlerFrame, Goto, Working, FailStage,
       SetStage, SetEvent, ReleaseLease
<1>17. CASE ScheduleRetry
  BY <1>17 DEF ScheduleRetry, HandlerFrame, Goto, Working, SetStage, SetEvent
<1>18. CASE TransientUnavailable
  BY <1>18 DEF TransientUnavailable, HandlerFrame, Goto, Working
<1>19. CASE FinishUnavailable
  BY <1>19 DEF FinishUnavailable, HandlerFrame, Goto, SetStage, ReleaseLease
<1>20. CASE FinishSucceeded
  BY <1>20 DEF FinishSucceeded, HandlerFrame, Goto, SetStage, ReleaseLease
<1>21. CASE mark_event_delivered
  BY <1>21 DEF mark_event_delivered, HandlerFrame, Goto, SetEvent
<1>22. CASE Tick
  BY <1>22 DEF Tick, QueueTick, TimeMayPass, Dec
<1>23. CASE UNCHANGED vars
  BY <1>23 DEF vars
<1>24. QED
  BY <1>1, <1>2, <1>3, <1>4, <1>5, <1>6, <1>7, <1>8, <1>9,
       <1>10, <1>11, <1>12, <1>13, <1>14, <1>15, <1>16, <1>17, <1>18, <1>19,
       <1>20, <1>21, <1>22, <1>23, StepCases

\* Nothing is stored behind the fence of a pause or an archive.
THEOREM NothingStoredBehindFenceCorrect == Spec => NothingStoredBehindFence
<1>1. BaseInv /\ [Next]_vars
        => [\A r \in observed' \ observed :
              kind[r] # "none" =>
                /\ source_status = "active"
                /\ cur # NoEvent /\ run = r /\ ev_generation[cur] = generation]_vars
  BY FenceStep
<1>2. QED
  BY <1>1, BaseCorrect, PTL DEF Spec, NothingStoredBehindFence

-----------------------------------------------------------------------------
(* The stage of the run at work, and completed stages. *)

\* The worker has the stage of its run marked as running.
RunningInv == InProgress => stage[run] = "running"

LEMMA RunningStep ==
    ASSUME BaseInv, OutboxInv, RunningInv, [Next]_vars
    PROVE  RunningInv'
<1> USE DEF RunningInv, InProgress, BaseInv, TypeOK, QueueTypeOK, WorkerShape, PublishedHaveJobs,
            Steps, run, jobVars, dataVars, sourceVars, runVars, stateVars, payloadVars
<1>1. CASE QueueStep /\ UNCHANGED dataVars
  BY <1>1, QueueStepShape
<1>2. ASSUME NEW r \in Runs, NEW e \in Events,
             \/ \E before, after \in Cursors : receive_batch(r, e, before, after)
             \/ \E before \in Cursors : queue_connector_crawl(r, e, before)
      PROVE  RunningInv'
  BY <1>2 DEF OutboxInv, receive_batch, queue_connector_crawl, AddRun, Publish, TakeLease
<1>3. ASSUME NEW r \in Runs, NEW e \in Events, retry_run(r, e)
      PROVE  RunningInv'
  BY <1>3 DEF retry_run, Publish, TakeLease
<1>4. CASE (\E f \in FileRuns : RetryFileRun(f))
           \/ (\E s \in {"active", "paused", "archived"} : update_source(s))
           \/ UNCHANGED vars
  BY <1>4 DEF RetryFileRun, TakeLease, update_source, vars
<1>5. CASE ClaimDelivered \/ ClaimUnavailable \/ ClaimSucceeded \/ ClaimBusy
           \/ ClaimLeaseLost \/ PermanentFailure \/ RetryExhausted \/ ScheduleRetry
           \/ TransientUnavailable \/ FinishUnavailable \/ FinishSucceeded
           \/ mark_event_delivered
  BY <1>5 DEF ClaimDelivered, ClaimUnavailable, ClaimSucceeded, ClaimBusy,
       ClaimLeaseLost, PermanentFailure, RetryExhausted, ScheduleRetry, TransientUnavailable,
       FinishUnavailable, FinishSucceeded, mark_event_delivered, FailStage, Goto
<1>6. CASE ClaimStage
  BY <1>6 DEF ClaimStage, ClaimAhead, Claimable, SetStage, HandlerFrame, Goto
<1>7. CASE (\E c \in Cursors : collect_web_job(c)) \/ CountObservations
  BY <1>7 DEF collect_web_job, CountObservations, AtCount, HandlerFrame, Goto
<1>8. CASE Tick
  BY <1>8 DEF Tick, QueueTick
<1>9. QED
  BY <1>1, <1>2, <1>3, <1>4, <1>5, <1>6, <1>7, <1>8, StepCases

\* The worker never works on a stage that somebody else has settled.
THEOREM RunningCorrect == Spec => []RunningInv
<1>1. Init => RunningInv
  BY DEF Init, QueueInit, RunningInv, InProgress
<1>2. BaseInv /\ OutboxInv /\ RunningInv /\ [Next]_vars => RunningInv'
  BY RunningStep
<1>3. QED
  BY <1>1, <1>2, BaseCorrect, OutboxCorrect, PTL DEF Spec

\* Only the claim under a changed source overwrites a success.
LEMMA CompletedStep ==
    ASSUME BaseInv, OutboxInv, RunningInv, [Next]_vars,
           NEW r \in Runs, stage[r] = "succeeded", stage'[r] # "succeeded"
    PROVE  pc = "claim" /\ run = r /\ ~SourceUsable(cur)
<1> USE DEF BaseInv, TypeOK
<1>1. CASE (QueueStep /\ UNCHANGED dataVars) \/ UNCHANGED vars
  BY <1>1 DEF dataVars, runVars, vars
<1>2. CASE \E q \in Runs, e \in Events :
             \/ \E before, after \in Cursors : receive_batch(q, e, before, after)
             \/ \E before \in Cursors : queue_connector_crawl(q, e, before)
             \/ retry_run(q, e)
  BY <1>2 DEF receive_batch, queue_connector_crawl, AddRun, retry_run, OutboxInv
<1>3. CASE (\E f \in FileRuns : RetryFileRun(f))
           \/ (\E s \in {"active", "paused", "archived"} : update_source(s))
           \/ Tick
  BY <1>3 DEF RetryFileRun, update_source, Tick, runVars
<1>4. CASE process_ingestion_event
  <2>1. InProgress => stage[run] = "running"
    BY DEF RunningInv
  <2>2. CASE ClaimUnavailable
    BY <2>2 DEF ClaimUnavailable, Claimable, SetStage
  <2>3. CASE ClaimLeaseLost \/ ClaimStage
    BY <2>3 DEF ClaimLeaseLost, ClaimStage, ClaimAhead, SetStage
  <2>4. CASE PermanentFailure \/ RetryExhausted \/ ScheduleRetry
    BY <2>1, <2>4 DEF PermanentFailure, RetryExhausted, ScheduleRetry, Working, InProgress,
       FailStage, SetStage
  <2>5. CASE FinishUnavailable \/ FinishSucceeded
    BY <2>1, <2>5 DEF FinishUnavailable, FinishSucceeded, InProgress, SetStage
  <2>6. CASE \/ ClaimDelivered \/ ClaimSucceeded \/ ClaimBusy \/ CountObservations
             \/ (\E c \in Cursors : collect_web_job(c)) \/ TransientUnavailable
             \/ mark_event_delivered
    BY <2>6 DEF ClaimDelivered, ClaimSucceeded, ClaimBusy, CountObservations,
       collect_web_job, TransientUnavailable, mark_event_delivered
  <2>7. QED
    BY <1>4, <2>2, <2>3, <2>4, <2>5, <2>6 DEF process_ingestion_event
<1>5. QED
  BY <1>1, <1>2, <1>3, <1>4 DEF Next, Api, Dispatcher, Arq, QueueStep

\* A completed stage survives reruns, crashes and left-over rows.
THEOREM CompletedStageIsKeptCorrect == Spec => CompletedStageIsKept
<1>1. BaseInv /\ OutboxInv /\ RunningInv /\ [Next]_vars
        => [\A r \in Runs :
              stage[r] = "succeeded" /\ stage'[r] # "succeeded" =>
                pc = "claim" /\ run = r /\ ~SourceUsable(cur)]_vars
  BY CompletedStep
<1>2. QED
  BY <1>1, BaseCorrect, OutboxCorrect, RunningCorrect, PTL DEF Spec, CompletedStageIsKept

-----------------------------------------------------------------------------
(* The ledger of the runs. *)

\* Every row of a run has its stage, and a run in its last transaction its batch.
LedgerInv ==
    /\ \A r \in Runs : kind[r] # "none" => stage[r] # "none"
    /\ pc = "finish" => run \in observed

LEMMA LedgerInvStep ==
    ASSUME BaseInv, OutboxInv, LedgerInv, [Next]_vars
    PROVE  LedgerInv'
<1> USE DEF LedgerInv, BaseInv, TypeOK, QueueTypeOK, WorkerShape, PublishedHaveJobs,
            Steps, run, jobVars, dataVars, sourceVars, runVars, stateVars, payloadVars
<1>1. CASE QueueStep /\ UNCHANGED dataVars
  BY <1>1, QueueStepShape
<1>2. ASSUME NEW r \in Runs, NEW e \in Events,
             \/ \E before, after \in Cursors : receive_batch(r, e, before, after)
             \/ \E before \in Cursors : queue_connector_crawl(r, e, before)
      PROVE  LedgerInv'
  BY <1>2 DEF receive_batch, queue_connector_crawl, AddRun, Publish
<1>3. ASSUME NEW r \in Runs, NEW e \in Events, retry_run(r, e)
      PROVE  LedgerInv'
  BY <1>3 DEF retry_run, Publish
<1>4. CASE (\E f \in FileRuns : RetryFileRun(f))
           \/ (\E s \in {"active", "paused", "archived"} : update_source(s))
           \/ Tick \/ UNCHANGED vars
  BY <1>4 DEF RetryFileRun, update_source, Tick, QueueTick, vars
<1>5. CASE ClaimDelivered \/ ClaimUnavailable \/ ClaimSucceeded \/ ClaimBusy
           \/ ClaimLeaseLost \/ ClaimStage
  BY <1>5 DEF ClaimDelivered, ClaimUnavailable, ClaimSucceeded, ClaimBusy,
       ClaimLeaseLost, ClaimStage, Goto, HandlerFrame, SetStage
<1>6. CASE PermanentFailure \/ RetryExhausted \/ ScheduleRetry \/ TransientUnavailable
           \/ FinishUnavailable \/ FinishSucceeded \/ mark_event_delivered
  BY <1>6 DEF PermanentFailure, RetryExhausted, ScheduleRetry, TransientUnavailable,
       FinishUnavailable, FinishSucceeded, mark_event_delivered, FailStage, Goto,
       HandlerFrame, SetStage
<1>7. CASE (\E c \in Cursors : collect_web_job(c)) \/ CountObservations
  BY <1>7 DEF collect_web_job, CountObservations, HandlerFrame, Goto
<1>8. QED
  BY <1>1, <1>2, <1>3, <1>4, <1>5, <1>6, <1>7, StepCases

\* A new row adds its generation to what its run was asked for under.
LEMMA AskedMore ==
    ASSUME BaseInv, NEW r \in Runs, NEW e \in Events, NEW g \in Nat, ev_run[e] = NoRun,
           ev_run' = [ev_run EXCEPT ![e] = r], ev_generation' = [ev_generation EXCEPT ![e] = g]
    PROVE  Asked' = [Asked EXCEPT ![r] = @ \cup {g}]
<1> USE DEF BaseInv, TypeOK
<1>1. ASSUME NEW q \in Runs
      PROVE  {ev_generation'[x] : x \in {y \in Events : ev_run'[y] = q}}
               = {ev_generation[x] : x \in {y \in Events : ev_run[y] = q}}
                   \cup (IF q = r THEN {g} ELSE {})
  <2>1. NoRun # q
    OBVIOUS
  <2>2. \A x \in Events \ {e} : ev_run'[x] = ev_run[x] /\ ev_generation'[x] = ev_generation[x]
    OBVIOUS
  <2>3. ev_run'[e] = r /\ ev_generation'[e] = g
    OBVIOUS
  <2>4. QED
    BY <2>1, <2>2, <2>3
<1>2. QED
  BY <1>1 DEF Asked

\* Only the life of a run whose stage is written changes.
LEMMA LifeWritten ==
    ASSUME BaseInv, NEW r \in Runs, NEW status \in StageStatus, stage' = [stage EXCEPT ![r] = status]
    PROVE  Life' = [Life EXCEPT ![r] = IF status \in Open THEN "open" ELSE status]
BY DEF BaseInv, TypeOK, Life

\* A stage that is written is settled in the ledger, or its run is as it was.
LEMMA Settled ==
    ASSUME BaseInv, NEW r \in Runs, NEW status \in {"succeeded", "failed"},
           SetStage(r, status), UNCHANGED <<sourceVars, payloadVars, observed>>
    PROVE  Ledger!Settle(r, status)
<1>0. status \in StageStatus /\ status \notin Open
  BY DEF StageStatus, Open
<1>1. Life' = [Life EXCEPT ![r] = status]
  BY <1>0, LifeWritten DEF SetStage
<1>2. Asked' = Asked
  BY DEF Asked, payloadVars
<1>3. QED
  BY <1>1, <1>2 DEF Ledger!Settle, sourceVars

\* An open run stays open whatever its stage's status.
LEMMA StaysOpen ==
    ASSUME BaseInv, NEW r \in Runs, stage[r] \in Open, NEW status \in Open, SetStage(r, status)
    PROVE  Life' = Life
<1>1. Life' = [Life EXCEPT ![r] = "open"]
  BY LifeWritten DEF SetStage, StageStatus, Open
<1>2. Life[r] = "open" /\ Life = [q \in Runs |-> Life[q]]
  BY DEF Life
<1>3. QED
  BY <1>1, <1>2

\* The worker's row is one of its run's requests, and it stands while it is usable.
LEMMA RowIsRequest ==
    ASSUME BaseInv, pc # "idle"
    PROVE  /\ cur \in Events /\ run \in Runs
           /\ SourceUsable(cur) => Ledger!Stands(run)
           /\ ~SourceUsable(cur) => source_status # "active" \/ Asked[run] # {generation}
<1>1. cur \in Events /\ run \in Runs
  BY HandlerRun
<1>2. ev_generation[cur] \in Asked[run]
  BY <1>1 DEF Asked, run
<1>3. QED
  BY <1>1, <1>2 DEF SourceUsable, Ledger!Stands

\* Each step is one of the ledger's or cannot be seen there.
LEMMA LedgerStep ==
    ASSUME BaseInv, LeaseHolderUnsettled, OutboxInv, RunningInv, LedgerInv, [Next]_vars
    PROVE  [Ledger!Next]_<<source_status, generation, Life, Asked, observed>>
<1> DEFINE Goal == [Ledger!Next]_<<source_status, generation, Life, Asked, observed>>
<1> SUFFICES Goal  OBVIOUS
<1>0. generation \in Nat /\ generation \in 0..generation
  BY DEF BaseInv, TypeOK
<1>1. ASSUME UNCHANGED <<sourceVars, stage, observed, payloadVars>>
      PROVE  Goal
  BY <1>1 DEF Life, Asked, sourceVars, payloadVars
<1>2. ASSUME NEW r \in Runs, NEW e \in Events,
             \/ \E before, after \in Cursors : receive_batch(r, e, before, after)
             \/ \E before \in Cursors : queue_connector_crawl(r, e, before)
      PROVE  Goal
  <2>1. /\ stage[r] = "none" /\ stage' = [stage EXCEPT ![r] = "pending"]
        /\ observed' = observed \/ observed' = observed \cup {r}
        /\ UNCHANGED <<source_status, generation>>
    BY <1>2 DEF receive_batch, queue_connector_crawl, AddRun, OutboxInv, sourceVars
  <2>2. Asked' = [Asked EXCEPT ![r] = @ \cup {generation}]
    BY <1>0, <1>2, AskedMore DEF receive_batch, queue_connector_crawl, Publish
  <2>3. Life' = [Life EXCEPT ![r] = "open"] /\ Life[r] = "none"
    BY <2>1, LifeWritten DEF StageStatus, Open, Life
  <2>4. Ledger!Open(r)
    BY <1>0, <2>1, <2>2, <2>3, Zenon DEF Ledger!Open
  <2>5. Ledger!Accept(r)
    BY <2>1, <2>3, <2>4 DEF Ledger!Accept
  <2>6. QED
    BY <2>5 DEF Ledger!Next
<1>3. ASSUME NEW r \in Runs, NEW e \in Events, retry_run(r, e)
      PROVE  Goal
  <2>1. /\ stage[r] = "failed" /\ stage' = [stage EXCEPT ![r] = "pending"]
        /\ source_status = "active"
        /\ UNCHANGED <<source_status, generation, observed>>
    BY <1>3 DEF retry_run, sourceVars
  <2>2. Asked' = [Asked EXCEPT ![r] = @ \cup {generation}]
    BY <1>0, <1>3, AskedMore DEF retry_run, Publish
  <2>3. Life' = [Life EXCEPT ![r] = "open"] /\ Life[r] = "failed"
    BY <2>1, LifeWritten DEF StageStatus, Open, Life
  <2>4. generation \in Asked'[r]
    BY <2>2 DEF Asked
  <2>5. Ledger!Open(r)
    BY <1>0, <2>1, <2>2, <2>3, Zenon DEF Ledger!Open
  <2>6. Ledger!Retry(r)
    BY <2>1, <2>3, <2>4, <2>5 DEF Ledger!Retry
  <2>7. QED
    BY <2>6 DEF Ledger!Next
<1>4. ASSUME NEW s \in {"active", "paused", "archived"}, update_source(s)
      PROVE  Goal
  <2>1. Ledger!ChangeStatus(s)
    BY <1>4 DEF update_source, Ledger!ChangeStatus, Life, Asked, runVars, payloadVars
  <2>2. QED
    BY <2>1 DEF Ledger!Next
<1>5. CASE \/ QueueStep /\ UNCHANGED dataVars
           \/ \E f \in FileRuns : RetryFileRun(f)
           \/ Tick \/ UNCHANGED vars
           \/ ClaimDelivered \/ ClaimSucceeded \/ ClaimBusy
           \/ CountObservations \/ TransientUnavailable \/ mark_event_delivered
  BY <1>1, <1>5 DEF dataVars, vars, runVars, RetryFileRun, Tick, ClaimDelivered,
     ClaimSucceeded, ClaimBusy, CountObservations, TransientUnavailable, mark_event_delivered,
     HandlerFrame
<1>6. CASE ClaimUnavailable
  <2>1. /\ run \in Runs /\ kind[run] # "none"
        /\ source_status # "active" \/ Asked[run] # {generation}
    BY <1>6, RowIsRequest DEF ClaimUnavailable, Claimable, OutboxInv, run, BaseInv, TypeOK
  <2>2. Ledger!Settle(run, "failed")
    BY <1>6, <2>1, Settled DEF ClaimUnavailable, HandlerFrame
  <2>3. Life[run] \in {"open", "succeeded", "failed"}
    BY <2>1 DEF LedgerInv, Life, BaseInv, TypeOK, StageStatus, Open
  <2>4. CASE Life[run] = "open"
    BY <2>1, <2>2, <2>4 DEF Ledger!Fail, Ledger!Next
  <2>5. CASE Life[run] = "succeeded"
    BY <2>1, <2>2, <2>5 DEF Ledger!Withdraw, Ledger!Next
  <2>6. CASE Life[run] = "failed"
    BY <2>1, <2>2, <2>6 DEF Ledger!Settle, Life
  <2>7. QED
    BY <2>3, <2>4, <2>5, <2>6
<1>7. CASE ClaimLeaseLost
  <2>1. run \in Runs /\ kind[run] # "none" /\ stage[run] # "succeeded"
    BY <1>7, RowIsRequest DEF ClaimLeaseLost, ClaimAhead, Claimable, OutboxInv, run, BaseInv,
       TypeOK
  <2>2. Ledger!Settle(run, "failed")
    BY <1>7, <2>1, Settled DEF ClaimLeaseLost, HandlerFrame
  <2>3. Life[run] \in {"open", "failed"}
    BY <2>1 DEF LedgerInv, Life, BaseInv, TypeOK, StageStatus, Open
  <2>4. CASE Life[run] = "open"
    BY <2>1, <2>2, <2>4 DEF Ledger!Fail, Ledger!Next
  <2>5. CASE Life[run] = "failed"
    BY <2>1, <2>2, <2>5 DEF Ledger!Settle, Life
  <2>6. QED
    BY <2>3, <2>4, <2>5
<1>8. CASE ClaimStage \/ ScheduleRetry
  <2>1. run \in Runs /\ stage[run] \in Open
    BY <1>8, RowIsRequest DEF ClaimStage, ClaimAhead, Claimable, LeaseHolderUnsettled,
       ScheduleRetry, Working, RunningInv, InProgress, Open
  <2>2. Life' = Life
    BY <1>8, <2>1, StaysOpen DEF ClaimStage, ScheduleRetry, Open
  <2>3. QED
    BY <1>8, <2>2 DEF ClaimStage, ScheduleRetry, HandlerFrame, sourceVars, payloadVars, Asked
<1>9. ASSUME NEW c \in Cursors, collect_web_job(c)
       PROVE  Goal
  <2>1. run \in Runs /\ Ledger!Stands(run) /\ Life[run] = "open"
    BY <1>9, RowIsRequest DEF collect_web_job, MayCollect, RunningInv, InProgress, Life, Open
  <2>2. Ledger!Store(run)
    BY <1>9, <2>1 DEF collect_web_job, HandlerFrame, sourceVars, payloadVars, Ledger!Store,
       Life, Asked
  <2>3. QED
    BY <2>1, <2>2 DEF Ledger!Next
<1>10. CASE PermanentFailure \/ RetryExhausted \/ FinishUnavailable
  <2>1. run \in Runs /\ Life[run] = "open"
    BY <1>10, RowIsRequest DEF PermanentFailure, RetryExhausted, FinishUnavailable, Working,
       RunningInv, InProgress, Life, Open
  <2>2. Ledger!Settle(run, "failed")
    BY <1>10, <2>1, Settled DEF PermanentFailure, RetryExhausted, FinishUnavailable, FailStage,
       HandlerFrame
  <2>3. QED
    BY <2>1, <2>2 DEF Ledger!Fail, Ledger!Next
<1>11. CASE FinishSucceeded
  <2>1. run \in Runs /\ Ledger!Stands(run) /\ Life[run] = "open" /\ run \in observed
    BY <1>11, RowIsRequest DEF FinishSucceeded, RunningInv, InProgress, Life, Open, LedgerInv
  <2>2. Ledger!Settle(run, "succeeded")
    BY <1>11, <2>1, Settled DEF FinishSucceeded, HandlerFrame
  <2>3. QED
    BY <2>1, <2>2 DEF Ledger!Succeed, Ledger!Next
<1>12. QED
  BY <1>2, <1>3, <1>4, <1>5, <1>6, <1>7, <1>8, <1>9, <1>10, <1>11, StepCases

LEMMA LedgerInit == Init => Ledger!Init /\ LedgerInv
BY DEF Init, QueueInit, Ledger!Init, LedgerInv, Life, Asked, Open

THEOREM LedgerInvCorrect == Spec => []LedgerInv
<1>1. Init => LedgerInv
  BY LedgerInit
<1>2. BaseInv /\ OutboxInv /\ LedgerInv /\ [Next]_vars => LedgerInv'
  BY LedgerInvStep
<1>3. QED
  BY <1>1, <1>2, BaseCorrect, OutboxCorrect, PTL DEF Spec

\* Seen from outside the runs are the requests of RunLedger: they are stored and
\* succeed under a request that stands, fail, and are reopened by a retry only.
THEOREM RunsFollowLedgerCorrect == Spec => RunsFollowLedger
<1>1. Init => Ledger!Init
  BY LedgerInit
<1>2. BaseInv /\ LeaseHolderUnsettled /\ OutboxInv /\ RunningInv /\ LedgerInv /\ [Next]_vars
        => [Ledger!Next]_<<source_status, generation, Life, Asked, observed>>
  BY LedgerStep
<1>3. QED
  BY <1>1, <1>2, BaseCorrect, LeaseHolderUnsettledCorrect, OutboxCorrect, RunningCorrect,
     LedgerInvCorrect, PTL DEF Spec, RunsFollowLedger, Ledger!Spec

-----------------------------------------------------------------------------
(* CollectorRequests.  A step is a step of Ingestion, or it accepts a run   *)
(* for a request whose copy of the source may be old.  What is proved above *)
(* of the former is used as it is; left are the two ways of accepting a run, *)
(* and what the copies and the runs' statuses add.                          *)

\* Every step but the acceptance of a run is one of Ingestion.
LEMMA RequestStepCases ==
    ASSUME RequestsTypeOK, [RequestsNext]_allVars
    PROVE  \/ [Next]_vars
           \/ \E r \in Runs, e \in Events, before \in Cursors, after \in Cursors :
                 receive_connector_batch(r, e, before, after)
           \/ \E r \in Runs, e \in Events : submit_crawl(r, e)
<1>1. CASE LoadForSync \/ LoadForCrawl \/ LoadState \/ RequestEnds
  BY <1>1 DEF LoadForSync, LoadForCrawl, LoadState, RequestEnds
<1>2. CASE (\E r \in Runs : LoadForRetry(r)) \/ LoadRun \/ UNCHANGED allVars
  BY <1>2 DEF LoadForRetry, LoadRun, allVars
<1>3. CASE RequestAtOnce \/ \E e \in Events : RetryCommits(e)
  BY <1>3 DEF RequestAtOnce, RetryCommits, RequestsTypeOK, Next, Api
<1>4. CASE RunWritten
  BY <1>4 DEF RunWritten, WritesRun, Next, process_ingestion_event
<1>5. CASE RunUnwritten \/ RunNotLoaded
  BY <1>5 DEF RunUnwritten, RunNotLoaded, Next, process_ingestion_event
<1>6. CASE TimePasses \/ QueueGoesOn
  BY <1>6 DEF TimePasses, QueueGoesOn, Next
<1>7. QED
  BY <1>1, <1>2, <1>3, <1>4, <1>5, <1>6 DEF RequestsNext, Requests, Next, Api

-----------------------------------------------------------------------------
(* Types. *)

\* A retry in progress has loaded a run.
RequestsBase == RequestsTypeOK /\ BaseInv

\* A run is accepted without touching the job queue.
LEMMA AcceptKeepsBase ==
    ASSUME RequestsBase, NEW r \in Runs, NEW e \in Events, NEW key \in StageKey,
           Accept(r, e, key), observed' \in SUBSET Runs, cursor' \in Cursors
    PROVE  BaseInv'
BY DEF RequestsBase, RequestsTypeOK, BaseInv, TypeOK, QueueTypeOK, WorkerShape, PublishedHaveJobs,
       Steps, StageKey, StageStatus, EventStatus, Accept, AddRun, TakeLease, NoRequest,
       sourceVars

LEMMA BaseKept ==
    ASSUME RequestsBase, [RequestsNext]_allVars
    PROVE  BaseInv'
<1>1. ASSUME NEW r \in Runs, NEW e \in Events, NEW before \in Cursors, NEW after \in Cursors,
             receive_connector_batch(r, e, before, after)
      PROVE  BaseInv'
  BY <1>1, AcceptKeepsBase DEF receive_connector_batch, RequestsBase, BaseInv, TypeOK, StageKey
<1>2. ASSUME NEW r \in Runs, NEW e \in Events, submit_crawl(r, e)
      PROVE  BaseInv'
  BY <1>2, AcceptKeepsBase DEF submit_crawl, RequestsBase, BaseInv, TypeOK, StageKey
<1>3. QED
  BY <1>1, <1>2, RequestStepCases, BaseStep DEF RequestsBase

\* A request that has ended has loaded nothing.
LEMMA NoRequestTyped ==
    ASSUME NoRequest
    PROVE  /\ request' \in {"none", "sync", "crawl_source", "crawl", "retry"}
           /\ seen_generation' \in 0..MaxGeneration
           /\ seen_state' \in BOOLEAN
           /\ seen_left' \in 0..CollectionLease
           /\ seen_run' \in Runs \cup {NoRun}
           /\ request' = "retry" => seen_run' \in Runs
           /\ seen_status' \in RunStatus
<1>1. seen_state' \in BOOLEAN
  BY Zenon DEF NoRequest
<1>2. QED
  BY <1>1 DEF NoRequest, RunStatus

\* The variables of this module keep their types.
LEMMA RequestsTypeStep ==
    ASSUME RequestsBase, [RequestsNext]_allVars
    PROVE  RequestsTypeOK'
<1> DEFINE Goal == RequestsTypeOK'
<1> SUFFICES Goal  OBVIOUS
<1>0. TypeOK'
  BY BaseKept DEF BaseInv
<1>a. pc # "idle" => run \in Runs
  BY HandlerRun DEF RequestsBase
<1> USE <1>0 DEF RequestsBase, RequestsTypeOK, RunStatus, statusVars, requestVars, historyVars,
               requestsVars, Written
<1>b. generation \in 0..MaxGeneration /\ lease_left \in 0..CollectionLease
      /\ lease_run_id \in Runs \cup FileRuns \cup {NoRun}
  BY DEF TypeOK
<1>1. CASE LoadForSync
  BY <1>1, <1>b DEF LoadForSync
<1>2. CASE LoadForCrawl
  BY <1>2, <1>b DEF LoadForCrawl
<1>3. CASE RequestEnds
  BY <1>3, NoRequestTyped DEF RequestEnds
<1>4. ASSUME NEW r \in Runs, NEW e \in Events, NEW before \in Cursors, NEW after \in Cursors,
             receive_connector_batch(r, e, before, after)
      PROVE  Goal
  BY <1>4, NoRequestTyped DEF receive_connector_batch, Accept
<1>5. ASSUME NEW r \in Runs, NEW e \in Events, submit_crawl(r, e)
      PROVE  Goal
  BY <1>5, NoRequestTyped DEF submit_crawl, Accept
<1>6. ASSUME NEW r \in Runs, LoadForRetry(r)
      PROVE  Goal
  BY <1>6 DEF LoadForRetry
<1>7. ASSUME NEW e \in Events, RetryCommits(e)
      PROVE  Goal
  BY <1>7, NoRequestTyped DEF RetryCommits
<1>8. CASE LoadRun
  BY <1>8, <1>a DEF LoadRun
<1>9. CASE RunWritten
  <2>1. pc # "idle"
    BY <1>9 DEF RunWritten, WritesRun, ClaimUnavailable, ClaimLeaseLost, ClaimAhead, ClaimStage,
         Claimable, PermanentFailure, RetryExhausted, ScheduleRetry, Working,
         FinishUnavailable, FinishSucceeded
  <2>2. RunStatusOf[stage'[run]] \in RunStatus
    BY <1>a, <2>1, <1>0 DEF TypeOK, StageStatus, RunStatusOf
  <2>3. QED
    BY <1>9, <2>2 DEF RunWritten
<1>10. CASE RunUnwritten
  BY <1>10 DEF RunUnwritten
<1>11. CASE RunNotLoaded
  BY <1>11 DEF RunNotLoaded
<1>12. CASE QueueGoesOn
  BY <1>12 DEF QueueGoesOn
<1>13. CASE TimePasses
  BY <1>13 DEF TimePasses, Dec
<1>14. ASSUME NEW f \in FileRuns, RetryFileRun(f) /\ UNCHANGED requestsVars
      PROVE  Goal
  BY <1>14
<1>15. ASSUME NEW s \in {"active", "paused", "archived"}, update_source(s) /\ UNCHANGED requestsVars
      PROVE  Goal
  BY <1>15
<1>16. CASE UNCHANGED allVars
  BY <1>16 DEF allVars
<1>17. CASE RequestAtOnce
  BY <1>17 DEF RequestAtOnce
<1>18. CASE LoadState
  <2>1. seen_state' \in BOOLEAN
    BY <1>18, Zenon DEF LoadState, HasState
  <2>2. QED
    BY <1>18, <1>b, <2>1 DEF LoadState
<1>19. QED
  BY <1>1, <1>2, <1>3, <1>4, <1>5, <1>6, <1>7, <1>8, <1>9, <1>10, <1>11, <1>12, <1>13,
     <1>14, <1>15, <1>16, <1>17, <1>18 DEF RequestsNext, Requests

\* Types, the worker's shape and the published rows, with copies of any age.
THEOREM RequestsBaseCorrect == RequestsSpec => []RequestsBase
<1>1. RequestsInit => RequestsBase
  <2>1. RequestsInit => BaseInv
    BY BaseInit DEF RequestsInit
  <2>2. RequestsInit => seen_state \in BOOLEAN
    BY Zenon DEF RequestsInit
  <2>3. QED
    BY <2>1, <2>2 DEF RequestsInit, RequestsBase, BaseInv, RequestsTypeOK, RunStatus
<1>2. RequestsBase /\ [RequestsNext]_allVars => RequestsBase'
  BY BaseKept, RequestsTypeStep DEF RequestsBase
<1>3. QED
  BY <1>1, <1>2, PTL DEF RequestsSpec

-----------------------------------------------------------------------------
(* The collection lease and the outbox. *)

\* What holds of the lease and the outbox although copies are old.
RunsInv == LeaseHolderUnsettled /\ OutboxInv /\ RunningInv

\* An accepted run is pending with a live row, and it was not there before.
LEMMA AcceptKeepsRuns ==
    ASSUME RequestsBase, RunsInv, NEW r \in Runs, NEW e \in Events,
           NEW key \in {"receive", "collect_web"}, Accept(r, e, key)
    PROVE  RunsInv'
<1> USE DEF RequestsBase, BaseInv, TypeOK, QueueTypeOK, WorkerShape, PublishedHaveJobs, Steps,
            RunsInv, Accept, AddRun, TakeLease, NoRequest, Open, StageStatus, run
<1>1. LeaseHolderUnsettled'
  BY DEF LeaseHolderUnsettled
<1>2. RunningInv'
  BY DEF RunningInv, OutboxInv, InProgress
<1>3. UnsettledRunIsInOutbox'
  BY DEF OutboxInv, UnsettledRunIsInOutbox, LiveEvent
<1>4. OutboxInv'
  BY <1>3 DEF OutboxInv, InProgress
<1>5. QED
  BY <1>1, <1>2, <1>4

LEMMA RunsStep ==
    ASSUME RequestsBase, RunsInv, [RequestsNext]_allVars
    PROVE  RunsInv'
<1>1. ASSUME NEW r \in Runs, NEW e \in Events, NEW before \in Cursors, NEW after \in Cursors,
             receive_connector_batch(r, e, before, after)
      PROVE  RunsInv'
  BY <1>1, AcceptKeepsRuns DEF receive_connector_batch
<1>2. ASSUME NEW r \in Runs, NEW e \in Events, submit_crawl(r, e)
      PROVE  RunsInv'
  BY <1>2, AcceptKeepsRuns DEF submit_crawl
<1>3. CASE [Next]_vars
  BY <1>3, HolderStep, OutboxStep, RunningStep DEF RunsInv, RequestsBase
<1>4. QED
  BY <1>1, <1>2, <1>3, RequestStepCases DEF RequestsBase

THEOREM RunsCorrect == RequestsSpec => []RunsInv
<1>1. RequestsInit => RunsInv
  BY DEF RequestsInit, RunsInv, Init, QueueInit, LeaseHolderUnsettled, OutboxInv,
         UnsettledRunIsInOutbox, RunningInv, InProgress, Open
<1>2. RequestsBase /\ RunsInv /\ [RequestsNext]_allVars => RunsInv'
  BY RunsStep
<1>3. QED
  BY <1>1, <1>2, RequestsBaseCorrect, PTL DEF RequestsSpec

\* With copies of any age a settled run still never holds the lease.
THEOREM RequestsHolderUnsettled == RequestsSpec => []LeaseHolderUnsettled
BY RunsCorrect, PTL DEF RunsInv

\* With copies of any age an unsettled run is still in the outbox.
THEOREM RequestsUnsettledInOutbox == RequestsSpec => []UnsettledRunIsInOutbox
<1>1. RunsInv => UnsettledRunIsInOutbox
  BY DEF RunsInv, OutboxInv
<1>2. QED
  BY <1>1, RunsCorrect, PTL

-----------------------------------------------------------------------------
(* What a stale crawl can take. *)

TakeoverInv ==
    /\ LeaseLostToStaleCrawlOnly
    /\ \A r \in overtaken : lease_run_id # r /\ kind[r] # "none"

\* The worker gives the lease to nobody.
LEMMA WorkerFrame ==
    ASSUME RunWritten \/ RunUnwritten \/ RunNotLoaded
    PROVE  /\ HandlerFrame
           /\ lease_run_id' \in {lease_run_id, NoRun}
           /\ UNCHANGED historyVars
<1>1. CASE RunWritten
  BY <1>1 DEF RunWritten, WritesRun, ClaimUnavailable, ClaimLeaseLost, ClaimStage,
       PermanentFailure, RetryExhausted, ScheduleRetry, FinishUnavailable, FinishSucceeded,
       FailStage, ReleaseLease
<1>2. CASE RunUnwritten
  BY <1>2 DEF RunUnwritten, ClaimSucceeded, ClaimBusy, TransientUnavailable, stateVars
<1>3. CASE RunNotLoaded
  BY <1>3 DEF RunNotLoaded, ClaimDelivered, CountObservations,
       mark_event_delivered, collect_web_job, stateVars, requestsVars
<1>4. QED
  BY <1>1, <1>2, <1>3

\* While the worker goes on it goes on with the same run.
LEMMA SameRun ==
    ASSUME BaseInv, InProgress, [Next]_vars, InProgress'
    PROVE  run' = run
<1> USE DEF InProgress, BaseInv, TypeOK, QueueTypeOK, WorkerShape, PublishedHaveJobs, Steps,
            run, jobVars, dataVars, sourceVars, runVars, stateVars, payloadVars
<1>1. CASE QueueStep /\ UNCHANGED dataVars
  BY <1>1, QueueStepShape
<1>2. CASE \E r \in Runs, e \in Events :
             \/ \E before, after \in Cursors : receive_batch(r, e, before, after)
             \/ \E before \in Cursors : queue_connector_crawl(r, e, before)
             \/ retry_run(r, e)
  BY <1>2 DEF receive_batch, queue_connector_crawl, retry_run, Publish
<1>3. CASE (\E f \in FileRuns : RetryFileRun(f))
           \/ (\E s \in {"active", "paused", "archived"} : update_source(s))
           \/ UNCHANGED vars \/ Tick
  BY <1>3 DEF RetryFileRun, update_source, vars, Tick, QueueTick
<1>4. CASE process_ingestion_event
  BY <1>4 DEF process_ingestion_event, ClaimDelivered, ClaimUnavailable,
       ClaimSucceeded, ClaimBusy, ClaimLeaseLost, ClaimStage, ClaimAhead, Claimable,
       PermanentFailure, RetryExhausted, ScheduleRetry, TransientUnavailable,
       FinishUnavailable, FinishSucceeded, mark_event_delivered, FailStage,
       collect_web_job, CountObservations, Goto, HandlerFrame
<1>5. QED
  BY <1>1, <1>2, <1>3, <1>4 DEF Next, Api, Dispatcher, Arq, QueueStep

\* Nobody but a crawl whose copy is old takes the lease from the worker's run,
\* and that run does not get it back unless it is retried.
LEMMA TakeoverStep ==
    ASSUME RequestsBase, RunsInv, TakeoverInv, [RequestsNext]_allVars
    PROVE  TakeoverInv'
<1> USE DEF RequestsBase, TakeoverInv
<1>1. ASSUME NEW r \in Runs, NEW e \in Events, NEW before \in Cursors, NEW after \in Cursors,
             receive_connector_batch(r, e, before, after)
      PROVE  TakeoverInv'
  <2>1. overtaken' = overtaken /\ UNCHANGED <<pc, cur, ttl>> /\ ~LeaseLive
    BY <1>1 DEF receive_connector_batch, Accept
  <2>2. InProgress => run' = run /\ ttl[cur] \in Nat
    BY <1>1 DEF receive_connector_batch, Accept, run, InProgress, BaseInv, WorkerShape,
         PublishedHaveJobs, TypeOK, QueueTypeOK
  <2>3. LeaseLostToStaleCrawlOnly'
    BY <2>1, <2>2 DEF LeaseLostToStaleCrawlOnly, InProgress, LeaseLive, BaseInv, TypeOK
  <2>4. QED
    BY <1>1, <2>1, <2>3 DEF receive_connector_batch, Accept, AddRun, TakeLease, BaseInv, TypeOK
<1>2. ASSUME NEW r \in Runs, NEW e \in Events, submit_crawl(r, e)
      PROVE  TakeoverInv'
  <2>1. UNCHANGED <<pc, cur, ttl>> /\ overtaken \subseteq overtaken'
    BY <1>2 DEF submit_crawl, Accept
  <2>2. InProgress => run \in Runs /\ run' = run /\ ttl[cur] \in Nat
    BY <1>2 DEF submit_crawl, Accept, run, InProgress, BaseInv, WorkerShape,
         PublishedHaveJobs, TypeOK, QueueTypeOK
  <2>3. LeaseLostToStaleCrawlOnly'
    BY <1>2, <2>1, <2>2 DEF submit_crawl, LeaseLostToStaleCrawlOnly, InProgress, LeaseLive,
       BaseInv, TypeOK
  <2>4. lease_run_id \in Runs => kind[lease_run_id] # "none" /\ lease_run_id # r
    BY <1>2 DEF submit_crawl, Accept, AddRun, RunsInv, LeaseHolderUnsettled, OutboxInv, Open
  <2>5. QED
    BY <1>2, <2>3, <2>4 DEF submit_crawl, Accept, AddRun, TakeLease, BaseInv, TypeOK
<1>3. ASSUME [Next]_vars, overtaken \subseteq overtaken' \cup {r \in Runs : stage[r] = "failed"}
      PROVE  LeaseLostToStaleCrawlOnly'
  <2>1. CASE WorkerHoldsLease
    BY <1>3, <2>1, WorkerLeaseStep DEF RunsInv, WorkerHoldsLease, LeaseLostToStaleCrawlOnly
  <2>2. CASE ~WorkerHoldsLease
    BY <1>3, <2>2, SameRun DEF RunsInv, RunningInv, WorkerHoldsLease,
       LeaseLostToStaleCrawlOnly
  <2>3. QED
    BY <2>1, <2>2
<1>4. ASSUME NEW e \in Events, RetryCommits(e)
      PROVE  TakeoverInv'
  <2>1. seen_run \in Runs /\ stage[seen_run] = "failed"
    BY <1>4 DEF RetryCommits, retry_run, RequestsTypeOK
  <2>2. LeaseLostToStaleCrawlOnly'
    BY <1>3, <1>4, <2>1 DEF RetryCommits, Next, Api
  <2>3. QED
    BY <1>4, <2>2 DEF RetryCommits, retry_run, TakeLease
<1>5. CASE RunWritten \/ RunUnwritten \/ RunNotLoaded
  <2>1. [Next]_vars
    BY <1>5 DEF RunWritten, WritesRun, RunUnwritten, RunNotLoaded, Next,
       process_ingestion_event
  <2>2. LeaseLostToStaleCrawlOnly'
    BY <1>3, <1>5, <2>1, WorkerFrame DEF historyVars
  <2>3. NoRun \notin overtaken
    BY DEF RequestsTypeOK
  <2>4. QED
    BY <1>5, <2>2, <2>3, WorkerFrame DEF historyVars, HandlerFrame
<1>6. CASE LoadForSync \/ LoadForCrawl \/ LoadState \/ RequestEnds \/ (\E r \in Runs : LoadForRetry(r))
           \/ LoadRun \/ UNCHANGED allVars
  <2>1. UNCHANGED <<vars, overtaken>>
    BY <1>6 DEF LoadForSync, LoadForCrawl, LoadState, RequestEnds, LoadForRetry, LoadRun, allVars,
       requestsVars, historyVars
  <2>2. QED
    BY <2>1, <1>3 DEF vars, dataVars, stateVars, runVars
<1>7. CASE QueueGoesOn \/ TimePasses
           \/ (\E f \in FileRuns : RetryFileRun(f) /\ UNCHANGED requestsVars)
           \/ \E s \in {"active", "paused", "archived"} : update_source(s) /\ UNCHANGED requestsVars
  <2>1. [Next]_vars
    BY <1>7 DEF QueueGoesOn, TimePasses, Next, Api
  <2>2. /\ overtaken' = overtaken /\ kind' = kind
        /\ lease_run_id' \in {lease_run_id} \cup FileRuns
    BY <1>7 DEF QueueGoesOn, TimePasses, Tick, RetryFileRun, TakeLease, update_source,
       dataVars, runVars, stateVars, historyVars, requestsVars
  <2>3. QED
    BY <1>3, <2>1, <2>2 DEF RequestsTypeOK
<1>8. ASSUME NEW r \in Runs, NEW e \in Events,
             \/ \E before, after \in Cursors : receive_batch(r, e, before, after)
             \/ \E before \in Cursors : queue_connector_crawl(r, e, before)
             \/ retry_run(r, e),
             overtaken' = overtaken \ {r}
      PROVE  TakeoverInv'
  <2>1. [Next]_vars
    BY <1>8 DEF Next, Api
  <2>2. r \in overtaken => stage[r] = "failed"
    BY <1>8 DEF receive_batch, queue_connector_crawl, AddRun, retry_run
  <2>3. /\ lease_run_id' = r
        /\ \A q \in Runs : kind[q] # "none" => kind'[q] # "none"
    BY <1>8 DEF receive_batch, queue_connector_crawl, AddRun, retry_run, TakeLease, BaseInv, TypeOK,
       StageKey
  <2>4. QED
    BY <1>3, <1>8, <2>1, <2>2, <2>3 DEF RequestsTypeOK
<1>9. CASE RequestAtOnce
  BY <1>8, <1>9 DEF RequestAtOnce
<1>10. QED
  BY <1>1, <1>2, <1>4, <1>5, <1>6, <1>7, <1>9 DEF RequestsNext, Requests

THEOREM TakeoverCorrect == RequestsSpec => []TakeoverInv
<1>1. RequestsInit => TakeoverInv
  BY DEF RequestsInit, TakeoverInv, LeaseLostToStaleCrawlOnly, InProgress, Init, QueueInit
<1>2. RequestsBase /\ RunsInv /\ TakeoverInv /\ [RequestsNext]_allVars => TakeoverInv'
  BY TakeoverStep
<1>3. QED
  BY <1>1, <1>2, RequestsBaseCorrect, RunsCorrect, PTL DEF RequestsSpec

\* The lease of the run at work is lost to a crawl with an old copy only.
THEOREM LeaseLostToStaleCrawlOnlyCorrect == RequestsSpec => []LeaseLostToStaleCrawlOnly
BY TakeoverCorrect, PTL DEF TakeoverInv

\* Pages are stored by a holder of the lease, batches for a new run.
LEMMA StoringStep ==
    ASSUME RequestsBase, TakeoverInv, [RequestsNext]_allVars
    PROVE  (observed' \ observed) \cap overtaken = {}
<1> DEFINE Goal == (observed' \ observed) \cap overtaken = {}
<1> SUFFICES Goal  OBVIOUS
<1> USE DEF TakeoverInv
<1>1. ASSUME NEW r \in Runs, NEW e \in Events, NEW before \in Cursors, NEW after \in Cursors,
             receive_connector_batch(r, e, before, after)
      PROVE  Goal
  BY <1>1 DEF receive_connector_batch, Accept, AddRun
<1>2. CASE RunNotLoaded
  BY <1>2 DEF RunNotLoaded, ClaimDelivered, CountObservations, mark_event_delivered,
     collect_web_job, MayCollect
<1>3. CASE RunWritten \/ RunUnwritten
  BY <1>3 DEF RunWritten, WritesRun, RunUnwritten, ClaimUnavailable, ClaimLeaseLost, ClaimStage,
     PermanentFailure, RetryExhausted, ScheduleRetry, FinishUnavailable, FinishSucceeded,
     FailStage, ClaimSucceeded, ClaimBusy, TransientUnavailable
<1>4. CASE QueueGoesOn \/ TimePasses \/ UNCHANGED allVars
  BY <1>4 DEF QueueGoesOn, TimePasses, Tick, dataVars, allVars, vars
<1>5. CASE \/ LoadForSync \/ LoadForCrawl \/ LoadState \/ RequestEnds \/ LoadRun
           \/ \E r \in Runs : LoadForRetry(r)
  BY <1>5 DEF LoadForSync, LoadForCrawl, LoadState, RequestEnds, LoadForRetry, LoadRun, vars, dataVars
<1>6. CASE \/ \E r \in Runs, e \in Events : submit_crawl(r, e)
           \/ \E e \in Events : RetryCommits(e)
           \/ \E f \in FileRuns : RetryFileRun(f) /\ UNCHANGED requestsVars
           \/ \E s \in {"active", "paused", "archived"} : update_source(s) /\ UNCHANGED requestsVars
  BY <1>6 DEF submit_crawl, RetryCommits, retry_run, RetryFileRun, update_source
<1>7. CASE RequestAtOnce
  BY <1>7 DEF RequestAtOnce, receive_batch, queue_connector_crawl, AddRun, retry_run
<1>8. QED
  BY <1>1, <1>2, <1>3, <1>4, <1>5, <1>6, <1>7 DEF RequestsNext, Requests

\* Of two overlapping crawls only the one that holds the lease stores pages.
THEOREM OvertakenStoresNothingCorrect == RequestsSpec => OvertakenStoresNothing
<1>1. RequestsBase /\ TakeoverInv /\ [RequestsNext]_allVars
        => [(observed' \ observed) \cap overtaken = {}]_allVars
  BY StoringStep
<1>2. QED
  BY <1>1, RequestsBaseCorrect, TakeoverCorrect, PTL DEF RequestsSpec, OvertakenStoresNothing

\* The cursor under a live lease is still moved by its holder only.
THEOREM RequestsCursorMovedByHolder == RequestsSpec => CursorMovedByHolder
<1>1. ASSUME RequestsBase, [RequestsNext]_allVars
      PROVE  [cursor' # cursor => ~LeaseLive \/ (pc = "work" /\ run = lease_run_id)]_vars
  <2>1. CASE [Next]_vars
    BY <1>1, <2>1, CursorStep DEF RequestsBase
  <2>2. CASE \E r \in Runs, e \in Events, before \in Cursors, after \in Cursors :
                receive_connector_batch(r, e, before, after)
    BY <2>2 DEF receive_connector_batch
  <2>3. CASE \E r \in Runs, e \in Events : submit_crawl(r, e)
    BY <2>3 DEF submit_crawl
  <2>4. QED
    BY <1>1, <2>1, <2>2, <2>3, RequestStepCases DEF RequestsBase
<1>2. QED
  BY <1>1, RequestsBaseCorrect, PTL DEF RequestsSpec, CursorMovedByHolder

-----------------------------------------------------------------------------
(* Runs accepted late. *)

\* All rows of a late run carry a generation that is past.
LateInv ==
    /\ seen_generation <= generation
    /\ \A r \in late : kind[r] # "none" /\ stage[r] # "succeeded"
    /\ \A r \in late, e \in Events : ev_run[e] = r => ev_generation[e] < generation

\* A stage succeeds only for a row of the source's present generation.
LEMMA SuccessIsUsable ==
    ASSUME RequestsBase, RunWritten \/ RunUnwritten \/ RunNotLoaded, NEW r \in Runs,
           stage[r] # "succeeded", stage'[r] = "succeeded"
    PROVE  r = run /\ cur \in Events /\ SourceUsable(cur)
<1>1. pc # "idle"
  BY DEF RunWritten, RunUnwritten, RunNotLoaded, WritesRun, ClaimUnavailable, ClaimLeaseLost,
     ClaimStage, ClaimAhead, Claimable, PermanentFailure, RetryExhausted, ScheduleRetry, Working,
     FinishUnavailable, FinishSucceeded, ClaimSucceeded, ClaimBusy, TransientUnavailable,
     ClaimDelivered, CountObservations, AtCount, mark_event_delivered, collect_web_job
<1>2. cur \in Events /\ run \in Runs
  BY <1>1, HandlerRun DEF RequestsBase
<1>3. CASE RunUnwritten \/ RunNotLoaded
  BY <1>3 DEF RunUnwritten, RunNotLoaded, ClaimSucceeded, ClaimBusy, TransientUnavailable,
     ClaimDelivered, CountObservations, mark_event_delivered, collect_web_job
<1>4. CASE RunWritten
  BY <1>2, <1>4 DEF RunWritten, WritesRun, ClaimUnavailable, ClaimLeaseLost, ClaimStage,
     PermanentFailure, RetryExhausted, ScheduleRetry, FinishUnavailable, FinishSucceeded,
     FailStage, SetStage, RequestsBase, BaseInv, TypeOK
<1>5. QED
  BY <1>3, <1>4

LEMMA LateStep ==
    ASSUME RequestsBase, RunsInv, LateInv, [RequestsNext]_allVars
    PROVE  LateInv'
<1> USE DEF LateInv, RequestsBase
<1>0. generation \in Nat /\ seen_generation \in Nat /\ \A e \in Events : ev_generation[e] \in Nat
  BY DEF BaseInv, TypeOK, RequestsTypeOK
<1>1. ASSUME NEW r \in Runs, NEW e \in Events, NEW key \in {"receive", "collect_web"},
             Accept(r, e, key)
      PROVE  LateInv'
  <2>1. r \notin late /\ \A d \in Events : ev_run[d] # r
    BY <1>1, Zenon DEF Accept, AddRun, RunsInv, OutboxInv, BaseInv, TypeOK
  <2>2. QED
    BY <1>0, <1>1, <2>1 DEF Accept, AddRun, NoRequest, BaseInv, TypeOK, sourceVars
<1>2. CASE \/ \E r \in Runs, e \in Events, before \in Cursors, after \in Cursors :
                 receive_connector_batch(r, e, before, after)
           \/ \E r \in Runs, e \in Events : submit_crawl(r, e)
  BY <1>1, <1>2 DEF receive_connector_batch, submit_crawl
<1>3. ASSUME NEW e \in Events, RetryCommits(e)
      PROVE  LateInv'
  <2>1. seen_run \in Runs /\ kind[seen_run] # "none"
    BY <1>3 DEF RetryCommits, retry_run, RequestsTypeOK, RunsInv, OutboxInv
  <2>2. QED
    BY <1>0, <1>3, <2>1 DEF RetryCommits, retry_run, Publish, NoRequest, BaseInv, TypeOK, sourceVars
<1>4. CASE RunWritten \/ RunUnwritten \/ RunNotLoaded
  <2>1. UNCHANGED <<sourceVars, kind, payloadVars, late, seen_generation>>
    BY <1>4, WorkerFrame DEF HandlerFrame, historyVars, RunWritten, RunUnwritten, RunNotLoaded,
       requestVars, requestsVars
  <2>2. \A r \in late : stage'[r] # "succeeded"
    BY <1>0, <1>4, SuccessIsUsable DEF SourceUsable, RequestsTypeOK, run
  <2>3. QED
    BY <2>1, <2>2 DEF sourceVars, payloadVars
<1>5. CASE \E s \in {"active", "paused", "archived"} : update_source(s) /\ UNCHANGED requestsVars
  BY <1>0, <1>5 DEF update_source, requestsVars, requestVars, historyVars, runVars, payloadVars
<1>6. CASE QueueGoesOn \/ TimePasses \/ UNCHANGED allVars
           \/ (\E f \in FileRuns : RetryFileRun(f) /\ UNCHANGED requestsVars)
  BY <1>6 DEF QueueGoesOn, TimePasses, Tick, RetryFileRun, requestsVars, requestVars, historyVars,
     allVars, vars, dataVars, sourceVars, runVars, payloadVars
<1>7. CASE \/ LoadForSync \/ LoadForCrawl \/ LoadState \/ RequestEnds \/ LoadRun
           \/ \E r \in Runs : LoadForRetry(r)
  BY <1>0, <1>7 DEF LoadForSync, LoadForCrawl, LoadState, RequestEnds, NoRequest, LoadForRetry, LoadRun,
     requestVars, historyVars, vars, dataVars, sourceVars, runVars, payloadVars
<1>8. ASSUME NEW r \in Runs, NEW e \in Events,
             \/ \E before, after \in Cursors : receive_batch(r, e, before, after)
             \/ \E before \in Cursors : queue_connector_crawl(r, e, before)
             \/ retry_run(r, e),
             late' = late \ {r}, UNCHANGED requestVars
      PROVE  LateInv'
  <2>1. /\ ev_run' = [ev_run EXCEPT ![e] = r]
        /\ ev_generation' = [ev_generation EXCEPT ![e] = generation]
        /\ UNCHANGED sourceVars
    BY <1>8 DEF receive_batch, queue_connector_crawl, retry_run, Publish
  <2>2. /\ kind'[r] # "none"
        /\ \A q \in Runs \ {r} : kind'[q] = kind[q] /\ stage'[q] = stage[q]
    BY <1>8 DEF receive_batch, queue_connector_crawl, retry_run, AddRun, RunsInv, OutboxInv,
       BaseInv, TypeOK, StageKey
  <2>3. QED
    BY <1>0, <1>8, <2>1, <2>2 DEF requestVars, sourceVars, RequestsTypeOK, BaseInv, TypeOK
<1>9. CASE RequestAtOnce
  BY <1>8, <1>9 DEF RequestAtOnce
<1>10. QED
  BY <1>2, <1>3, <1>4, <1>5, <1>6, <1>7, <1>9 DEF RequestsNext, Requests

THEOREM LateCorrect == RequestsSpec => []LateInv
<1>1. RequestsInit => LateInv
  BY DEF RequestsInit, LateInv, Init
<1>2. RequestsBase /\ RunsInv /\ LateInv /\ [RequestsNext]_allVars => LateInv'
  BY LateStep
<1>3. QED
  BY <1>1, <1>2, RequestsBaseCorrect, RunsCorrect, PTL DEF RequestsSpec

\* A run accepted for a source that had changed never succeeds unless retried.
THEOREM LateRunFailsCorrect == RequestsSpec => LateRunFails
<1>1. LateInv' => [\A r \in late : stage'[r] = "succeeded" => r \notin late']_allVars
  BY DEF LateInv
<1>2. QED
  BY <1>1, LateCorrect, PTL DEF LateRunFails

-----------------------------------------------------------------------------
(* The ledger, with copies of any age. *)

\* A run accepted late was asked for under a generation that is past.
LEMMA AcceptIsLedgers ==
    ASSUME RequestsBase, RunsInv, LateInv, NEW r \in Runs, NEW e \in Events,
           NEW key \in {"receive", "collect_web"}, Accept(r, e, key),
           observed' = observed \/ observed' = observed \cup {r}
    PROVE  Ledger!Accept(r)
<1>1. seen_generation \in Nat /\ seen_generation \in 0..generation
  BY DEF LateInv, RequestsBase, RequestsTypeOK, BaseInv, TypeOK
<1>2. /\ stage[r] = "none" /\ stage' = [stage EXCEPT ![r] = "pending"]
      /\ UNCHANGED <<source_status, generation>>
  BY DEF Accept, AddRun, RunsInv, OutboxInv, sourceVars
<1>3. Asked' = [Asked EXCEPT ![r] = @ \cup {seen_generation}]
  BY <1>1, AskedMore DEF Accept, RequestsBase
<1>4. Life' = [Life EXCEPT ![r] = "open"] /\ Life[r] = "none"
  BY <1>2, LifeWritten DEF StageStatus, Open, Life, RequestsBase
<1>5. Ledger!Open(r)
  BY <1>1, <1>2, <1>3, <1>4, Zenon DEF Ledger!Open
<1>6. QED
  BY <1>4, <1>5 DEF Ledger!Accept

LEMMA RequestsLedgerInvStep ==
    ASSUME RequestsBase, RunsInv, LedgerInv, [RequestsNext]_allVars
    PROVE  LedgerInv'
<1>1. ASSUME NEW r \in Runs, NEW e \in Events, NEW key \in {"receive", "collect_web"},
             Accept(r, e, key), observed \subseteq observed'
      PROVE  LedgerInv'
  <2>1. pc' = pc /\ (pc = "finish" => run' = run)
    BY <1>1 DEF Accept, run, RequestsBase, BaseInv, WorkerShape, PublishedHaveJobs, TypeOK,
       QueueTypeOK
  <2>2. \A q \in Runs : kind'[q] # "none" => stage'[q] # "none"
    BY <1>1 DEF Accept, AddRun, LedgerInv, RequestsBase, BaseInv, TypeOK
  <2>3. QED
    BY <1>1, <2>1, <2>2 DEF LedgerInv
<1>2. CASE \/ \E r \in Runs, e \in Events, before \in Cursors, after \in Cursors :
                 receive_connector_batch(r, e, before, after)
           \/ \E r \in Runs, e \in Events : submit_crawl(r, e)
  BY <1>1, <1>2 DEF receive_connector_batch, submit_crawl
<1>3. CASE [Next]_vars
  BY <1>3, LedgerInvStep DEF RequestsBase, RunsInv
<1>4. QED
  BY <1>2, <1>3, RequestStepCases DEF RequestsBase

\* With copies of any age the runs are still the ledger's requests: a batch or a
\* crawl accepted for a source that has changed is a request that does not stand.
THEOREM RequestsFollowLedger == RequestsSpec => RunsFollowLedger
<1>1. RequestsInit => Ledger!Init /\ LedgerInv
  BY LedgerInit DEF RequestsInit
<1>2. RequestsBase /\ RunsInv /\ LedgerInv /\ [RequestsNext]_allVars => LedgerInv'
  BY RequestsLedgerInvStep
<1>3. ASSUME RequestsBase, RunsInv, LateInv, LedgerInv, [RequestsNext]_allVars
      PROVE  [Ledger!Next]_<<source_status, generation, Life, Asked, observed>>
  <2>1. CASE [Next]_vars
    BY <1>3, <2>1, LedgerStep DEF RequestsBase, RunsInv
  <2>2. CASE \/ \E r \in Runs, e \in Events, before \in Cursors, after \in Cursors :
                   receive_connector_batch(r, e, before, after)
             \/ \E r \in Runs, e \in Events : submit_crawl(r, e)
    <3>1. PICK r \in Runs : Ledger!Accept(r)
      BY <1>3, <2>2, AcceptIsLedgers DEF receive_connector_batch, submit_crawl
    <3>2. QED
      BY <3>1 DEF Ledger!Next
  <2>3. QED
    BY <1>3, <2>1, <2>2, RequestStepCases DEF RequestsBase
<1>4. QED
  BY <1>1, <1>2, <1>3, RequestsBaseCorrect, RunsCorrect, LateCorrect,
     PTL DEF RequestsSpec, RunsFollowLedger, Ledger!Spec

-----------------------------------------------------------------------------
(* The run's status. *)

\* A run succeeds with its stage; the worker's copy agrees about success, and
\* a copy that is old has been overtaken by a retry, which left a row of its own.
StatusInv ==
    /\ StatusFollowsStage
    /\ \A r \in Runs : kind[r] = "none" => run_status[r] = "none"
    /\ \A r \in Runs : run_status[r] = "succeeded" <=> stage[r] = "succeeded"
    /\ worker_saw # "unset" =>
         /\ pc \in {"claim", "work", "count", "finish"}
         /\ kind[run] # "none"
         /\ worker_saw = "succeeded" <=> stage[run] = "succeeded"
         /\ run_status[run] # worker_saw =>
              \E e \in Events \ {cur} : ev_run[e] = run /\ LiveEvent(e)

\* What the worker does to the stage of its run, and to no other.
LEMMA WritesRunShape ==
    ASSUME RequestsBase, RunsInv, worker_saw # "unset", WritesRun
    PROVE  /\ pc # "idle" /\ kind[run] # "none"
           /\ stage'[run] \in StageStatus \ {"none"}
           /\ stage' = [stage EXCEPT ![run] = stage'[run]]
           /\ UNCHANGED <<kind, ev_run, cur>>
           /\ \A e \in Events \ {cur} : ev_status'[e] = ev_status[e]
           /\ stage'[run] = "succeeded" => InProgress
<1>1. pc # "idle"
  BY DEF WritesRun, ClaimUnavailable, ClaimLeaseLost, ClaimAhead, ClaimStage, Claimable,
     PermanentFailure, RetryExhausted, ScheduleRetry, Working, FinishUnavailable, FinishSucceeded
<1>2. run \in Runs /\ cur \in Events
  BY <1>1, HandlerRun DEF RequestsBase
<1>3. kind[run] # "none"
  BY <1>2 DEF RunsInv, OutboxInv, RequestsBase, BaseInv, TypeOK, run
<1>4. UNCHANGED <<kind, ev_run, cur>>
  BY DEF WritesRun, ClaimUnavailable, ClaimLeaseLost, ClaimStage, PermanentFailure, RetryExhausted,
     ScheduleRetry, FinishUnavailable, FinishSucceeded, FailStage, Goto, HandlerFrame, payloadVars
<1>5. /\ \E v \in StageStatus \ {"none"} : stage' = [stage EXCEPT ![run] = v]
                                           /\ (v = "succeeded" => InProgress)
      /\ \A e \in Events \ {cur} : ev_status'[e] = ev_status[e]
  BY <1>2 DEF WritesRun, ClaimUnavailable, ClaimLeaseLost, ClaimStage, PermanentFailure,
     RetryExhausted, ScheduleRetry, FinishUnavailable, FinishSucceeded, FailStage, SetStage,
     SetEvent, StageStatus, InProgress, RequestsBase, BaseInv, TypeOK, QueueTypeOK
<1>6. QED
  BY <1>1, <1>2, <1>3, <1>4, <1>5 DEF RequestsBase, BaseInv, TypeOK

\* The worker's own writes.
LEMMA StatusWritten ==
    ASSUME RequestsBase, RunsInv, StatusInv, RunWritten
    PROVE  StatusInv'
<1>1. worker_saw # "unset" /\ WritesRun /\ worker_saw' = "unset"
  BY DEF RunWritten
<1> DEFINE v == RunStatusOf[stage'[run]]
<1>2. run \in Runs /\ cur \in Events
  BY <1>1, WritesRunShape, HandlerRun DEF RequestsBase
<1>3. /\ run_status' = [run_status EXCEPT ![run] = IF v = worker_saw THEN @ ELSE v]
      /\ v \in RunStatus \ {"none"}
      /\ v = "succeeded" <=> stage'[run] = "succeeded"
  BY <1>1, WritesRunShape DEF RunWritten, Written, StageStatus, RunStatusOf, RunStatus
<1>4. \A r \in Runs \ {run} : run_status'[r] = run_status[r] /\ stage'[r] = stage[r]
  BY <1>1, <1>3, WritesRunShape DEF RequestsBase, RequestsTypeOK, BaseInv, TypeOK
<1>5. run_status'[run] = IF v = worker_saw THEN run_status[run] ELSE v
  BY <1>2, <1>3 DEF RequestsBase, RequestsTypeOK
<1>6. v = "succeeded" => worker_saw # "succeeded"
  BY <1>1, <1>3, WritesRunShape DEF RunsInv, RunningInv, StatusInv
<1>7. run_status'[run] = "succeeded" <=> stage'[run] = "succeeded"
  BY <1>1, <1>2, <1>3, <1>5, <1>6 DEF StatusInv
<1>8. \A e \in Events \ {cur} : LiveEvent(e)' <=> LiveEvent(e)
  BY <1>1, WritesRunShape DEF LiveEvent
<1>9. run_status'[run] # v => \E e \in Events : ev_run[e] = run /\ LiveEvent(e)'
  BY <1>1, <1>5, <1>8 DEF StatusInv
<1>10. StatusFollowsStage'
  BY <1>1, <1>2, <1>4, <1>8, <1>9, WritesRunShape DEF StatusInv, StatusFollowsStage, run
<1>11. \A r \in Runs : kind'[r] = "none" => run_status'[r] = "none"
  BY <1>1, <1>4, WritesRunShape DEF StatusInv
<1>12. QED
  BY <1>1, <1>4, <1>7, <1>10, <1>11 DEF StatusInv

\* A run is accepted, or put back by its owner, with a row of its own.
LEMMA StatusAccepted ==
    ASSUME RequestsBase, RunsInv, StatusInv, NEW r \in Runs, NEW e \in Events,
           ev_run[e] = NoRun, ev_run' = [ev_run EXCEPT ![e] = r],
           ev_status' = [ev_status EXCEPT ![e] = "pending"],
           kind' \in [Runs -> StageKey], \A q \in Runs \ {r} : kind'[q] = kind[q], kind'[r] # "none",
           stage' = [stage EXCEPT ![r] = "pending"],
           run_status' \in [Runs -> RunStatus], run_status'[r] # "succeeded",
           \A q \in Runs \ {r} : run_status'[q] = run_status[q],
           worker_saw # "unset" => r # run \/ stage[r] # "succeeded",
           UNCHANGED <<pc, cur, worker_saw>>
    PROVE  StatusInv'
<1> USE DEF RequestsBase, RequestsTypeOK, BaseInv, TypeOK, QueueTypeOK
<1>1. NoRun \notin Runs
  OBVIOUS
<1>2. \A d \in Events : LiveEvent(d) => LiveEvent(d)'
  BY DEF LiveEvent
<1>3. LiveEvent(e)' /\ ev_run'[e] = r
  BY DEF LiveEvent
<1>4. \A d \in Events \ {e} : ev_run'[d] = ev_run[d]
  OBVIOUS
<1>5. StatusFollowsStage'
  <2> SUFFICES ASSUME NEW q \in Runs, run_status'[q] # RunStatusOf[stage'[q]], q # r
               PROVE  \E d \in Events : ev_run'[d] = q /\ LiveEvent(d)'
    BY <1>3 DEF StatusFollowsStage
  <2>1. PICK d \in Events : ev_run[d] = q /\ LiveEvent(d)
    BY DEF StatusInv, StatusFollowsStage
  <2>2. QED
    BY <1>1, <1>2, <1>4, <2>1
<1>6. \A q \in Runs : /\ kind'[q] = "none" => run_status'[q] = "none"
                      /\ run_status'[q] = "succeeded" <=> stage'[q] = "succeeded"
  BY DEF StatusInv
<1>7. ASSUME worker_saw # "unset"
      PROVE  /\ pc' \in {"claim", "work", "count", "finish"}
             /\ kind'[run'] # "none"
             /\ worker_saw' = "succeeded" <=> stage'[run'] = "succeeded"
             /\ run_status'[run'] # worker_saw' =>
                  \E d \in Events \ {cur'} : ev_run'[d] = run' /\ LiveEvent(d)'
  <2>1. cur \in Events /\ run \in Runs /\ pc \in {"claim", "work", "count", "finish"}
    BY <1>7, HandlerRun DEF StatusInv
  <2>2. run' = run /\ e # cur
    BY <2>1 DEF run
  <2>3. CASE run = r
    BY <1>3, <1>7, <2>1, <2>2, <2>3 DEF StatusInv
  <2>4. CASE run # r
    <3>1. kind'[run] # "none" /\ (worker_saw = "succeeded" <=> stage'[run] = "succeeded")
      BY <1>7, <2>1, <2>4 DEF StatusInv
    <3>2. ASSUME run_status'[run] # worker_saw
          PROVE  \E d \in Events \ {cur} : ev_run'[d] = run /\ LiveEvent(d)'
      <4>1. PICK d \in Events \ {cur} : ev_run[d] = run /\ LiveEvent(d)
        BY <1>7, <2>1, <2>4, <3>2 DEF StatusInv
      <4>2. QED
        BY <1>1, <1>2, <1>4, <2>1, <4>1
    <3>3. QED
      BY <2>1, <2>2, <3>1, <3>2
  <2>5. QED
    BY <2>3, <2>4
<1>8. QED
  BY <1>5, <1>6, <1>7 DEF StatusInv

\* Without a change of status only the rows matter.
LEMMA StatusKept ==
    ASSUME RequestsBase, StatusInv,
           UNCHANGED <<run_status, stage, kind, ev_run>>,
           \A e \in Events : LiveEvent(e) /\ ~LiveEvent(e)' =>
              /\ worker_saw' = "unset"
              /\ ev_run[e] \in Runs => run_status[ev_run[e]] = RunStatusOf[stage[ev_run[e]]],
           worker_saw' = "unset" \/ UNCHANGED <<worker_saw, pc, cur>>
    PROVE  StatusInv'
<1>1. StatusFollowsStage'
  BY DEF StatusInv, StatusFollowsStage
<1>2. CASE worker_saw' = "unset"
  BY <1>1, <1>2 DEF StatusInv
<1>3. CASE worker_saw' # "unset"
  BY <1>1, <1>3 DEF StatusInv, run
<1>4. QED
  BY <1>2, <1>3

LEMMA StatusStep ==
    ASSUME RequestsBase, RunsInv, StatusInv, [RequestsNext]_allVars
    PROVE  StatusInv'
<1>1. ASSUME NEW r \in Runs, NEW e \in Events, NEW key \in {"receive", "collect_web"},
             Accept(r, e, key)
      PROVE  StatusInv'
  <2>1. \/ worker_saw = "unset" \/ r # run
    BY <1>1 DEF Accept, AddRun, StatusInv
  <2>2. /\ kind' \in [Runs -> StageKey] /\ kind'[r] # "none"
        /\ \A q \in Runs \ {r} : kind'[q] = kind[q]
    BY <1>1 DEF Accept, AddRun, RequestsBase, RequestsTypeOK, BaseInv, TypeOK, StageKey
  <2>3. /\ run_status' \in [Runs -> RunStatus] /\ run_status'[r] # "succeeded"
        /\ \A q \in Runs \ {r} : run_status'[q] = run_status[q]
    BY <1>1 DEF Accept, RequestsBase, RequestsTypeOK, RunStatus
  <2>4. /\ ev_run[e] = NoRun /\ ev_run' = [ev_run EXCEPT ![e] = r]
        /\ ev_status' = [ev_status EXCEPT ![e] = "pending"]
        /\ stage' = [stage EXCEPT ![r] = "pending"]
        /\ UNCHANGED <<pc, cur, worker_saw>>
    BY <1>1 DEF Accept, AddRun
  <2>5. QED
    BY <2>1, <2>2, <2>3, <2>4, StatusAccepted
<1>2. CASE \/ \E r \in Runs, e \in Events, before \in Cursors, after \in Cursors :
                 receive_connector_batch(r, e, before, after)
           \/ \E r \in Runs, e \in Events : submit_crawl(r, e)
  BY <1>1, <1>2 DEF receive_connector_batch, submit_crawl
<1>3. ASSUME NEW e \in Events, RetryCommits(e)
      PROVE  StatusInv'
  <2>1. seen_run \in Runs /\ stage[seen_run] = "failed" /\ kind[seen_run] # "none"
    BY <1>3 DEF RetryCommits, retry_run, RequestsBase, RequestsTypeOK, RunsInv, OutboxInv
  <2>2. run_status[seen_run] # "succeeded"
    BY <2>1 DEF StatusInv
  <2>3. QED
    BY <1>3, <2>1, <2>2, StatusAccepted DEF RetryCommits, retry_run, Publish, Written, RunStatus,
       RequestsBase, RequestsTypeOK, BaseInv, TypeOK
<1>4. CASE RunWritten
  BY <1>4, StatusWritten
<1>5. CASE LoadRun
  <2>1. pc \in {"claim", "work", "count", "finish"} /\ kind[run] # "none" /\ run \in Runs
    BY <1>5, HandlerRun DEF LoadRun, RequestsBase, BaseInv, TypeOK, RunsInv, OutboxInv, run
  <2>2. UNCHANGED <<pc, cur, run_status, stage, kind, ev_run, ev_status>> /\ run' = run
        /\ worker_saw' = run_status[run]
    BY <1>5 DEF LoadRun, vars, jobVars, dataVars, runVars, payloadVars, run
  <2>3. StatusFollowsStage'
    BY <2>2 DEF StatusInv, StatusFollowsStage, LiveEvent
  <2>4. QED
    BY <2>1, <2>2, <2>3 DEF StatusInv
<1>6. CASE RunUnwritten
  <2>1. ClaimSucceeded => run_status[run] = "succeeded" /\ run \in Runs /\ pc = "claim"
    BY <1>6, HandlerRun DEF StatusInv, ClaimSucceeded, Claimable, RequestsBase
  <2>2. \A e \in Events : LiveEvent(e) /\ ~LiveEvent(e)' => ClaimSucceeded /\ e = cur
    BY <1>6 DEF RunUnwritten, ClaimSucceeded, ClaimBusy, TransientUnavailable, SetEvent, LiveEvent,
       RequestsBase, BaseInv, TypeOK, QueueTypeOK
  <2>3. ClaimSucceeded => RunStatusOf[stage[run]] = "succeeded"
    BY DEF ClaimSucceeded, RunStatusOf
  <2>4. UNCHANGED <<run_status, stage, kind, ev_run>> /\ worker_saw' = "unset"
    BY <1>6 DEF RunUnwritten, ClaimSucceeded, ClaimBusy, TransientUnavailable, HandlerFrame,
       payloadVars
  <2>5. QED
    BY <2>1, <2>2, <2>3, <2>4, StatusKept DEF run
<1>7. CASE RunNotLoaded
  <2>1. UNCHANGED <<run_status, stage, kind, ev_run>> /\ worker_saw' = "unset"
    BY <1>7 DEF RunNotLoaded, ClaimDelivered, CountObservations, mark_event_delivered,
       collect_web_job, HandlerFrame, payloadVars, requestsVars, statusVars
  <2>2. \A e \in Events : LiveEvent(e) /\ ~LiveEvent(e)' =>
           e = cur /\ mark_event_delivered
    BY <1>7 DEF RunNotLoaded, ClaimDelivered, CountObservations, mark_event_delivered,
       collect_web_job, SetEvent, LiveEvent, RequestsBase, BaseInv, TypeOK, QueueTypeOK
  <2>3. mark_event_delivered =>
           run \in Runs /\ run_status[run] = RunStatusOf[stage[run]]
    BY HandlerRun DEF mark_event_delivered, StatusInv, RunsInv, OutboxInv, RunStatusOf,
       RequestsBase
  <2>4. QED
    BY <2>1, <2>2, <2>3, StatusKept DEF run
<1>8. CASE QueueGoesOn
  <2>1. \A e \in Events : LiveEvent(e) => LiveEvent(e)'
    BY <1>8, QueueStepKeepsLive DEF QueueGoesOn, QueueStep, Dispatcher, Arq, RequestsBase
  <2>2. UNCHANGED <<run_status, stage, kind, ev_run>> /\ worker_saw' = "unset"
    BY <1>8 DEF QueueGoesOn, dataVars, runVars, payloadVars
  <2>3. QED
    BY <2>1, <2>2, StatusKept
<1>9. CASE \/ TimePasses \/ UNCHANGED allVars \/ LoadForSync \/ LoadForCrawl \/ LoadState
           \/ RequestEnds
           \/ \E r \in Runs : LoadForRetry(r)
           \/ \E f \in FileRuns : RetryFileRun(f) /\ UNCHANGED requestsVars
           \/ \E s \in {"active", "paused", "archived"} : update_source(s) /\ UNCHANGED requestsVars
  <2>1. UNCHANGED <<run_status, stage, kind, ev_run, ev_status, worker_saw, pc, cur>>
    BY <1>9 DEF TimePasses, Tick, QueueTick, allVars, LoadForSync, LoadForCrawl, LoadState,
       RequestEnds, LoadForRetry, RetryFileRun, update_source, requestsVars, statusVars, vars, jobVars,
       dataVars, runVars, payloadVars
  <2>2. QED
    BY <2>1, StatusKept DEF LiveEvent
<1>10. ASSUME NEW r \in Runs, NEW e \in Events,
              \/ \E before, after \in Cursors : receive_batch(r, e, before, after)
              \/ \E before \in Cursors : queue_connector_crawl(r, e, before)
              \/ retry_run(r, e),
              run_status' = [run_status EXCEPT ![r] = "queued"], UNCHANGED worker_saw
       PROVE  StatusInv'
  <2>1. /\ ev_run[e] = NoRun /\ ev_run' = [ev_run EXCEPT ![e] = r]
        /\ ev_status' = [ev_status EXCEPT ![e] = "pending"]
        /\ stage' = [stage EXCEPT ![r] = "pending"]
        /\ stage[r] \in {"none", "failed"}
        /\ UNCHANGED <<pc, cur, worker_saw>>
    BY <1>10 DEF receive_batch, queue_connector_crawl, retry_run, AddRun, Publish, RunsInv, OutboxInv
  <2>2. /\ kind' \in [Runs -> StageKey] /\ kind'[r] # "none"
        /\ \A q \in Runs \ {r} : kind'[q] = kind[q]
    BY <1>10 DEF receive_batch, queue_connector_crawl, retry_run, AddRun, RunsInv, OutboxInv,
       RequestsBase, BaseInv, TypeOK, StageKey
  <2>3. /\ run_status' \in [Runs -> RunStatus] /\ run_status'[r] # "succeeded"
        /\ \A q \in Runs \ {r} : run_status'[q] = run_status[q]
    BY <1>10 DEF RequestsBase, RequestsTypeOK, RunStatus
  <2>4. QED
    BY <2>1, <2>2, <2>3, StatusAccepted
<1>11. CASE RequestAtOnce
  BY <1>10, <1>11 DEF RequestAtOnce
<1>12. QED
  BY <1>2, <1>3, <1>4, <1>5, <1>6, <1>7, <1>8, <1>9, <1>11 DEF RequestsNext, Requests

\* The reported status of a run is its stage's, or the worker is still to come.
THEOREM StatusFollowsStageCorrect == RequestsSpec => []StatusFollowsStage
<1>1. RequestsInit => StatusInv
  BY DEF RequestsInit, Init, StatusInv, StatusFollowsStage, RunStatusOf
<1>2. RequestsBase /\ RunsInv /\ StatusInv /\ [RequestsNext]_allVars => StatusInv'
  BY StatusStep
<1>3. StatusInv => StatusFollowsStage
  BY DEF StatusInv
<1>4. QED
  BY <1>1, <1>2, <1>3, RequestsBaseCorrect, RunsCorrect, PTL DEF RequestsSpec

=============================================================================
