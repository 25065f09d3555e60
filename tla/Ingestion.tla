----------------------------- MODULE Ingestion ------------------------------
(***************************************************************************)
(* Collection runs of one source: acceptance of a batch or of a crawl, the *)
(* source's collection lease and cursor, the run's only stage, the worker  *)
(* function process_ingestion_event, and the owner's operations that race  *)
(* with it (pause, resume, archive, retry).                                *)
(*                                                                         *)
(* Every operation locks the source row first, so each database            *)
(* transaction is one step; the worker's handler is several transactions   *)
(* and everything may happen between them.  A collection, a crawl and a    *)
(* retry are one step here; CollectorRequests splits those that look at    *)
(* their rows before the lock, and has IngestionRun.status, which is       *)
(* written together with the stage's and is not kept apart here.           *)
(*                                                                         *)
(* Runs of uploaded files appear only where they touch the collection      *)
(* lease: retry_run takes it for them too.  A purge appears as the archive *)
(* that goes with its request: its job changes nothing (module Uploads).   *)
(***************************************************************************)
EXTENDS JobQueue

CONSTANTS
    Runs,            \* the ids of collection runs
    FileRuns,        \* the ids of runs of uploaded files
    NoRun,           \* a lease held by nobody
    Cursors,         \* the cursors a collector can report
    MaxGeneration,   \* bound: changes of the source's status
    MaxAttempts,     \* MAX_STAGE_ATTEMPTS
    StageLease,      \* STAGE_TIMEOUT_SECONDS
    CollectionLease  \* COLLECTION_LEASE

ASSUME IngestionAssumption ==
    /\ NoRun \notin Runs \cup FileRuns
    /\ Runs \cap FileRuns = {}
    /\ Cursors \subseteq Nat
    /\ 0 \in Cursors
    /\ MaxGeneration \in Nat \ {0}
    /\ MaxAttempts \in Nat \ {0}
    /\ StageLease \in Nat \ {0}
    /\ CollectionLease \in Nat
    /\ CollectionLease > JobTimeout
    /\ ResultTTL > CollectionLease

VARIABLES
    source_status,  \* Source.status
    generation,     \* Source.generation
    kind,           \* [Runs -> StageKey]: the stage_key, "none" without a row
    stage,          \* [Runs -> StageStatus]: IngestionStage.status
    attempts,       \* [Runs -> 0..MaxAttempts]: IngestionStage.attempts
    stage_left,     \* [Runs -> Nat]: until IngestionStage.lease_expires_at
    observed,       \* the runs whose batch has rows in source_observations
    lease_run_id,   \* SourceIngestionState.lease_run_id
    lease_left,     \* until SourceIngestionState.lease_expires_at
    cursor,         \* SourceIngestionState.cursor
    ev_run,         \* [Events -> Runs \cup {NoRun}]: payload.run_id
    ev_generation   \* [Events -> Nat]: payload.source_generation

sourceVars == <<source_status, generation>>
runVars == <<kind, stage, attempts, stage_left>>
stateVars == <<lease_run_id, lease_left, cursor>>
payloadVars == <<ev_run, ev_generation>>
dataVars == <<sourceVars, runVars, observed, stateVars, payloadVars>>
vars == <<jobVars, dataVars>>

StageKey == {"none", "receive", "collect_web"}
StageStatus == {"none", "pending", "running", "retrying", "succeeded", "failed"}
Open == {"pending", "running", "retrying"}
Steps == {"idle", "claim", "work", "count", "finish", "mark", "return", "retry"}

TypeOK ==
    /\ QueueTypeOK(Steps)
    /\ source_status \in {"active", "paused", "archived"}
    /\ generation \in 1..MaxGeneration
    /\ kind \in [Runs -> StageKey]
    /\ stage \in [Runs -> StageStatus]
    /\ attempts \in [Runs -> 0..MaxAttempts]
    /\ stage_left \in [Runs -> 0..StageLease]
    /\ observed \in SUBSET Runs
    /\ lease_run_id \in Runs \cup FileRuns \cup {NoRun}
    /\ lease_left \in 0..CollectionLease
    /\ cursor \in Cursors
    /\ ev_run \in [Events -> Runs \cup {NoRun}]
    /\ ev_generation \in [Events -> 0..MaxGeneration]

Init ==
    /\ QueueInit
    /\ source_status = "active"
    /\ generation = 1
    /\ kind = [r \in Runs |-> "none"]
    /\ stage = [r \in Runs |-> "none"]
    /\ attempts = [r \in Runs |-> 0]
    /\ stage_left = [r \in Runs |-> 0]
    /\ observed = {}
    /\ lease_run_id = NoRun
    /\ lease_left = 0
    /\ cursor = 0
    /\ ev_run = [e \in Events |-> NoRun]
    /\ ev_generation = [e \in Events |-> 0]

-----------------------------------------------------------------------------
(* The lease and the outbox rows. *)

LeaseLive == lease_left > 0

TakeLease(r) ==
    /\ lease_run_id' = r
    /\ lease_left' = CollectionLease

\* Only the run that holds the lease gives it back.
ReleaseLease(r) ==
    IF lease_run_id = r
    THEN lease_run_id' = NoRun /\ lease_left' = 0
    ELSE UNCHANGED <<lease_run_id, lease_left>>

\* The row of source_ingestion_state is made by the first collection.
HasState == \E r \in Runs : kind[r] # "none"

\* A new outbox row that asks for run r's stage.
Publish(e, r) ==
    /\ ev_run[e] = NoRun
    /\ ev_run' = [ev_run EXCEPT ![e] = r]
    /\ ev_generation' = [ev_generation EXCEPT ![e] = generation]
    /\ ev_status' = [ev_status EXCEPT ![e] = "pending"]

\* A new batch with its run and its pending stage.
AddRun(r, key) ==
    /\ kind[r] = "none"
    /\ kind' = [kind EXCEPT ![r] = key]
    /\ stage' = [stage EXCEPT ![r] = "pending"]
    /\ UNCHANGED <<attempts, stage_left>>

-----------------------------------------------------------------------------
(* The API.  A request that is refused (409, 404) changes nothing, and so   *)
(* does a batch or a crawl that was accepted before.                       *)

receive_batch(r, e, cursor_before, cursor_after) ==
    /\ source_status = "active"
    /\ ~LeaseLive
    /\ cursor = cursor_before
    /\ AddRun(r, "receive")
    /\ Publish(e, r)
    /\ observed' = observed \cup {r}
    /\ cursor' = cursor_after
    /\ TakeLease(r)
    /\ UNCHANGED <<job, tries, ttl, cur, pc, faults, sourceVars>>

queue_connector_crawl(r, e, cursor_before) ==
    /\ source_status = "active"
    /\ cursor = cursor_before
    /\ ~LeaseLive
    /\ AddRun(r, "collect_web")
    /\ Publish(e, r)
    /\ TakeLease(r)
    /\ UNCHANGED <<job, tries, ttl, cur, pc, faults, sourceVars, observed, cursor>>

\* Another run's live lease refuses the retry.
LeaseFreeFor(r) == lease_run_id \in {NoRun, r} \/ ~LeaseLive

retry_run(r, e) ==
    /\ source_status = "active"
    /\ stage[r] = "failed"
    /\ LeaseFreeFor(r)
    /\ stage' = [stage EXCEPT ![r] = "pending"]
    /\ attempts' = [attempts EXCEPT ![r] = 0]
    /\ stage_left' = [stage_left EXCEPT ![r] = 0]
    /\ Publish(e, r)
    /\ TakeLease(r)
    /\ UNCHANGED <<job, tries, ttl, cur, pc, faults, sourceVars, kind, observed, cursor>>

\* retry_run of a failed parse_file run.  Its job is process_uploaded_file,
\* which never gives the lease back.
RetryFileRun(f) ==
    /\ source_status = "active"
    /\ HasState
    /\ LeaseFreeFor(f)
    /\ TakeLease(f)
    /\ UNCHANGED <<jobVars, sourceVars, runVars, observed, cursor, payloadVars>>

\* PATCH of the status; archive_source is the change to "archived".
update_source(status) ==
    /\ source_status # "archived"
    /\ source_status # status
    /\ generation < MaxGeneration
    /\ source_status' = status
    /\ generation' = generation + 1
    /\ UNCHANGED <<jobVars, runVars, observed, stateVars, payloadVars>>

-----------------------------------------------------------------------------
(* process_ingestion_event: the claim. *)

run == ev_run[cur]

\* Mutated form of SourceUsable: a source paused and resumed since is the same.
ActiveSuffices(e) == source_status = "active"

\* The source is active and has not changed hands since the event was written.
SourceUsable(e) == source_status = "active" /\ generation = ev_generation[e]

SetStage(r, status) == stage' = [stage EXCEPT ![r] = status]
SetEvent(e, status) == ev_status' = [ev_status EXCEPT ![e] = status]
Goto(step) == pc' = step /\ UNCHANGED cur

\* What every step of the handler leaves alone.
HandlerFrame == UNCHANGED <<job, tries, ttl, faults, sourceVars, kind, payloadVars>>

ClaimDelivered ==
    /\ pc = "claim"
    /\ ev_status[cur] = "delivered"
    /\ Goto("return")
    /\ HandlerFrame
    /\ UNCHANGED <<ev_status, stage, attempts, stage_left, observed, stateVars>>

\* No row without its run: the only transaction that deletes runs never commits
\* (process_source_purge, in module Uploads).
Claimable == pc = "claim" /\ ev_status[cur] # "delivered"

\* Mutated form of ClaimUnavailable: the lease is not given back.
UnavailableKeepsLease ==
    /\ Claimable
    /\ ~SourceUsable(cur)
    /\ SetStage(run, "failed")
    /\ SetEvent(cur, "failed")
    /\ Goto("return")
    /\ HandlerFrame
    /\ UNCHANGED <<attempts, stage_left, observed, stateVars>>

\* Checked before the status of the stage, whatever that is.
ClaimUnavailable ==
    /\ Claimable
    /\ ~SourceUsable(cur)
    /\ SetStage(run, "failed")
    /\ SetEvent(cur, "failed")
    /\ ReleaseLease(run)
    /\ Goto("return")
    /\ HandlerFrame
    /\ UNCHANGED <<attempts, stage_left, observed, cursor>>

ClaimSucceeded ==
    /\ Claimable
    /\ SourceUsable(cur)
    /\ stage[run] = "succeeded"
    /\ SetEvent(cur, "delivered")
    /\ Goto("return")
    /\ HandlerFrame
    /\ UNCHANGED <<stage, attempts, stage_left, observed, stateVars>>

\* Somebody seems to be at it: leave, and let arq finish this job.
ClaimBusy ==
    /\ Claimable
    /\ SourceUsable(cur)
    /\ stage[run] = "running" /\ stage_left[run] > 0
    /\ Goto("return")
    /\ HandlerFrame
    /\ UNCHANGED <<ev_status, stage, attempts, stage_left, observed, stateVars>>

\* Mutated form of ClaimAhead: a succeeded stage is not recognised.
ClaimAgain ==
    /\ Claimable
    /\ SourceUsable(cur)
    /\ ~(stage[run] = "running" /\ stage_left[run] > 0)

\* Up to the check of the collection lease.
ClaimAhead ==
    /\ Claimable
    /\ SourceUsable(cur)
    /\ stage[run] # "succeeded"
    /\ ~(stage[run] = "running" /\ stage_left[run] > 0)

ClaimLeaseLost ==
    /\ ClaimAhead
    /\ ~(lease_run_id = run /\ LeaseLive)
    /\ SetStage(run, "failed")
    /\ SetEvent(cur, "failed")
    /\ ReleaseLease(run)
    /\ Goto("return")
    /\ HandlerFrame
    /\ UNCHANGED <<attempts, stage_left, observed, cursor>>

\* attempts counts on beyond MaxAttempts in the code (reruns after a fault are
\* counted too), where it is only compared with MaxAttempts: it stops there.
ClaimStage ==
    /\ ClaimAhead
    /\ lease_run_id = run /\ LeaseLive
    /\ SetStage(run, "running")
    /\ attempts' = [attempts EXCEPT ![run] = IF @ < MaxAttempts THEN @ + 1 ELSE @]
    /\ stage_left' = [stage_left EXCEPT ![run] = StageLease]
    /\ lease_left' = CollectionLease
    /\ Goto("work")
    /\ HandlerFrame
    /\ UNCHANGED <<ev_status, observed, lease_run_id, cursor>>

-----------------------------------------------------------------------------
(* process_ingestion_event: the work. *)

\* Mutated form of MayCollect: the holder of the lease is not looked at.
CollectWithoutLease == SourceUsable(cur)

\* The commit of _collect_web_job looks at the holder of the lease, not at
\* its expiry.
MayCollect == SourceUsable(cur) /\ lease_run_id = run

\* The pages are stored and the cursor moves to the time of the event, unless
\* it is later already.
collect_web_job(cursor_after) ==
    /\ pc = "work"
    /\ kind[run] = "collect_web"
    /\ MayCollect
    /\ cursor_after >= cursor
    /\ observed' = observed \cup {run}
    /\ cursor' = cursor_after
    /\ Goto("count")
    /\ HandlerFrame
    /\ UNCHANGED <<ev_status, stage, attempts, stage_left, lease_run_id, lease_left>>

AtCount == pc = "count" \/ (pc = "work" /\ kind[run] = "receive")

\* Mutated form of CountObservations: the event is marked delivered before the
\* stage's result is committed.
MarkEarly ==
    /\ AtCount
    /\ run \in observed
    /\ SetEvent(cur, "delivered")
    /\ Goto("finish")
    /\ HandlerFrame
    /\ UNCHANGED <<stage, attempts, stage_left, observed, stateVars>>

CountObservations ==
    /\ AtCount
    /\ run \in observed
    /\ Goto("finish")
    /\ HandlerFrame
    /\ UNCHANGED <<ev_status, stage, attempts, stage_left, observed, stateVars>>

\* _fail_ingestion_stage
FailStage ==
    /\ SetStage(run, "failed")
    /\ SetEvent(cur, "failed")
    /\ stage_left' = [stage_left EXCEPT ![run] = 0]
    /\ ReleaseLease(run)
    /\ Goto("return")
    /\ UNCHANGED <<attempts, observed, cursor>>

Working == pc \in {"work", "count"}

\* Any other exception: the browser refuses the job, returns no pages or bad
\* ones, or the crawl's commit finds that it may not collect any more.
PermanentFailure ==
    /\ Working
    /\ FailStage
    /\ HandlerFrame

\* A timeout, a transport error, an answer worth retrying, a database error.
RetryExhausted ==
    /\ Working
    /\ SourceUsable(cur)
    /\ attempts[run] >= MaxAttempts
    /\ FailStage
    /\ HandlerFrame

ScheduleRetry ==
    /\ Working
    /\ SourceUsable(cur)
    /\ attempts[run] < MaxAttempts
    /\ SetStage(run, "retrying")
    /\ stage_left' = [stage_left EXCEPT ![run] = 0]
    /\ SetEvent(cur, "pending")
    /\ lease_left' = IF lease_run_id = run THEN CollectionLease ELSE lease_left
    /\ Goto("retry")
    /\ HandlerFrame
    /\ UNCHANGED <<attempts, observed, lease_run_id, cursor>>

\* The same errors once the source is paused or archived: the handler calls
\* an undefined name before its commit and raises, so nothing is recorded.
TransientUnavailable ==
    /\ Working
    /\ ~SourceUsable(cur)
    /\ Goto("return")
    /\ HandlerFrame
    /\ UNCHANGED <<ev_status, stage, attempts, stage_left, observed, stateVars>>

-----------------------------------------------------------------------------
(* process_ingestion_event: the result. *)

\* The event is left as it is.
FinishUnavailable ==
    /\ pc = "finish"
    /\ ~SourceUsable(cur)
    /\ SetStage(run, "failed")
    /\ ReleaseLease(run)
    /\ Goto("return")
    /\ HandlerFrame
    /\ UNCHANGED <<ev_status, attempts, stage_left, observed, cursor>>

\* Mutated form of FinishSucceeded: the source is not looked at again.
FinishUnfenced ==
    /\ pc = "finish"
    /\ SetStage(run, "succeeded")
    /\ stage_left' = [stage_left EXCEPT ![run] = 0]
    /\ ReleaseLease(run)
    /\ Goto("mark")
    /\ HandlerFrame
    /\ UNCHANGED <<ev_status, attempts, observed, cursor>>

FinishSucceeded ==
    /\ pc = "finish"
    /\ SourceUsable(cur)
    /\ SetStage(run, "succeeded")
    /\ stage_left' = [stage_left EXCEPT ![run] = 0]
    /\ ReleaseLease(run)
    /\ Goto("mark")
    /\ HandlerFrame
    /\ UNCHANGED <<ev_status, attempts, observed, cursor>>

mark_event_delivered ==
    /\ pc = "mark"
    /\ SetEvent(cur, "delivered")
    /\ Goto("return")
    /\ HandlerFrame
    /\ UNCHANGED <<stage, attempts, stage_left, observed, stateVars>>

-----------------------------------------------------------------------------

CountsDown ==
    \/ lease_left > 0
    \/ \E r \in Runs : stage_left[r] > 0
    \/ \E e \in Events : ttl[e] > 0

Tick ==
    /\ TimeMayPass
    /\ CountsDown
    /\ QueueTick
    /\ lease_left' = Dec(lease_left)
    /\ stage_left' = [r \in Runs |-> Dec(stage_left[r])]
    /\ UNCHANGED <<sourceVars, kind, stage, attempts, observed, lease_run_id, cursor,
                   payloadVars>>

\* The steps of the handler, which the worker takes as long as it runs.
process_ingestion_event ==
    \/ ClaimDelivered \/ ClaimUnavailable \/ ClaimSucceeded
    \/ ClaimBusy \/ ClaimLeaseLost \/ ClaimStage
    \/ \E c \in Cursors : collect_web_job(c)
    \/ CountObservations
    \/ PermanentFailure \/ RetryExhausted \/ ScheduleRetry \/ TransientUnavailable
    \/ FinishUnavailable \/ FinishSucceeded \/ mark_event_delivered

Api ==
    \/ \E r \in Runs, e \in Events :
         \/ \E before, after \in Cursors : receive_batch(r, e, before, after)
         \/ \E before \in Cursors : queue_connector_crawl(r, e, before)
         \/ retry_run(r, e)
    \/ \E f \in FileRuns : RetryFileRun(f)
    \/ \E s \in {"active", "paused", "archived"} : update_source(s)

Dispatcher == \E e \in Events : dispatch_pending_work(e) \/ DispatchDies(e)

Arq ==
    \/ \E e \in Events : StartJob(e) \/ OutOfTries(e)
    \/ JobReturns \/ JobRetries \/ JobAborts
    \/ Crash \/ Restart \/ RedisLoss

Next ==
    \/ Api
    \/ Dispatcher /\ UNCHANGED dataVars
    \/ Arq /\ UNCHANGED dataVars
    \/ process_ingestion_event
    \/ Tick

Spec == Init /\ [][Next]_vars

-----------------------------------------------------------------------------
(* Fairness.  The worker process is restarted by its supervisor and goes on *)
(* with the job it has; the cron dispatcher runs every five seconds, and    *)
(* arq takes queued jobs in the order of their due times, so neither a due  *)
(* row nor a queued job waits for ever once the worker is idle again and    *)
(* again.  A job whose time is up is cancelled.  The database may fail any  *)
(* transaction of the handler, but not the first one of every job for ever. *)
(* Requests, failures of the collector and faults are never forced.         *)

ArqGoesOn == JobReturns \/ JobRetries \/ (~TimeMayPass /\ JobAborts)
QueueServes(e) == dispatch_pending_work(e) \/ StartJob(e) \/ OutOfTries(e)

Fairness ==
    /\ WF_vars(Tick)
    /\ WF_vars(process_ingestion_event \/ (ArqGoesOn /\ UNCHANGED dataVars))
    /\ SF_vars(pc = "claim" /\ process_ingestion_event)
    /\ \A e \in Events : SF_vars(QueueServes(e) /\ UNCHANGED dataVars)

FairSpec == Spec /\ Fairness

-----------------------------------------------------------------------------
(* Properties. *)

InProgress == pc \in {"work", "count", "finish"}

\* While process_ingestion_event works on a run, that run holds the source's
\* collection lease, and the lease outlives the job: no batch, crawl or retry
\* that looks at the lease under the lock can take the source away from it,
\* although none of the worker's later transactions looks at its expiry again.
WorkerHoldsLease ==
    InProgress => lease_run_id = run /\ lease_left > ttl[cur]

\* A lease held by a collection run is held for work that is still to be done:
\* every path of process_ingestion_event that settles the stage (success,
\* failure, paused source, lost lease) has given the lease back, so a settled
\* run never keeps the source from being collected.
LeaseHolderUnsettled ==
    \A r \in Runs : lease_run_id = r => stage[r] \in Open

\* A run that is not settled is never forgotten: some outbox row that the
\* dispatcher still picks up asks for its stage, whatever crashed in between
\* and however many rows its retries have left behind.
UnsettledRunIsInOutbox ==
    \A r \in Runs : stage[r] \in Open => \E e \in Events : ev_run[e] = r /\ LiveEvent(e)

\* The cursor of a source with a live lease is moved by nobody but the worker
\* that collects for the holder of that lease.
CursorMovedByHolder ==
    [][cursor' # cursor => ~LeaseLive \/ (pc = "work" /\ run = lease_run_id)]_vars

\* The fence: what is stored for a run accepted earlier is stored while the
\* source is active, and for an event written under its present generation.  A
\* source paused or archived since then gains nothing from the work in flight.
NothingStoredBehindFence ==
    [][\A r \in observed' \ observed :
         kind[r] # "none" =>
           /\ source_status = "active"
           /\ cur # NoEvent /\ run = r /\ ev_generation[cur] = generation]_vars

\* Every accepted run is settled in the end, through any number of failures of
\* the collector and up to MaxFaults faults.
RunsSettle ==
    \A r \in Runs : (stage[r] \in Open) ~> (stage[r] \notin Open)

\* A completed stage is durable while its source is left alone: rows that its
\* retries left in the outbox and starts of its job after a crash between the
\* commit and mark_event_delivered change nothing.  Only a claim under a changed
\* source overwrites the success, because it looks at the source before it looks
\* at the stage.
CompletedStageIsKept ==
    [][\A r \in Runs :
         stage[r] = "succeeded" /\ stage'[r] # "succeeded" =>
             pc = "claim" /\ run = r /\ ~SourceUsable(cur)]_vars

\* What its runs look like from outside.
Life == [r \in Runs |-> IF stage[r] \in Open THEN "open" ELSE stage[r]]
Asked == [r \in Runs |-> {ev_generation[e] : e \in {x \in Events : ev_run[x] = r}}]

Ledger == INSTANCE RunLedger
              WITH status <- source_status, life <- Life, asked <- Asked, stored <- observed

\* To the owner a run is a request that stands or falls with the source as it was:
\* whichever of its rows the worker serves, and whatever is repeated, the run
\* stores and succeeds under a request that still stands, succeeds with its batch
\* stored, and is opened again by a retry only.
RunsFollowLedger == Ledger!Spec

\* What the ledger says of exceptions in the worker: a handler that ends while
\* it works on a run does not leave the run in "running".
FailureIsRecorded ==
    [][Working /\ pc' = "return" => stage'[run] # "running"]_vars

=============================================================================
