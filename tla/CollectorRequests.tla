-------------------------- MODULE CollectorRequests -------------------------
(***************************************************************************)
(* Ingestion with database sessions that read before they lock.            *)
(*                                                                         *)
(* A session of SQLAlchemy keeps the first copy it loads of a row: the     *)
(* locked select that follows waits for the row's current state and then   *)
(* hands out the copy.  Three transactions of Ingestion begin that way:    *)
(*  - /sync loads the source, and receive_batch locks it afterwards;       *)
(*  - /crawl loads the source and then its collection state, and           *)
(*    queue_connector_crawl locks both afterwards;                         *)
(*  - retry_run and every transaction of the worker load the run, and lock *)
(*    the source and the run afterwards.                                   *)
(* Each read is a step of its own.  A column is written only if the new    *)
(* value differs from the copy's, which is why IngestionRun.status,        *)
(* written together with the stage's status, is a variable here.           *)
(*                                                                         *)
(* Other requests go on beside one that has begun that way, but each of    *)
(* those is one step: /ingestion/batches, which reads all it looks at      *)
(* under the lock, and any request with nothing between its halves.        *)
(***************************************************************************)
EXTENDS Ingestion

VARIABLES
    run_status,      \* [Runs -> RunStatus]: IngestionRun.status
    worker_saw,      \* the status of its run that the worker's session has loaded
    request,         \* the request that has loaded its rows and not locked them
    seen_generation, \* Source.generation as a collector's request has loaded it
    seen_state,      \* a crawl request has found a row of source_ingestion_state
    seen_left,       \* until the lease_expires_at in that row
    seen_run,        \* the run a retry request has loaded
    seen_status,     \* and its status then
    late,            \* runs accepted after the change of a source already loaded
    overtaken        \* runs whose live lease was given to a later crawl

statusVars == <<run_status, worker_saw>>
requestVars == <<request, seen_generation, seen_state, seen_left, seen_run, seen_status>>
historyVars == <<late, overtaken>>
requestsVars == <<statusVars, requestVars, historyVars>>
allVars == <<vars, requestsVars>>

RunStatus == {"none", "queued", "running", "succeeded", "failed"}

\* The run's status that belongs to a stage's.
RunStatusOf ==
    [none |-> "none", pending |-> "queued", running |-> "running", retrying |-> "queued",
     succeeded |-> "succeeded", failed |-> "failed"]

\* "unset" while no copy of the run is loaded
RequestsTypeOK ==
    /\ TypeOK
    /\ run_status \in [Runs -> RunStatus]
    /\ worker_saw \in RunStatus \cup {"unset"}
    /\ request \in {"none", "sync", "crawl_source", "crawl", "retry"}
    /\ seen_generation \in 0..MaxGeneration
    /\ seen_state \in BOOLEAN
    /\ seen_left \in 0..CollectionLease
    /\ seen_run \in Runs \cup {NoRun}
    /\ request = "retry" => seen_run \in Runs
    /\ seen_status \in RunStatus
    /\ late \in SUBSET Runs
    /\ overtaken \in SUBSET Runs

RequestsInit ==
    /\ Init
    /\ run_status = [r \in Runs |-> "none"]
    /\ worker_saw = "unset"
    /\ request = "none"
    /\ seen_generation = 0
    /\ seen_state = FALSE
    /\ seen_left = 0
    /\ seen_run = NoRun
    /\ seen_status = "none"
    /\ late = {}
    /\ overtaken = {}

\* What the row holds after a session with this copy of it has written v.
Written(row, copy, v) == IF v = copy THEN row ELSE v

-----------------------------------------------------------------------------
(* The collector's requests. *)

NoRequest ==
    /\ request' = "none"
    /\ seen_generation' = 0
    /\ seen_state' = FALSE
    /\ seen_left' = 0
    /\ seen_run' = NoRun
    /\ seen_status' = "none"

\* The credential is looked up first and needs an active source too; the copy of
\* the source that the session keeps is the one loaded afterwards.
LoadForSync ==
    /\ request = "none"
    /\ source_status = "active"
    /\ request' = "sync"
    /\ seen_generation' = generation
    /\ UNCHANGED <<vars, statusVars, seen_state, seen_left, seen_run, seen_status, historyVars>>

LoadForCrawl ==
    /\ request = "none"
    /\ source_status = "active"
    /\ request' = "crawl_source"
    /\ seen_generation' = generation
    /\ UNCHANGED <<vars, statusVars, seen_state, seen_left, seen_run, seen_status, historyVars>>

\* The address of the source has been resolved meanwhile.
LoadState ==
    /\ request = "crawl_source"
    /\ request' = "crawl"
    /\ seen_state' = HasState
    /\ seen_left' = lease_left
    /\ UNCHANGED <<vars, statusVars, seen_generation, seen_run, seen_status, historyVars>>

\* A new run with the outbox row of a request: the row carries the generation
\* that was loaded, and the source passes for active whatever it is by now.
Accept(r, e, key) ==
    /\ AddRun(r, key)
    /\ ev_run[e] = NoRun
    /\ ev_run' = [ev_run EXCEPT ![e] = r]
    /\ ev_generation' = [ev_generation EXCEPT ![e] = seen_generation]
    /\ ev_status' = [ev_status EXCEPT ![e] = "pending"]
    /\ TakeLease(r)
    /\ run_status' = [run_status EXCEPT ![r] = "queued"]
    /\ late' = IF generation # seen_generation THEN late \cup {r} ELSE late
    /\ NoRequest
    /\ UNCHANGED <<job, tries, ttl, cur, pc, faults, sourceVars, worker_saw>>

\* Mutated form of receive_connector_batch: the source's live lease is not looked at.
BatchTakesLease(r, e, cursor_before, cursor_after) ==
    /\ request = "sync"
    /\ cursor = cursor_before
    /\ Accept(r, e, "receive")
    /\ observed' = observed \cup {r}
    /\ cursor' = cursor_after
    /\ UNCHANGED overtaken

\* The collection state is read under the lock.
receive_connector_batch(r, e, cursor_before, cursor_after) ==
    /\ request = "sync"
    /\ ~LeaseLive
    /\ cursor = cursor_before
    /\ Accept(r, e, "receive")
    /\ observed' = observed \cup {r}
    /\ cursor' = cursor_after
    /\ UNCHANGED overtaken

\* The cursor that queue_connector_crawl compares is the loaded one on both
\* sides, and the lease is the loaded one too, unless there was no row to load.
submit_crawl(r, e) ==
    /\ request = "crawl"
    /\ seen_left = 0
    /\ seen_state \/ (~LeaseLive /\ cursor = 0)
    /\ Accept(r, e, "collect_web")
    /\ overtaken' = IF LeaseLive THEN overtaken \cup ({lease_run_id} \cap Runs) ELSE overtaken
    /\ UNCHANGED <<observed, cursor>>

\* Refused, or given up by the client.
RequestEnds ==
    /\ request # "none"
    /\ NoRequest
    /\ UNCHANGED <<vars, statusVars, historyVars>>

-----------------------------------------------------------------------------
(* The owner's retry. *)

LoadForRetry(r) ==
    /\ request = "none"
    /\ kind[r] # "none"
    /\ request' = "retry"
    /\ seen_run' = r
    /\ seen_status' = run_status[r]
    /\ UNCHANGED <<vars, statusVars, seen_generation, seen_state, seen_left, historyVars>>

\* A fresh start for the run: what happened to it before does not count.
RetryCommits(e) ==
    /\ request = "retry"
    /\ retry_run(seen_run, e)
    /\ run_status' = [run_status EXCEPT ![seen_run] = Written(@, seen_status, "queued")]
    /\ late' = late \ {seen_run}
    /\ overtaken' = overtaken \ {seen_run}
    /\ NoRequest
    /\ UNCHANGED worker_saw

\* A batch, a crawl or a retry with nothing between its halves.
RequestAtOnce ==
    /\ \E r \in Runs, e \in Events :
         /\ \/ \E before, after \in Cursors : receive_batch(r, e, before, after)
            \/ \E before \in Cursors : queue_connector_crawl(r, e, before)
            \/ retry_run(r, e)
         /\ run_status' = [run_status EXCEPT ![r] = "queued"]
         /\ late' = late \ {r}
         /\ overtaken' = overtaken \ {r}
    /\ UNCHANGED <<worker_saw, requestVars>>

-----------------------------------------------------------------------------
(* The worker. *)

\* run_hint, at the start of the claim, of the transaction that records a
\* failure and of the one that records the result.
LoadRun ==
    /\ pc \in {"claim", "work", "count", "finish"}
    /\ worker_saw = "unset"
    /\ pc = "claim" => ev_status[cur] # "delivered"
    /\ worker_saw' = run_status[run]
    /\ UNCHANGED <<vars, run_status, requestVars, historyVars>>

\* The transactions that settle the stage, start it or send it back.
WritesRun ==
    \/ ClaimUnavailable \/ ClaimLeaseLost \/ ClaimStage
    \/ PermanentFailure \/ RetryExhausted \/ ScheduleRetry
    \/ FinishUnavailable \/ FinishSucceeded

\* Mutated form of RunWritten: a failure is written to the stage only.
FailureUnwritten ==
    /\ worker_saw # "unset"
    /\ WritesRun
    /\ run_status' = IF stage'[run] = "failed" THEN run_status
                     ELSE [run_status EXCEPT ![run] = Written(@, worker_saw, RunStatusOf[stage'[run]])]
    /\ worker_saw' = "unset"
    /\ UNCHANGED <<requestVars, historyVars>>

RunWritten ==
    /\ worker_saw # "unset"
    /\ WritesRun
    /\ run_status' = [run_status EXCEPT ![run] = Written(@, worker_saw, RunStatusOf[stage'[run]])]
    /\ worker_saw' = "unset"
    /\ UNCHANGED <<requestVars, historyVars>>

\* The same sessions when nothing is written.
RunUnwritten ==
    /\ worker_saw # "unset"
    /\ ClaimSucceeded \/ ClaimBusy \/ TransientUnavailable
    /\ worker_saw' = "unset"
    /\ UNCHANGED <<run_status, requestVars, historyVars>>

RunNotLoaded ==
    /\ worker_saw = "unset"
    /\ \/ ClaimDelivered \/ CountObservations \/ mark_event_delivered
       \/ \E c \in Cursors : collect_web_job(c)
    /\ UNCHANGED requestsVars

QueueGoesOn ==
    /\ Dispatcher \/ Arq
    /\ worker_saw' = "unset"
    /\ UNCHANGED <<dataVars, run_status, requestVars, historyVars>>

TimePasses ==
    /\ Tick
    /\ seen_left' = Dec(seen_left)
    /\ UNCHANGED <<statusVars, request, seen_generation, seen_state, seen_run, seen_status,
                   historyVars>>

Requests ==
    \/ LoadForSync \/ LoadForCrawl \/ LoadState \/ RequestEnds
    \/ \E r \in Runs, e \in Events :
         \/ \E before, after \in Cursors : receive_connector_batch(r, e, before, after)
         \/ submit_crawl(r, e)
    \/ \E r \in Runs : LoadForRetry(r)
    \/ \E e \in Events : RetryCommits(e)
    \/ RequestAtOnce
    \/ \E f \in FileRuns : RetryFileRun(f) /\ UNCHANGED requestsVars
    \/ \E s \in {"active", "paused", "archived"} : update_source(s) /\ UNCHANGED requestsVars

RequestsNext ==
    \/ Requests
    \/ LoadRun \/ RunWritten \/ RunUnwritten \/ RunNotLoaded
    \/ QueueGoesOn
    \/ TimePasses

RequestsSpec == RequestsInit /\ [][RequestsNext]_allVars

-----------------------------------------------------------------------------
(* Properties. *)

\* Nobody takes the source away from a run the worker is busy with, but a crawl
\* whose request had loaded the collection state before that run took the lease.
LeaseLostToStaleCrawlOnly ==
    InProgress => run \in overtaken \/ (lease_run_id = run /\ lease_left > ttl[cur])

\* Of two crawls that overlap that way one is thrown away: a run that was
\* overtaken stores no pages, unless the owner retries it.
OvertakenStoresNothing ==
    [][(observed' \ observed) \cap overtaken = {}]_allVars

\* A batch or a crawl accepted after the source it had loaded was paused,
\* archived or resumed is never counted as a success, although it is stored and
\* may have moved the cursor: the owner finds it failed and has to retry it.
LateRunFails ==
    [][\A r \in late : stage'[r] = "succeeded" => r \notin late']_allVars

\* The run's status, which is what the API reports, is the stage's.  It may stay
\* behind while a retry and the worker write from copies of different age, but
\* never for good: then some outbox row still brings the worker back to the run.
StatusFollowsStage ==
    \A r \in Runs :
        run_status[r] # RunStatusOf[stage[r]] => \E e \in Events : ev_run[e] = r /\ LiveEvent(e)

=============================================================================
