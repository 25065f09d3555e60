# BBD-OS: specifications

TLA+ specifications of BBD-OS, the TLC configurations that check them on small
instances, and the proofs TLAPS checks for all instances. Every definition is
translated from the code in `src/`; `PROJECT.json` maps each one to its lines.

Parse with `tlasany M.tla`, check with `tlc -config X.cfg M.tla`, prove with
`tlapm MProofs.tla`.

1. [The system](#1-the-system) · 2. [Modules and code](#2-modules-and-code) ·
3. [Runs](#3-runs) · 4. [Bounds](#4-bounds) · 5. [Fairness](#5-fairness) ·
6. [Proofs](#6-proofs) · 7. [Disagreements](#7-disagreements) ·
8. [Not modelled](#8-not-modelled) · 9. [Plan](#9-plan)

## 1. The system

One owner keeps personal knowledge: documents typed in, files uploaded,
batches delivered by collectors, pages crawled. Processes:

| process | what it runs |
|---|---|
| API (`apps/api`, FastAPI) | every request of the UI and of the collectors, one transaction or two each |
| worker (`apps/worker`, arq, `max_jobs = 1`) | `process_ingestion_event`, `process_uploaded_file`, `process_source_purge`; cron: `dispatch_pending_work` (5 s), `index_pending_chunks` (1 min), `cleanup_storage_orphans` (5 min), `purge_expired_sessions` (1 h) |
| browser collector (`modules/connectors/crawl.py`) | one crawl at a time, asked by the worker over HTTP |
| web client (`apps/web`, Next.js) | forms and lists; shares one session among tabs |
| PostgreSQL | sources, runs, stages, outbox, documents, index |
| Redis | arq's queue, model slots, model mapping, consent, capability cache |
| n8n, OmniRoute (the model provider) | external |

Shared state is rows in PostgreSQL, keys in Redis and files in a directory; no
transaction spans two of them, and that is where most of the hazards are.

### Components

**Ingestion** (`modules/ingestion/public.py`, `apps/worker/main.py`). State: a
batch, run and stage per accepted delivery; per source a collection lease and a
cursor. Operations: `receive_batch`, `queue_connector_crawl`, `retry_run`, and
the handler `process_ingestion_event`, four transactions and a crawl between
them. Hard: everything may happen between those transactions (pause, archive,
another retry, a crash), rows of earlier attempts are still in the
outbox, and six exits each settle the stage with code of their own. Correct if:
one run at a time collects from a source, no run is forgotten or left open, no
work is stored that the owner has fenced off, and retries are bounded.

**Requests of collectors** (`modules/connectors/routes.py`). `/sync` and `/crawl`
load the source, `/crawl` the collection state too, before `receive_batch` and
`queue_connector_crawl` lock them. Hard: a session of SQLAlchemy hands out the
copy it has, also from a locked select or `session.get(with_for_update=True)`;
only `populate_existing`, which `modules/sources/public.py:37` and `:71` ask for,
refreshes it, and the sessions have `expire_on_commit=False`. What is decided under
the lock may thus rest on what was read before it. Correct if: a live lease keeps
other collections out, a source that was paused takes no work, and the status of
a run is that of its stage.

**Outbox, dispatcher, queue** (`dispatcher.py`, arq). State: the row's status in
PostgreSQL; arq's job, tries and kept result in Redis. `dispatch_pending_work`
enqueues due rows, each under the same job id at every attempt. Hard: enqueue
before commit; arq ignores an id that is queued, running or kept; jobs are
cancelled, counted and started again after a crash; Redis forgets.

**Sources and purge** (`modules/sources`). State: status and generation, which
every change of the status raises and which fences work in flight; the purge
operation. Hard: a purge is a request, a row of the outbox and a job that has to
meet uploads, retries and parsers in flight. That job fails at its first statement
on the rows (section 7, number 11), so a purge is no more than an archive for good
and a row that comes back for ever. Correct if: from the request on nothing is
added to the source or succeeds.

**Uploads, extraction, storage** (`modules/ingestion/routes.py`, `worker.py`,
`core/storage.py`). State: files named by drawn document ids; batch, run, stage
and document per content. Hard: the file is written before the transaction and
unlinked after a failed one, while a sweep compares an earlier list of
references with the directory of now; the parser's deadline lies inside the
job's. Correct if: no document loses its file, no deletion is undone, no
file is left for ever, no run that waits is forgotten.

**Documents** (`modules/knowledge/documents`). State: versions numbered from 1,
chunks of each, the current number. `append_content` (optimistic check on
`expected_version`), `save_extraction` (no check), `backfill_current_chunks`,
deletion, and the listing of versions by pages. Hard: three writers, a form that
goes on from answers, a reader whose pages are separate transactions. Correct if:
the rows are a log of versions with their own chunks, nobody replaces what they
have not seen, and the pages together have every version.

**Search index** (`modules/search`). State: generations (queued, running,
active, failed, retired), an item per generation and chunk, the vector space of
each generation. `reindex`, `index_pending_chunks`, `search`. Hard: the job
opens two sessions and keeps one lock across the provider's call; consent and
mapping are in Redis, the rest is not; the provider may change its model.
Correct if: vectors of different spaces are never compared, nothing is sent
behind the owner's back, and what becomes active is complete.

**Model gateway** (`core/model_gateway/client.py`). State: two keys in Redis,
with a token and a lifetime. Hard: a lost answer of `SET NX`, a death with the
key, a late release, an event loop that is held up, loss of Redis.

**Sessions** (`core/auth`, `apps/web/src/core/api.ts`). State: a session row with
the hash of a token; the cookies of the browser; the token each tab has. Hard:
`GET /auth/session` reads the row and rotates the token later without a lock;
several writes of a tab share one refresh and are each retried once.

**Chunking** (`core/chunking.py`), **crawl** (`modules/connectors/crawl.py`):
sequential algorithms; hard at their boundaries: characters that are spread
over tokens, and redirects, cycles and depths.

**Not modelled**: RSS and n8n, pagination by time, ranking, capability probes, health, wiring, migrations, deployment, the other pages of the client
(section 8).

## 2. Modules and code

    JobQueue ── Ingestion ── MCIngestion
        │           ├─────── CollectorRequests ── MCCollectorRequests
        │           :                └─────────── IngestionProofs
        │       RunLedger
        └────── Uploads ──── UploadsProofs

    RequestCap ·· ModelSlots ── MCModelSlots, ModelSlotsProofs
    VersionLog ·· Documents ─── MCDocuments, DocumentsProofs
                  Chunking ──── MCChunking, ChunkingProofs
                  SearchIndex ─ MCSearchIndex, SearchIndexProofs
                  Sessions ──── MCSessions, SessionsProofs
                  Crawl ─────── MCCrawl, CrawlProofs

`──` is EXTENDS, `··` and `:` the INSTANCE that the detailed module implements.

A transaction is one action when it takes its first lock before its first read
that matters; otherwise it is as many actions as it has such moments. A handler
of the worker is a sequence of actions over `pc`. Actions have the names of the
functions, or of the branch of a function (`ClaimBusy`, `FinishSucceeded`).
Leases and deadlines are numbers of ticks left. Definitions whose comment
begins with "Mutated form of" are plausible bugs of the code, one per property;
the runs must find each of them.

* `JobQueue`. `ev_status` is `EventOutbox.status`; `job`, `tries`, `ttl` are what
  arq keeps under `ingestion:<event id>`; `cur` and `pc` are the worker.
  `dispatch_pending_work` and `DispatchDies` (enqueued, not committed) are the
  dispatcher. `StartJob`, `OutOfTries`, `JobReturns`, `JobRetries`, `JobAborts`,
  `Crash` (in-progress key must lapse), `Restart` (SIGTERM: back in the queue) and
  `RedisLoss` are arq, modelled from how the code uses it.
* `Ingestion` extends it with one source. The API's operations are one action
  each. The handler is claim (seven branches), `collect_web_job`,
  `CountObservations`, four outcomes of a failure, two of the end, and
  `mark_event_delivered`. `update_source` covers pause, resume and archive. A request is one
  step here, as if it read all it decides by under its locks.
  `RetryFileRun` is `retry_run` for a run of a file, which takes the lease too.
* `RunLedger` is what a source promises of its runs: each is asked for while the
  source has some generation, such a request stands as long as the source is active
  and has that generation, and under a standing request only is a run's batch
  collected and its success recorded. `Ingestion` implements it: `Life` is the
  stage with its three open statuses as one, `Asked` the generations in the run's
  outbox rows. Queue, leases, attempts, cursor and worker are gone from it. Batches
  and crawls are accepted for whatever generation the request has loaded.
* `CollectorRequests` extends `Ingestion` with the reads that go before the locks.
  `LoadForSync`, `LoadForCrawl` and `LoadState` (`/crawl` loads the collection state
  after the source), `LoadForRetry` and the worker's `LoadRun` keep what the session
  has loaded (`seen_...`, `worker_saw`); `receive_connector_batch`,
  `submit_crawl` and `RetryCommits` decide by it; `Written` is the unit of work,
  which writes a column if the new value differs from the copy. `run_status` is
  `IngestionRun.status`. `late` and `overtaken` are auxiliary: the runs that were
  accepted, or lost their lease, because of an old copy. The steps of the worker
  are those of Ingestion. One request at a time is between its halves; beside it
  `RequestAtOnce` are requests with nothing between theirs, and
  `/ingestion/batches`, which reads all it looks at under the lock.
* `Uploads` extends `JobQueue` with one source's contents and files: the request
  (`save_upload`, `receive_file`, its refusals, `DiscardUpload`, `RequestDies`),
  `process_uploaded_file` in claim, parse, save and fail, the sweep in its two
  halves, deletion and retry, and the request for a purge. `process_source_purge` is
  a job that raises: `KeepResult` and nothing else (section 7, number 11).
* `VersionLog` is what a history promises: append, delete, never change.
* `Documents`: a document's `current`, `content`, `chunks` and `extraction`, the
  row's lock, each tab's form and request, the worker, the backfill, and a reader
  of the version list: `listed` and `after` are what the client has and its cursor.
  `basis` and `overlooked` are auxiliary: which version a draft was made from, and
  which versions an answer has named to a tab that never saw them.
* `SearchIndex`: sources, chunks as seen from their documents, mapping, consent,
  generations, items and vector spaces, the steps of the job, reindex requests
  (`reindexing` is what those under way have read) and a hybrid query. Everything `index_pending_chunks` does is an action.
* `RequestCap` is the abstract promise (at most `Cap` requests at a time);
  `ModelSlots` the keys, timeouts and requests that implement it.
* `Sessions`: the owner, session rows, cookie jar, each tab's token, its session
  query and shared refresh, and its writes with their one retry.
* `Chunking`: one turn of `chunk_text`'s loop is one step; a text is its number
  of tokens and the set of places between characters.
* `Crawl`: one step per address taken, request made and page recorded; the web
  is a variable that keeps any initial value.

## 3. Runs

| run | what it asks | bounds |
|---|---|---|
| `collector_requests` | Requests and a worker that read before they lock. A live lease is lost to a crawl with an old collection state only, and the run that lost it stores nothing; a settled run never holds a lease; only the holder moves the cursor; what was accepted for a changed source never succeeds; a run's status is behind its stage's only while the worker still comes back. | 2 runs, 2 rows, 2 cursors, 3 generations, 1 attempt, no faults |
| `ingestion_outbox` | One run, old and new rows of it, and a file run that takes the lease. Implements `RunLedger`: nothing is stored and nothing succeeds but for the source as it is. Never forgotten, settles in the end, a success overwritten only under a changed source. | 1 run, 1 file run, 2 rows, 3 generations, 2 attempts, 1 fault |
| `ingestion_failure` | Violation: section 7, number 1. | 1 run, 2 rows |
| `uploads` | An upload beside deletion, retry, pause, archive, sweep, and a purge that fails for ever: files kept, runs that wait are in the outbox and claimed or failed in the end, deletions final, nothing revived after the request for a purge, orphans go. | 1 content, 1 file, 2 rows, 2 generations, 1 fault |
| `uploads_deadline` | Violation: section 7, number 4. | 1 file, 1 row, equal deadlines, no fault |
| `search_index` | Vectors are comparable, consent is read again for each chunk, what is sent is still permitted, one generation is built and one active, and it is complete. | 1 source, 2 chunks, 2 models with a reindex request each, 4 spaces, 2 generations, 2 changes |
| `search_index_live` | A generation in progress settles; the active one catches up with new chunks. | 2 chunks, 2 spaces, 1 generation, 3 changes |
| `model_slots` | The keys implement `RequestCap`, a dead request's slot comes back. | 3 requests, 2 slots, 2 timeouts, 1 loss |
| `documents` | The rows implement `VersionLog`, chunks are of their own version, stale input is refused (but see section 7, number 7), the cursors lead through every version. | 2 tabs, 2 contents and the empty one, 4 versions, pages of 2 |
| `sessions` | A write is carried out at most once, refused only for a foreign reason, never left waiting; ended sessions stay ended. | 2 tabs, 2 writes of one, 3 tokens, 1 login |
| `chunking` | Cuts between characters, nothing lost, sizes and overlap in bounds. | every text of up to 14 tokens |
| `crawl` | Exactly the pages near enough are found, and the crawl runs down. | every web of 4 addresses with up to 2 links a page |

`ingestion_outbox`, `uploads`, `uploads_deadline`, `search_index_live` and
`model_slots` use `FairSpec`, the others `Spec`. Deadlock is not checked where the bounds let the
system stop (no tokens, rows or changes left); `chunking` checks it.

## 4. Bounds

Every bound is a CONSTANT marked `bound:` in its module and used in a guard,
but for `LastTokenForOneWrite`, a CONSTRAINT of MCSessions.

* Two outbox rows and two or three generations are what it takes for an old row
  to meet a new attempt, and for a pause and a resume between two transactions
  of a handler. `MaxAttempts = MaxTries = 2` is the least with a retry; the code
  has 5. One fault lets a job be started again at any of its steps.
* CollectorRequests has one attempt, one try and no faults, to leave room for two
  runs, two cursors and requests in halves; what the faults do to a run is the
  subject of `ingestion_outbox`, and its properties are proved with any number of
  each (section 6).
* Ticks keep the order of the durations, not their size. Ingestion:
  lease 2 > job timeout 1, result 3 > lease 2, as 900 s > 120 s and
  3600 s > 900 s. ModelSlots: `Slack` 1 < `Grace` 2, two different timeouts.
  Uploads: job < lease of the file < grace of the sweep = lifetime of a result, as
  120 s < 150 s < 3600 s. The parser's deadline equals the job's in
  `uploads_deadline`, as shipped; `uploads` has it below the job's, which is a matter
  of the settings, so that it can strike.
* One file in `uploads`: liveness is beyond two. Two uploads of one content, of which
  the second is refused and discards its file, are covered by the proofs of the
  safety properties, which hold for any number of files, and not by the run.
* Reindex requests under way are known by the model they have read: of several with
  the same one the second finds what the first has made, as if it came later.
* Index: two chunks are enough for a hole, two models and two identities of two
  dimensions for mixed spaces, two generations for one being built beside an
  active one.
* Documents: a save that overlooks a version needs three versions, a page that is
  full while more is added needs a page of two and a fourth version.
* Sessions: a rotation that is overtaken by a logout needs a third token. To
  keep that affordable only one write is under way once it is issued; with two
  tokens the two writes are unrestricted.
* Chunking: with `Target` 5, `Overlap` 1 and characters of up to two tokens a text
  of 14 tokens takes three and more chunks, all placings of the boundaries included.
* Crawl: four addresses contain every redirect loop, shortcut and repeated link
  that depth 2 can tell apart; `MaxHops` 3, `QueueLimit` 3 and `MaxPages` 4 are
  reached (the code has 6, 100 and up to the request's limit).
* Symmetry is used in safety runs only, over ids that are compared for equality
  only (tabs of Documents; not those of Sessions, where writes belong to one).

## 5. Fairness

Requests of the owner, the collectors and the web client, failures and faults
are never forced, with one exception below. What is fair:

* Time passes (`Tick`). In Uploads strongly: time cannot pass while a request or
  the worker must act first.
* The worker is restarted by its supervisor and goes on with the job it has, and a
  job whose time is up is cancelled (arq's `job_timeout`): WF on the handler
  together with arq's own steps.
* A due row is dispatched and a queued job started again and again (SF per row):
  the cron function runs every five seconds and takes rows in the order of
  `created_at`, and arq takes jobs by score. SF, because the one worker is
  busy in between.
* Ingestion: the first transaction of a job succeeds now and then (SF on the
  claim); a database that refuses each one for ever settles nothing.
* Uploads: requests end (WF), the sweep runs (SF), and in the end the transactions
  of the handler of files are no longer refused (`<>[][~Refused]_vars`). The parser
  may hang every time, and the job of a purge fails every time.
* SearchIndex: the cron job goes on (WF); Redis is not out of reach whenever the
  settings are read (SF on `ConfigAllowed`); in the end the job is no longer
  killed. The provider may fail every time.
* ModelSlots: time passes, `asyncio.timeout` fires, and the release in `finally`
  is attempted (WF). Fairness is not assumed for the provider or for Redis.

## 6. Proofs

All proofs are of the specifications without fairness, for every value of the
constants that satisfies the module's assumption. TLC evaluates the assumptions in
every run.

**IngestionProofs**, from `QueueAssumption` and `IngestionAssumption`. The ones
that matter are `CollectionLease > JobTimeout` (15 minutes and 120 s) and
distinct ids.

* `TypeCorrect` (the type invariant is proved and no longer run), with what the
  worker's state must look like beside its type
  (`BaseInv`: an idle worker has no job, a row that was published has a run or
  none, the job being run is marked active).
* `WorkerHoldsLeaseCorrect` and `LeaseHolderUnsettledCorrect`, together as
  `LeaseInv`. Neither is inductive alone: that a step which settles the stage
  gives back the right lease needs the first, and that no other run can take the
  lease needs both. Only `ClaimStage` starts work, and it renews the lease to
  `CollectionLease`, which exceeds the job's time; from then on lease and job
  lapse together. `WorkerHoldsLease` is true of requests that read under their
  locks only; what is left of it for the others is `LeaseLostToStaleCrawlOnly`.
* `UnsettledRunIsInOutboxCorrect` from `OutboxInv`, which adds that runs without a
  stage key have no stage, that a row's run exists, and that the event is marked delivered after the
  success only. The case that matters: a row is marked failed or delivered only in
  the transaction that settles its stage, or when the stage is settled already.
* `CompletedStageIsKeptCorrect`, which needs `RunningInv`: the stage the worker is
  at work on is marked running, so that none of its six exits meets a success.
* `CursorMovedByHolderCorrect`, `NothingStoredBehindFenceCorrect`: action
  properties, from `BaseInv` and a case analysis of the steps that write them.

* `RunsFollowLedgerCorrect`: every step of Ingestion is a step of `RunLedger` or a
  stutter. It needs the invariants above and `LedgerInv` (a row of a run has its
  stage, and a run whose result is about to be recorded has its batch).
  `RowIsRequest` is the core: the worker's row is one of its run's requests, so
  `SourceUsable` means that a request stands. That `ClaimStage` is a stutter, and
  does not reopen a run, rests on `LeaseHolderUnsettled`; that a success can be
  withdrawn by a claim under a changed source (section 7, number 2) is a step of the
  ledger of its own.

The second part of the module is about **CollectorRequests** and builds on the first:
`RequestStepCases` says that a step is a step of Ingestion or the acceptance of a run
from an old copy, so that only the latter is new for the invariants of Ingestion
(`RunsInv`). Beside them:

* `TakeoverInv` (a run that was overtaken does not hold the lease) carries
  `LeaseLostToStaleCrawlOnlyCorrect` and `OvertakenStoresNothingCorrect`. A step of
  Ingestion from a state where the worker holds its lease is covered by
  `WorkerLeaseStep`; otherwise the run is overtaken, and stays so until its retry.
* `LateInv` carries `LateRunFailsCorrect`: all rows of a late run have a generation
  that is past, and generations only grow.
* `StatusInv` carries `StatusFollowsStageCorrect`. Its core: if the copy in the
  worker's session differs from the row, then a retry has committed in between, and
  its outbox row, another than the worker's, is live. So whenever a write is
  skipped because the new value equals the old copy, the worker still comes back.
  That `run_status` and stage agree about success is part of it: retries refuse
  succeeded stages, which is why an old copy can never hide a success.
* `RequestsFollowLedger`: with old copies the ledger is still implemented. A run
  accepted late is one whose only request does not stand, since the generation that
  was loaded is not greater than the source's (`LateInv`).

**DocumentsProofs**, from `DocumentsAssumption`. `Base` is the type invariant,
`LockInv` (who is between lock and commit holds the row's lock, nobody else does,
and the document is there), `RowsInv` (the rows are exactly the versions up to
`current`) and `ListInv` (a client with a cursor has all versions up to it).

* `DocumentsImplementLog`: `append_content` and `save_extraction` map to `Append`,
  the deletion to `Delete`, all others to stutters. That the text differs from the
  current version's is tested under the lock, and nobody can have written since.
* `ChunksAreOfTheirVersionCorrect`: versions do not change, and the backfill fills
  only what has no chunks when it commits.
* `StaleInputIsRefusedCorrect` from `StaleInv`: a version that a form expects, or is
  about to be told, is the one its draft was made from, has been overlooked, or is
  no longer current, in which case the save is refused.
* `ListingIsCompleteCorrect` from `ListInv`; `PageShape` says which interval a page
  is, and its size comes from the theorems on finite sets of the library.

**UploadsProofs**, from `QueueAssumption` and `UploadsAssumption`. Database and
directory are tied together by `FilesInv`: a file that a row names is of a request
that is over, which therefore will not discard it, and the file of a request that
has not decided yet is on disk and young (`RequestsAreShort`, the assumption about
time in `Tick`). The rows are in `RowsInv`: a content without its batch has neither
a stage nor a row that asks for it, the worker holds on to what it has claimed, and
the request for a purge archives for good.

* `RawFileKeptCorrect` needs `SweepInv` besides: between the halves of a sweep every
  document's file was seen or is younger than the grace.
* `NothingRevivedAfterPurgeCorrect` from the same `RowsInv`: whatever adds a document
  or moves a stage but into failure looks at the source's status in the transaction
  that does it, and a source whose purge was requested stays archived.
* `PendingRunInOutboxCorrect`: a row is settled with its stage, or when the stage
  is not pending; the claim that leaves a stage running is in `RowsInv`.
* `DeletedStaysDeletedCorrect`: `receive_file` alone adds documents.

**SearchIndexProofs**, from `SearchIndexAssumption`. Every step is first put among
those that change a generation, an item, the job or a source (`StatusSteps`,
`ItemSteps`, `JobSteps`, `SourceSteps`); the parts of `IndexInv` then follow case by
case.

* `SearchComparesLikeWithLikeCorrect`: `SpaceInv` (a vector is of its generation's
  space, an active generation has one, and a space once given stays), `ResponseInv`
  (dimensions were compared when the answer came) and `QueryInv` (what a search has
  loaded is still the generation's).
* `SendsAreFencedCorrect` from `FenceInv`, the lock on the source;
  `ConsentIsRereadCorrect` from `ConsentInv`: who has sent once without the consent
  has to read it before the next time; `OneGenerationEachCorrect` from `Unique`.
* `ActivatedWhenCompleteCorrect` from `SeenInv`: what was eligible at both looks has an
  item that was tried, and the job does not drop it.

**SessionsProofs**, from `SessionsAssumption`. `AppliedByStep` (only a write whose
answer is on its way has been carried out) makes `AppliedAtMostOnce` inductive: a
write is sent again from a refusal only. `WaitersHaveRefresh` is inductive with the
types, since a refresh ends in two steps, which take its waiters along
(`WaitersAreTaken`). `EndedSessionsStayEndedCorrect` says that a rotation does not
make a row again. `RefusedOnlyIfDisturbedCorrect` from `RefusalInv`, which follows a
write that nobody has disturbed through its first refusal, the refresh it waits for
and its second request: the session is still the one it was issued for, the token
the refresh rotates from is the row's, the new one is the row's when the answer
sets it, and the retry carries that one. Two writes that share a refresh are taken
along together; `RefreshHasWaiter` says that no refresh is under way for nobody,
so that what holds for its waiters holds for a write that begins beside it.

**ModelSlotsProofs**, from `SlotsAssumption`, in particular `Slack < Grace`: an
event loop is never held up for the ten seconds a key lives longer than its
request's timeout. `IInv` is `TypeOK`, `HoldsKey` (who sends and has not lost its
key by a loss of Redis holds it, for `Grace` longer than its own timeout) and
`Timely` (a timeout fires at most `Slack` late). Requests inject into slots, hence
`CapIsRespected`; `SlotsImplementCap` maps every step to `Begin`, `End` or a
stutter of `RequestCap`.

**ChunkingProofs**, from `Target >= Overlap + 2 * CharTokens`; every call uses 750
and 90. `IInv` is `TypeOK`, the three invariants, and `Unfinished` (as long as the
loop runs, the next chunk begins, and the last one ended, before the end of the
text). `EndOfChunk` and `StartOfNext` say where a chunk ends and the next one
starts; `CutPreserves` puts them together and yields `ChunksAdvanceCorrect` too
(every chunk ends further than the one before).

**CrawlProofs**, from `CrawlAssumption`: every set of addresses, finite or not,
every web and all limits. The library's theorems on induction and recursion take an
operator as a parameter; the module states both for sets and for functions
(`SetInduction`, `RecursiveFunction`), from the theorem that a well-founded relation
has minimal elements (`WFMin`), and derives the equations of `Page`, `Near` and
`Enqueued` from them.

* `FindsPagesNearCorrect` from `CrawlInv`. `OrderInv`: the queue holds one depth, then
  the next, which is why the first visit of an address is the shallowest. `SoundInv`:
  what is recorded, queued or followed is near. `VisitedInv`: an address that was
  visited has its page recorded, or starts the chain of redirects being followed.
  `CompleteInv`: the first address, and every link of a recorded page that is not at
  the last depth, is *covered*, that is recorded, queued or being followed, no deeper
  than it should be. When the queue is empty covered means recorded, and
  `AllNearRecorded` is the induction over the depth.
* `JobRunsDownCorrect`: an address is requested for the first time, or the chain of
  redirects or the queue gets shorter. Since addresses are finite in number in every
  run, a crawl ends.

`WorkerHoldsLease`, `CapRespected`, `ChunksAdvance`, the type invariants these proofs
rest on and `NothingStoredBehindFence` are proved and no longer run under TLC; the last
is what `RunsFollowLedger` says of stored batches, with the very row the worker serves
for the request that stands.

**Only model-checked.** Liveness (fairness and ENABLED are beyond the prover):
`RunsSettle`, `OrphansAreRemoved`, `PendingFileRunIsClaimed`, `GenerationSettles`,
`ActiveCatchesUp`, `SlotsComeBack`. Every other property of a
passing run is proved; of `ImplementsCap`, `ImplementsLog` and `RunsFollowLedger`
the proof covers the initial states and the steps, which is all they say.

## 7. Disagreements

Where code and documents, or code and its own intent, disagree. Numbers 1 and 4 are
runs in which TLC finds the violation; for the others the place where the model shows
the behaviour and what keeps it out of the passing runs is named.

1. `apps/worker/main.py:350`. A transient failure whose source was paused
   meanwhile calls `with_for_update()`, a name that does not exist. The NameError
   ends the job, nothing is committed and stage and run stay "running", although
   `EXECUTION.md:120` says that unexpected exceptions fail the run and release its
   lease. Run `ingestion_failure`; in the model `TransientUnavailable`.
2. `apps/worker/main.py:261`. The claim looks at the source before it looks for a
   succeeded stage (line 278). A job started again after its success was committed
   and its source paused overwrites the success with "failed", whereas
   `personal-intelligence-os-spec-v2.md:4476` has it resume from durable completed
   stages. `ClaimUnavailable`; the last line of `CompletedStageIsKept` admits it.
3. `modules/ingestion/dispatcher.py:44`. A job that was cancelled or raised leaves
   a kept result under the id with which the row is dispatched again, and arq
   ignores that id for an hour, longer than the lease of 15 minutes after which
   `EXECUTION.md:120` promises a visible failure. `Enqueue`, with
   `ResultTTL > CollectionLease`; `RunsSettle` holds, only later.
4. `apps/worker/main.py:459` and the default of `parser_timeout_seconds`: both are
   120 s, so arq's cancellation, which records nothing, comes before the parser's
   own deadline (`EXECUTION.md:128`). A file on which the parser hangs is parsed again
   at every dispatch and its run never settles. `ParserDue`; run `uploads_deadline`, which violates
   `RunningFileRunSettles`. With `JobTimeout = 2` and `FileLease = 3` in its cfg the
   property holds: no fault and no change of the source, no stuck run.
5. `modules/ingestion/worker.py:145`. A parser that fails after the source was
   changed settles only the outbox row; stage and run stay "running", and
   `retry_run` returns a running run unchanged, although `EXECUTION.md:120` says that
   unexpected exceptions fail the run. `FailUnavailable`; `RunningFileRunSettles` is
   violated by it if, in the cfg just described, `MaxGeneration = 2`.
6. `modules/ingestion/worker.py:26`. A delivered row is recognised as done, a failed
   one is not: a job run again after its failure was committed takes the stage
   back to "running", and if it is cut off as well no row serves it any more,
   although `EXECUTION.md:120` has abandoned runs become visible failures.
   `ClaimStage` of Uploads; `RunningFileRunSettles` is violated by it if, in that cfg,
   `MaxFaults = 1`.
7. `modules/knowledge/documents/public.py:262`. `append_content` reads the row
   again after its commit. A version stored in between is what the answer names,
   and the tab's next save, made from its own older text, replaces it without the
   409 that the plan of phase 1 (line 66) asks for stale input. `Refresh`;
   `StaleInputIsRefused` admits the versions in `overlooked`, and no others.
8. `modules/connectors/routes.py:131`. `trigger_collection` selects its source again
   after the call of n8n, but the session returns the instance it has, so the
   comparison of generations compares the row with itself. Not modelled: only the
   source's error columns depend on it.
9. `modules/connectors/routes.py:262`. `submit_crawl` loads the collection state, and
   the lease and the cursor that `queue_connector_crawl` tests under its lock are
   those of that copy. A crawl may so be accepted while another run holds the
   source, whereas `personal-intelligence-os-spec-v2.md:4518` says "Prevent
   overlapping syncs per source". `submit_crawl`; `LeaseLostToStaleCrawlOnly` admits
   it, and `OvertakenStoresNothing` says what saves the data.
10. `modules/connectors/routes.py:191`. `/sync` and `/crawl` load the source first, and
   the test of its status under the lock is made with that copy. A source paused in
   between takes the batch, whereas `docs/connectors.md:13` says that
   "Paused/archived sources cannot validate, submit batches or crawl".
   `receive_connector_batch`; `LateRunFails` says what becomes of such a run: its
   records are stored, its cursor stays moved, and it fails.
11. `modules/sources/worker.py:52`. The first statement of a purge on the rows compares
   `payload ->> 'run_id'`, a text, with `ingestion_runs.id`, a uuid. PostgreSQL has no
   such operator: the transaction raises whatever the tables hold, nothing is deleted,
   the operation stays "queued" and its row is dispatched again for ever, whereas
   `privacy.md:11` says that "A worker then removes documents, versions, chunks,
   observations, pending ingestion work, and raw files before marking the operation
   complete". `process_source_purge`; there is no property, since none that expects a
   deletion can hold. `PendingFileRunIsClaimed` says that the row does not keep others
   from the worker, and `NothingRevivedAfterPurge` what the request is good for.

## 8. Not modelled

* Connector routes other than `/sync` and `/crawl` (configure, validate, collect,
  no-changes), RSS paging, normalisation, n8n: I/O without a state that a modelled
  step depends on. Deliveries repeated under their batch key find their batch and
  change nothing; Ingestion leaves such requests out with the refused ones.
* What `process_source_purge` would do after its statement at
  `modules/sources/worker.py:50-54`, which always raises: deletion of rows and files,
  the exits that report them, a repetition after a failure. Nothing else deletes
  batches and runs, so the branches that find a row's run or event gone
  (`apps/worker/main.py:247-260`, `modules/ingestion/worker.py:31-35`) are left out
  with it.
* `/sync` loads its credential and its source in two statements. One step stands for
  both: all that is decided by the first is that the source was active, of all it
  reads nothing is kept, and the second reads the source anew.
* The branches of `chunk_text` that go past the target (`core/chunking.py:36`) or give
  up the overlap (`:44`): with the assumption of Chunking, which 750 and 90 satisfy
  by far, a boundary is always found before them.
* Keyset pagination by time, of documents, sources and runs. Planned.
* Search ranking, fusion, filters, snippets: SQL over data the models abstract.
* Capability probes and their cache; the rate limit of logins; password hashing;
  the check of Origin. The cache and the limit are planned.
* Playwright mode of the collector (crawlee's queue), its byte budget, and the lock
  that admits one job.
* What the parsers make of a file, beyond that it may be empty, hang or fail.
* `IngestionRun.status` of a file's run, which Uploads keeps with the stage's.
* Title and tags of documents, their creation beyond the initial state; names,
  configuration and creation of sources.
* Health, errors, configuration, migrations, deployment, seed data, pages of the
  client: without state of their own that a modelled step depends on.

## 9. Plan

Done, in this order: JobQueue and Ingestion (the path every delivery takes),
their proofs, Uploads, SearchIndex, ModelSlots with RequestCap and proofs,
Documents, Sessions, Chunking with proofs, Crawl; then CollectorRequests (old
copies, the run's status) with proofs, VersionLog, the listing of versions, and
the proofs of Documents, Sessions, SearchIndex, Uploads and Crawl; and RunLedger,
what a source promises of its runs, with the proof that both modules about runs
implement it.

Next, in this order:

1. *Pagination by time*: pages keyed by (created_at, id) against rows that come and
   go; abstractly, a client that follows the cursors sees every row that was there
   throughout exactly once.
2. *Old copies elsewhere*: `receive_file` and `create_document` read the source
   through `populate_existing`; the other users of a session are to be gone through.
3. *Capability cache*, *login limit*, *search cursor and fusion*.

The runs are a dozen and their passing properties about forty by design: a new module
takes the place of a run or a property that a proof has made redundant.
