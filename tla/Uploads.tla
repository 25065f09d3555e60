------------------------------ MODULE Uploads -------------------------------
(***************************************************************************)
(* Uploaded files of one source: the upload request, the worker function   *)
(* process_uploaded_file, deletion of documents, the purge of the source   *)
(* and the sweep of orphaned files, over a database and a directory of     *)
(* files that no transaction spans.                                        *)
(*                                                                         *)
(* Files are named after the document id that the request has drawn, so    *)
(* two requests never write the same file.  A batch is keyed by the        *)
(* content's digest: one batch, run, stage and document per content.  The  *)
(* run's status is written with the stage's; a document that needs OCR     *)
(* counts as succeeded.  The collection lease that retry_run takes for a   *)
(* file run is in module Ingestion.                                        *)
(***************************************************************************)
EXTENDS JobQueue

CONSTANTS
    Contents,       \* the digests of uploaded contents
    Files,          \* the files that upload requests write
    NoFile,
    MaxGeneration,  \* bound: changes of the source's status
    ParserTimeout,  \* Settings.parser_timeout_seconds
    FileLease,      \* the stage's lease: ParserTimeout and 30 seconds more
    Grace           \* Settings.storage_orphan_grace_seconds

ASSUME UploadsAssumption ==
    /\ NoFile \notin Files
    /\ Contents \cap {"none", "purge"} = {}
    /\ MaxGeneration \in Nat \ {0}
    /\ ParserTimeout \in Nat \ {0}
    /\ FileLease \in Nat \ {0}
    /\ Grace \in Nat \ {0}

VARIABLES
    source_status,  \* Source.status
    generation,     \* Source.generation
    raw,            \* [Contents -> Files \cup {NoFile}]: the raw_uri in the
                    \* event's payload, NoFile without a batch
    documents,      \* the contents whose Document row exists
    extraction,     \* [Contents -> ExtractionStatus]: Document.extraction_status
    stage,          \* [Contents -> StageStatus]: IngestionStage.status
    stage_left,     \* [Contents -> Nat]: until IngestionStage.lease_expires_at
    parse_left,     \* until parse_file_bounded gives up, while it runs
    on_disk,        \* the files under Settings.data_dir
    fresh,          \* [Files -> 0..Grace]: until the file's mtime is past grace
    upload,         \* [Files -> [step, content]]: the request that writes it
    op_status,      \* SourcePurgeOperation.status
    sweeping,       \* cleanup_storage_orphans runs, between its two halves
    referenced,     \* the raw_uris it has read
    ev_of,          \* [Events -> Contents \cup {"none", "purge"}]: what the row asks for
    ev_generation   \* [Events -> Nat]: payload.source_generation

sourceVars == <<source_status, generation>>
docVars == <<raw, documents, extraction>>
stageVars == <<stage, stage_left, parse_left>>
diskVars == <<on_disk, fresh, upload>>
sweepVars == <<sweeping, referenced>>
payloadVars == <<ev_of, ev_generation>>
dataVars == <<sourceVars, docVars, stageVars, diskVars, op_status, sweepVars, payloadVars>>
vars == <<jobVars, dataVars>>

StageStatus == {"none", "pending", "running", "succeeded", "failed"}
ExtractionStatus == {"none", "queued", "processing", "succeeded", "failed"}
RequestStep == {"idle", "saved", "discard", "over"}
Steps == {"idle", "claim", "parse", "save", "fail", "return", "retry"}

TypeOK ==
    /\ QueueTypeOK(Steps)
    /\ source_status \in {"active", "paused", "archived"}
    /\ generation \in 1..MaxGeneration
    /\ raw \in [Contents -> Files \cup {NoFile}]
    /\ documents \subseteq Contents
    /\ extraction \in [Contents -> ExtractionStatus]
    /\ stage \in [Contents -> StageStatus]
    /\ stage_left \in [Contents -> 0..FileLease]
    /\ parse_left \in 0..ParserTimeout
    /\ on_disk \subseteq Files
    /\ fresh \in [Files -> 0..Grace]
    /\ upload \in [Files -> [step : RequestStep, content : Contents \cup {"none"}]]
    /\ op_status \in {"none", "queued"}
    /\ sweeping \in BOOLEAN
    /\ referenced \subseteq Files
    /\ ev_of \in [Events -> Contents \cup {"none", "purge"}]
    /\ ev_generation \in [Events -> 0..MaxGeneration]

Init ==
    /\ QueueInit
    /\ source_status = "active"
    /\ generation = 1
    /\ raw = [c \in Contents |-> NoFile]
    /\ documents = {}
    /\ extraction = [c \in Contents |-> "none"]
    /\ stage = [c \in Contents |-> "none"]
    /\ stage_left = [c \in Contents |-> 0]
    /\ parse_left = 0
    /\ on_disk = {}
    /\ fresh = [f \in Files |-> 0]
    /\ upload = [f \in Files |-> [step |-> "idle", content |-> "none"]]
    /\ op_status = "none"
    /\ sweeping = FALSE
    /\ referenced = {}
    /\ ev_of = [e \in Events |-> "none"]
    /\ ev_generation = [e \in Events |-> 0]

-----------------------------------------------------------------------------
(* Helpers. *)

HasBatch(c) == raw[c] # NoFile

\* The statement that lists the raw_uris of documents
ReferencedFiles == {raw[c] : c \in documents}

Publish(e, work) ==
    /\ ev_of[e] = "none"
    /\ ev_of' = [ev_of EXCEPT ![e] = work]
    /\ ev_generation' = [ev_generation EXCEPT ![e] = generation]
    /\ ev_status' = [ev_status EXCEPT ![e] = "pending"]

RequestGoesTo(f, step) == upload' = [upload EXCEPT ![f].step = step]

\* What the API leaves alone besides its own rows.
ApiFrame == UNCHANGED <<job, tries, ttl, cur, pc, faults, sweepVars>>

-----------------------------------------------------------------------------
(* The upload request. *)

\* The bytes are in place under their final name; the request goes on to its
\* transaction.
save_upload(f, c) ==
    /\ upload[f].step = "idle"
    /\ upload' = [upload EXCEPT ![f] = [step |-> "saved", content |-> c]]
    /\ on_disk' = on_disk \cup {f}
    /\ fresh' = [fresh EXCEPT ![f] = Grace]
    /\ ApiFrame
    /\ UNCHANGED <<ev_status, sourceVars, docVars, stageVars, op_status, payloadVars>>

receive_file(f, e) ==
    LET c == upload[f].content IN
    /\ upload[f].step = "saved"
    /\ source_status = "active"
    /\ ~HasBatch(c)
    /\ raw' = [raw EXCEPT ![c] = f]
    /\ documents' = documents \cup {c}
    /\ extraction' = [extraction EXCEPT ![c] = "queued"]
    /\ stage' = [stage EXCEPT ![c] = "pending"]
    /\ Publish(e, c)
    /\ RequestGoesTo(f, "over")
    /\ ApiFrame
    /\ UNCHANGED <<sourceVars, stage_left, parse_left, on_disk, fresh, op_status>>

\* The source is not active, the content is there already, or its document was
\* deleted: the request discards its own file.
receive_file_refused(f) ==
    /\ upload[f].step = "saved"
    /\ source_status # "active" \/ HasBatch(upload[f].content)
    /\ RequestGoesTo(f, "discard")
    /\ ApiFrame
    /\ UNCHANGED <<ev_status, sourceVars, docVars, stageVars, on_disk, fresh, op_status,
                   payloadVars>>

\* Any other error, or the death of the API process: the file stays.
RequestDies(f) ==
    /\ upload[f].step \in {"saved", "discard"}
    /\ RequestGoesTo(f, "over")
    /\ ApiFrame
    /\ UNCHANGED <<ev_status, sourceVars, docVars, stageVars, on_disk, fresh, op_status,
                   payloadVars>>

DiscardUpload(f) ==
    /\ upload[f].step = "discard"
    /\ on_disk' = on_disk \ {f}
    /\ RequestGoesTo(f, "over")
    /\ ApiFrame
    /\ UNCHANGED <<ev_status, sourceVars, docVars, stageVars, fresh, op_status, payloadVars>>

-----------------------------------------------------------------------------
(* The owner's other requests. *)

\* Mutated form of retry_run: the row of the last attempt is left to do.
RetryWithoutEvent(c, e) ==
    /\ source_status = "active"
    /\ stage[c] = "failed"
    /\ stage' = [stage EXCEPT ![c] = "pending"]
    /\ stage_left' = [stage_left EXCEPT ![c] = 0]
    /\ ApiFrame
    /\ UNCHANGED <<ev_status, payloadVars, sourceVars, docVars, parse_left, diskVars, op_status>>

retry_run(c, e) ==
    /\ source_status = "active"
    /\ stage[c] = "failed"
    /\ stage' = [stage EXCEPT ![c] = "pending"]
    /\ stage_left' = [stage_left EXCEPT ![c] = 0]
    /\ Publish(e, c)
    /\ ApiFrame
    /\ UNCHANGED <<sourceVars, docVars, parse_left, diskVars, op_status>>

\* The row goes, with its versions and chunks; the raw file is left to the sweep.
delete_document(c) ==
    /\ c \in documents
    /\ documents' = documents \ {c}
    /\ extraction' = [extraction EXCEPT ![c] = "none"]
    /\ ApiFrame
    /\ UNCHANGED <<ev_status, sourceVars, raw, stageVars, diskVars, op_status, payloadVars>>

update_source(status) ==
    /\ source_status # "archived"
    /\ source_status # status
    /\ generation < MaxGeneration
    /\ source_status' = status
    /\ generation' = generation + 1
    /\ ApiFrame
    /\ UNCHANGED <<ev_status, docVars, stageVars, diskVars, op_status, payloadVars>>

\* The source is archived for good.  The list of files that the operation
\* remembers is left out: nothing reads it before the job below has failed.
start_source_purge(e) ==
    /\ op_status = "none"
    /\ source_status # "archived" => generation < MaxGeneration
    /\ source_status' = "archived"
    /\ generation' = IF source_status = "archived" THEN generation ELSE generation + 1
    /\ op_status' = "queued"
    /\ ev_of[e] = "none"
    /\ ev_of' = [ev_of EXCEPT ![e] = "purge"]
    /\ ev_status' = [ev_status EXCEPT ![e] = "pending"]
    /\ ApiFrame
    /\ UNCHANGED <<docVars, stageVars, diskVars, ev_generation>>

-----------------------------------------------------------------------------
(* process_uploaded_file: the claim. *)

content == ev_of[cur]

\* The steps of a handler leave these alone.
HandlerFrame == UNCHANGED <<job, tries, ttl, faults, sourceVars, fresh, upload, sweepVars,
                            payloadVars>>

Goto(step) == pc' = step /\ UNCHANGED cur
SetEvent(status) == ev_status' = [ev_status EXCEPT ![cur] = status]
SetStage(status) == stage' = [stage EXCEPT ![content] = status]
EndLease == stage_left' = [stage_left EXCEPT ![content] = 0] /\ UNCHANGED parse_left

Usable == source_status = "active" /\ generation = ev_generation[cur]

Claiming == pc = "claim" /\ ev_status[cur] # "delivered"
ClaimingFile == Claiming /\ content \in Contents

ClaimDelivered ==
    /\ pc = "claim"
    /\ ev_status[cur] = "delivered"
    /\ Goto("return")
    /\ HandlerFrame
    /\ UNCHANGED <<ev_status, docVars, stageVars, on_disk, op_status>>

ClaimUnavailable ==
    /\ ClaimingFile
    /\ ~Usable \/ content \notin documents
    /\ SetStage("failed")
    /\ SetEvent("failed")
    /\ Goto("return")
    /\ HandlerFrame
    /\ UNCHANGED <<docVars, stage_left, parse_left, on_disk, op_status>>

ClaimSucceeded ==
    /\ ClaimingFile
    /\ Usable /\ content \in documents
    /\ stage[content] = "succeeded"
    /\ SetEvent("delivered")
    /\ Goto("return")
    /\ HandlerFrame
    /\ UNCHANGED <<docVars, stageVars, on_disk, op_status>>

Busy == stage[content] = "running" /\ stage_left[content] > 0

ClaimBusy ==
    /\ ClaimingFile
    /\ Usable /\ content \in documents
    /\ Busy
    /\ Goto("return")
    /\ HandlerFrame
    /\ UNCHANGED <<ev_status, docVars, stageVars, on_disk, op_status>>

ClaimStage ==
    /\ ClaimingFile
    /\ Usable /\ content \in documents
    /\ stage[content] # "succeeded"
    /\ ~Busy
    /\ SetStage("running")
    /\ stage_left' = [stage_left EXCEPT ![content] = FileLease]
    /\ parse_left' = ParserTimeout
    /\ extraction' = [extraction EXCEPT ![content] = "processing"]
    /\ Goto("parse")
    /\ HandlerFrame
    /\ UNCHANGED <<ev_status, raw, documents, on_disk, op_status>>

-----------------------------------------------------------------------------
(* process_uploaded_file: the parser and the result. *)

ParseSucceeds ==
    /\ pc = "parse"
    /\ raw[content] \in on_disk
    /\ Goto("save")
    /\ HandlerFrame
    /\ UNCHANGED <<ev_status, docVars, stageVars, on_disk, op_status>>

\* The file is missing or malformed, or the saving transaction raises.
ParseFails ==
    /\ pc \in {"parse", "save"}
    /\ Goto("fail")
    /\ HandlerFrame
    /\ UNCHANGED <<ev_status, docVars, stageVars, on_disk, op_status>>

\* The job was started before the parser: when both are due, arq is first.
ParserDue == pc = "parse" /\ parse_left = 0 /\ ttl[cur] > 0

\* parse_file_bounded terminates the parser.
ParserTimesOut ==
    /\ ParserDue
    /\ Goto("fail")
    /\ HandlerFrame
    /\ UNCHANGED <<ev_status, docVars, stageVars, on_disk, op_status>>

SaveUnavailable ==
    /\ pc = "save"
    /\ ~Usable
    /\ SetStage("failed")
    /\ SetEvent("failed")
    /\ Goto("return")
    /\ HandlerFrame
    /\ UNCHANGED <<docVars, stage_left, parse_left, on_disk, op_status>>

\* The document was deleted meanwhile: the handler returns without a commit.
SaveDocumentGone ==
    /\ pc = "save"
    /\ Usable
    /\ content \notin documents
    /\ Goto("return")
    /\ HandlerFrame
    /\ UNCHANGED <<ev_status, docVars, stageVars, on_disk, op_status>>

\* Mutated form of save_extraction: the source is not looked at again.
SaveUnfenced ==
    /\ pc = "save"
    /\ content \in documents
    /\ extraction' = [extraction EXCEPT ![content] = "succeeded"]
    /\ SetStage("succeeded")
    /\ EndLease
    /\ SetEvent("delivered")
    /\ Goto("return")
    /\ HandlerFrame
    /\ UNCHANGED <<raw, documents, on_disk, op_status>>

\* Mutated form of save_extraction: the document is written without looking
\* whether it still exists.
SaveAnyway ==
    /\ pc = "save"
    /\ Usable
    /\ documents' = documents \cup {content}
    /\ extraction' = [extraction EXCEPT ![content] = "succeeded"]
    /\ SetStage("succeeded")
    /\ EndLease
    /\ SetEvent("delivered")
    /\ Goto("return")
    /\ HandlerFrame
    /\ UNCHANGED <<raw, on_disk, op_status>>

save_extraction ==
    /\ pc = "save"
    /\ Usable
    /\ content \in documents
    /\ extraction' = [extraction EXCEPT ![content] = "succeeded"]
    /\ SetStage("succeeded")
    /\ EndLease
    /\ SetEvent("delivered")
    /\ Goto("return")
    /\ HandlerFrame
    /\ UNCHANGED <<raw, documents, on_disk, op_status>>

\* Only the event is failed; the stage stays running.
FailUnavailable ==
    /\ pc = "fail"
    /\ ~Usable
    /\ SetEvent("failed")
    /\ Goto("return")
    /\ HandlerFrame
    /\ UNCHANGED <<docVars, stageVars, on_disk, op_status>>

FailStage ==
    /\ pc = "fail"
    /\ Usable
    /\ SetStage("failed")
    /\ EndLease
    /\ extraction' = [extraction EXCEPT ![content] = IF content \in documents THEN "failed" ELSE @]
    /\ SetEvent("failed")
    /\ Goto("return")
    /\ HandlerFrame
    /\ UNCHANGED <<raw, documents, on_disk, op_status>>

-----------------------------------------------------------------------------
(* process_source_purge. *)

\* The statement that is to fail the outbox rows of the source's runs compares
\* payload ->> 'run_id', a text, with ingestion_runs.id, a uuid.  PostgreSQL has
\* no such operator and refuses it, whatever the tables hold: nothing of the
\* transaction stays, the operation's "running" included, the exception leaves
\* the handler, and arq keeps it as the job's result.  Before the statement the
\* handler returns only if its event is delivered, the operation succeeded or
\* deleted, or the source changed; none of that happens to an archived source
\* and an operation that no transaction has touched.
process_source_purge ==
    /\ Claiming
    /\ content = "purge"
    /\ KeepResult(cur)
    /\ Idle
    /\ UNCHANGED <<ev_status, faults, dataVars>>

-----------------------------------------------------------------------------
(* cleanup_storage_orphans, a cron function: it has the worker to itself,   *)
(* but not the API.                                                        *)

ReadReferenced ==
    /\ cur = NoEvent
    /\ ~sweeping
    /\ sweeping' = TRUE
    /\ referenced' = ReferencedFiles
    /\ UNCHANGED <<jobVars, sourceVars, docVars, stageVars, diskVars, op_status, payloadVars>>

\* Mutated form of Orphans: the grace period is not waited for.
OrphansAtOnce == on_disk \ referenced

\* Mutated form of Orphans: the comparison with the cutoff is reversed.
YoungOrphans == {f \in on_disk \ referenced : fresh[f] > 0}

Orphans == {f \in on_disk \ referenced : fresh[f] = 0}

\* Each file is judged by itself, so one step stands for the whole walk.
cleanup_orphaned_files ==
    /\ sweeping
    /\ on_disk' = on_disk \ Orphans
    /\ sweeping' = FALSE
    /\ referenced' = {}
    /\ UNCHANGED <<jobVars, sourceVars, docVars, stageVars, fresh, upload, op_status, payloadVars>>

\* The worker dies in the middle of the walk.
SweepDies ==
    /\ sweeping
    /\ faults < MaxFaults
    /\ faults' = faults + 1
    /\ \E gone \in SUBSET Orphans : on_disk' = on_disk \ gone
    /\ sweeping' = FALSE
    /\ referenced' = {}
    /\ UNCHANGED <<ev_status, job, tries, ttl, cur, pc, sourceVars, docVars, stageVars, fresh,
                   upload, op_status, payloadVars>>

-----------------------------------------------------------------------------

\* Assumption about time: a request has ended before its file is past grace
\* (an hour), with a tick to spare for the instant between the two halves of
\* the sweep, in which no time passes here.
RequestsAreShort == \A f \in Files : upload[f].step = "saved" => fresh[f] > 1

\* Assumption about time: the transaction of a claim is short.
ClaimsAreShort == pc # "claim"

CountsDown ==
    \/ \E f \in Files : fresh[f] > 0
    \/ \E c \in Contents : stage_left[c] > 0
    \/ \E e \in Events : ttl[e] > 0

Tick ==
    /\ TimeMayPass
    /\ ~ParserDue
    /\ ~sweeping
    /\ RequestsAreShort
    /\ ClaimsAreShort
    /\ CountsDown
    /\ QueueTick
    /\ fresh' = [f \in Files |-> Dec(fresh[f])]
    /\ stage_left' = [c \in Contents |-> Dec(stage_left[c])]
    /\ parse_left' = Dec(parse_left)
    /\ UNCHANGED <<sourceVars, docVars, stage, on_disk, upload, op_status, sweepVars, payloadVars>>

process_uploaded_file ==
    \/ ClaimDelivered \/ ClaimUnavailable \/ ClaimSucceeded \/ ClaimBusy \/ ClaimStage
    \/ ParseSucceeds \/ ParseFails \/ ParserTimesOut
    \/ SaveUnavailable \/ SaveDocumentGone \/ save_extraction
    \/ FailUnavailable \/ FailStage

cleanup_storage_orphans == ReadReferenced \/ cleanup_orphaned_files \/ SweepDies

RequestGoesOn(f) ==
    \/ \E e \in Events : receive_file(f, e)
    \/ receive_file_refused(f) \/ RequestDies(f) \/ DiscardUpload(f)

Api ==
    \/ \E f \in Files, c \in Contents : save_upload(f, c)
    \/ \E f \in Files : RequestGoesOn(f)
    \/ \E c \in Contents : delete_document(c) \/ \E e \in Events : retry_run(c, e)
    \/ \E s \in {"active", "paused", "archived"} : update_source(s)
    \/ \E e \in Events : start_source_purge(e)

Dispatcher == \E e \in Events : dispatch_pending_work(e) \/ DispatchDies(e)

\* Errors of the parser and of the saving transaction are handled; those of
\* the other transactions, and arq's cancellation, end the job.
Unhandled == pc \in {"claim", "fail"} \/ ~TimeMayPass

Arq ==
    \/ \E e \in Events : StartJob(e) \/ OutOfTries(e)
    \/ JobReturns
    \/ Unhandled /\ JobAborts
    \/ Crash \/ Restart \/ RedisLoss

Queue == ~sweeping /\ (Dispatcher \/ Arq) /\ UNCHANGED dataVars

Next ==
    \/ Api
    \/ Queue
    \/ process_uploaded_file
    \/ process_source_purge
    \/ cleanup_storage_orphans
    \/ Tick

Spec == Init /\ [][Next]_vars

-----------------------------------------------------------------------------
(* Fairness, as in module Ingestion: requests end, the worker is restarted  *)
(* and goes on, due rows and queued jobs get their turn, and the sweep runs *)
(* every five minutes.  In the end the database takes what the handler of   *)
(* files sends it, in time; before that, it refuses as often as it likes.   *)
(* The parser may hang whenever it is called.                               *)

Handler == process_uploaded_file \/ process_source_purge

ArqGoesOn == JobReturns \/ (~TimeMayPass /\ JobAborts)
QueueServes(e) == dispatch_pending_work(e) \/ StartJob(e) \/ OutOfTries(e)
Sweep == ReadReferenced \/ cleanup_orphaned_files
Refused == JobAborts /\ content \in Contents /\ pc \notin {"parse", "return"}

Fairness ==
    /\ SF_vars(Tick)
    /\ WF_vars(\E f \in Files : RequestGoesOn(f))
    /\ WF_vars(Handler \/ (ArqGoesOn /\ UNCHANGED dataVars))
    /\ <>[][~Refused]_vars
    /\ SF_vars(Sweep)
    /\ \A e \in Events : SF_vars(~sweeping /\ QueueServes(e) /\ UNCHANGED dataVars)

FairSpec == Spec /\ Fairness

-----------------------------------------------------------------------------
(* Properties. *)

\* The raw file of every document is on disk: neither the sweep, which reads
\* the referenced files before it looks at the directory, nor a request that
\* discards its own file takes it away under the document.
RawFileKept == \A c \in documents : raw[c] \in on_disk

\* A file run that waits for the worker is in the outbox.
PendingRunInOutbox ==
    \A c \in Contents : stage[c] = "pending" => \E e \in Events : ev_of[e] = c /\ LiveEvent(e)

\* Once its document is deleted a content is never a document again (an upload
\* of it is refused), so a deletion is not undone by work in flight.
DeletedStaysDeleted ==
    [][\A c \in Contents : c \in documents' \ documents => ~HasBatch(c)]_vars

\* From the request of a purge on the source only loses: no upload in flight adds
\* a document, and no retry, no row of the outbox and no parser at work moves a
\* stage but into failure.
NothingRevivedAfterPurge ==
    [][op_status # "none" =>
         /\ documents' \subseteq documents
         /\ \A c \in Contents : stage'[c] # stage[c] => stage'[c] = "failed"]_vars

\* A file that no document references, whatever left it behind (a refused upload, a
\* request that died, a deleted document), is removed.
OrphansAreRemoved ==
    \A f \in Files :
        f \in on_disk /\ upload[f].step = "over" /\ f \notin ReferencedFiles ~> f \notin on_disk

\* A file run that waits for the worker is claimed or failed in the end, behind
\* whatever rows the worker takes first: those of files whose parser hangs until
\* the job is cut off, and that of a purge, which fails and comes back for ever.
PendingFileRunIsClaimed == \A c \in Contents : stage[c] = "pending" ~> stage[c] # "pending"

\* What the documentation says of work that is cut off, and of a deadline for
\* the parser: a file run does not stay in "running".
RunningFileRunSettles == \A c \in Contents : stage[c] = "running" ~> stage[c] # "running"

=============================================================================
