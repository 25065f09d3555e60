---------------------------- MODULE UploadsProofs ----------------------------
(***************************************************************************)
(* Proofs about Uploads, for any contents, files, events and bounds: the   *)
(* database and the directory of files stay in step although no            *)
(* transaction spans them.                                                 *)
(*                                                                         *)
(* The timers of the queue and of the leases play no part, but for the age *)
(* of a file: what the sweep may take is past its grace, and by then its   *)
(* request is over.                                                        *)
(***************************************************************************)
EXTENDS Uploads, TLAPS

USE QueueAssumption, UploadsAssumption

\* The types of what the properties are about.
Base ==
    /\ ev_status \in [Events -> EventStatus]
    /\ ev_of \in [Events -> Contents \cup {"none", "purge"}]
    /\ pc \in Steps /\ (pc # "idle" => cur \in Events)
    /\ raw \in [Contents -> Files \cup {NoFile}]
    /\ stage \in [Contents -> StageStatus]
    /\ fresh \in [Files -> Nat]
    /\ upload \in [Files -> [step : RequestStep, content : Contents \cup {"none"}]]
    /\ documents \subseteq Contents

\* Rows: without its batch a content has no stage and no row that asks for it;
\* the worker holds on to what it has claimed; a purge archives for good.
RowsInv ==
    /\ \A c \in Contents : ~HasBatch(c) => stage[c] = "none"
    /\ \A e \in Events : ev_of[e] \in Contents => HasBatch(ev_of[e])
    /\ pc \in {"parse", "save", "fail"} =>
         content \in Contents /\ HasBatch(content) /\ stage[content] = "running"
    /\ op_status # "none" => source_status = "archived"

\* Files: a referenced file is of a request that is over; the file of a request
\* that has not decided yet is young.
FilesInv ==
    /\ documents \subseteq {c \in Contents : HasBatch(c)}
    /\ \A c \in Contents : HasBatch(c) => upload[raw[c]].step = "over"
    /\ \A f \in Files : upload[f].step = "saved" =>
         f \in on_disk /\ fresh[f] > 0 /\ upload[f].content \in Contents

\* The sweep has seen the reference, or the file is too young for it.
SweepInv ==
    sweeping => \A c \in documents : raw[c] \in referenced \/ fresh[raw[c]] > 0

UploadsInv ==
    Base /\ RowsInv /\ FilesInv /\ RawFileKept /\ SweepInv /\ PendingRunInOutbox

LEMMA InitUploadsInv == Init => UploadsInv
<1> SUFFICES ASSUME Init PROVE UploadsInv
  OBVIOUS
<1>1. Base
  BY DEF Init, QueueInit, Base, EventStatus, Steps, StageStatus, RequestStep
<1>2. RowsInv /\ FilesInv
  BY DEF Init, QueueInit, RowsInv, FilesInv, HasBatch, LiveEvent
<1>3. RawFileKept /\ SweepInv /\ PendingRunInOutbox
  BY DEF Init, QueueInit, RawFileKept, SweepInv, PendingRunInOutbox, HasBatch
<1> QED
  BY <1>1, <1>2, <1>3 DEF UploadsInv

-----------------------------------------------------------------------------
(* What the steps do. *)

\* The queue keeps a live row live, and starts or ends a job; the job of a purge
\* does nothing but end.
QueueEffect ==
    /\ UNCHANGED dataVars
    /\ \/ UNCHANGED ev_status
       \/ \E e \in Events : LiveEvent(e) /\ ev_status' = [ev_status EXCEPT ![e] = "queued"]
    /\ \/ UNCHANGED <<cur, pc>>
       \/ pc' = "idle"
       \/ pc' = "claim" /\ cur' \in Events

LEMMA QueueSteps == Queue \/ process_source_purge => QueueEffect
<1> USE DEF QueueEffect
<1>0. CASE process_source_purge
  BY <1>0 DEF process_source_purge, Idle
<1> SUFFICES ASSUME Queue PROVE QueueEffect
  BY <1>0
<1>a. UNCHANGED dataVars /\ (Dispatcher \/ Arq)
  BY DEF Queue
<1>1. CASE Dispatcher
  BY <1>a, <1>1 DEF Dispatcher, dispatch_pending_work, DispatchDies
<1>2. CASE Arq
  BY <1>a, <1>2 DEF Arq, StartJob, OutOfTries, JobReturns, JobAborts, Crash, Restart, RedisLoss, Idle
<1> QED
  BY <1>a, <1>1, <1>2

\* What process_uploaded_file leaves alone.
fileFrame == <<source_status, raw, documents, on_disk, fresh, upload, op_status, sweeping,
               referenced, ev_of, cur>>

\* It goes on, claims the stage, or settles its row, the stage with it unless
\* that is not pending anyway.  It succeeds only while the source is active.
FileEffect ==
    /\ UNCHANGED fileFrame
    /\ \/ /\ UNCHANGED <<stage, ev_status>>
          /\ pc' = "return" \/ (pc \in {"parse", "save"} /\ pc' \in {"save", "fail"})
       \/ ClaimStage
       \/ /\ pc' = "return"
          /\ content \in Contents
          /\ \E s \in {"failed", "delivered"} : ev_status' = [ev_status EXCEPT ![cur] = s]
          /\ \/ /\ HasBatch(content)
                /\ \E s \in {"failed", "succeeded"} :
                     /\ stage' = [stage EXCEPT ![content] = s]
                     /\ s = "succeeded" => source_status = "active"
             \/ UNCHANGED stage /\ stage[content] # "pending"

LEMMA FileSteps ==
    ASSUME Base, RowsInv, process_uploaded_file
    PROVE  FileEffect /\ pc # "idle"
<1> USE DEF FileEffect, fileFrame, HandlerFrame, sourceVars, docVars, sweepVars, payloadVars,
            Goto, SetEvent, SetStage, stageVars
<1>1. CASE ClaimDelivered \/ ClaimBusy
  BY <1>1 DEF ClaimDelivered, ClaimBusy, ClaimingFile, Claiming
<1>2. CASE ClaimUnavailable
  <2>1. HasBatch(content)
    BY <1>2 DEF ClaimUnavailable, ClaimingFile, Claiming, RowsInv, Base, content
  <2> QED
    BY <1>2, <2>1 DEF ClaimUnavailable, ClaimingFile, Claiming
<1>3. CASE ClaimSucceeded
  BY <1>3 DEF ClaimSucceeded, ClaimingFile, Claiming
<1>4. CASE ClaimStage
  BY <1>4 DEF ClaimStage, ClaimingFile, Claiming
<1>5. CASE ParseSucceeds \/ ParseFails \/ ParserTimesOut
  BY <1>5 DEF ParseSucceeds, ParseFails, ParserTimesOut, ParserDue
<1>6. CASE SaveUnavailable
  BY <1>6 DEF SaveUnavailable, RowsInv
<1>7. CASE SaveDocumentGone
  BY <1>7 DEF SaveDocumentGone
<1>8. CASE save_extraction
  BY <1>8 DEF save_extraction, Usable, RowsInv
<1>9. CASE FailUnavailable
  BY <1>9 DEF FailUnavailable, RowsInv
<1>10. CASE FailStage
  BY <1>10 DEF FailStage, RowsInv
<1> QED
  BY <1>1, <1>2, <1>3, <1>4, <1>5, <1>6, <1>7, <1>8, <1>9, <1>10 DEF process_uploaded_file

\* Every step is one of these.  A step of the sweep takes orphans only.
LEMMA StepCases ==
    ASSUME Base, RowsInv, [Next]_vars
    PROVE  \/ \E f \in Files, c \in Contents : save_upload(f, c)
           \/ \E f \in Files, e \in Events : receive_file(f, e)
           \/ \E f \in Files : receive_file_refused(f) \/ RequestDies(f) \/ DiscardUpload(f)
           \/ \E c \in Contents, e \in Events : retry_run(c, e)
           \/ \E c \in Contents : delete_document(c)
           \/ \E s \in {"active", "paused", "archived"} : update_source(s)
           \/ \E e \in Events : start_source_purge(e)
           \/ QueueEffect
           \/ FileEffect /\ pc # "idle"
           \/ ReadReferenced \/ cleanup_orphaned_files \/ SweepDies
           \/ Tick
           \/ UNCHANGED vars
BY QueueSteps, FileSteps
DEF Next, Api, RequestGoesOn, cleanup_storage_orphans

\* Types, but for the timers.
LEMMA BaseKept ==
    ASSUME Base, RowsInv, FilesInv, [Next]_vars
    PROVE  Base'
<1> USE DEF Base
<1>1. ASSUME NEW f \in Files, NEW c \in Contents, save_upload(f, c) PROVE Base'
  BY <1>1 DEF save_upload, ApiFrame, docVars, stageVars, payloadVars, RequestStep
<1>2. ASSUME NEW f \in Files, NEW e \in Events, receive_file(f, e) PROVE Base'
  BY <1>2 DEF receive_file, Publish, RequestGoesTo, ApiFrame, RequestStep,
              EventStatus, StageStatus, FilesInv
<1>3. ASSUME NEW f \in Files, receive_file_refused(f) \/ RequestDies(f) \/ DiscardUpload(f)
      PROVE Base'
  BY <1>3 DEF receive_file_refused, RequestDies, DiscardUpload, RequestGoesTo, ApiFrame, docVars,
              stageVars, payloadVars, RequestStep
<1>4. ASSUME NEW c \in Contents, NEW e \in Events, retry_run(c, e) PROVE Base'
  BY <1>4 DEF retry_run, Publish, ApiFrame, docVars, diskVars, EventStatus, StageStatus
<1>5. ASSUME NEW c \in Contents, delete_document(c) PROVE Base'
  BY <1>5 DEF delete_document, ApiFrame, stageVars, diskVars, payloadVars
<1>6. ASSUME NEW s, update_source(s) PROVE Base'
  BY <1>6 DEF update_source, ApiFrame, docVars, stageVars, diskVars, payloadVars
<1>7. ASSUME NEW e \in Events, start_source_purge(e) PROVE Base'
  BY <1>7 DEF start_source_purge, ApiFrame, docVars, stageVars, diskVars, EventStatus
<1>8. CASE QueueEffect
  BY <1>8 DEF QueueEffect, dataVars, docVars, stageVars, diskVars, payloadVars,
              EventStatus, Steps
<1>9. CASE FileEffect /\ pc # "idle"
  <2>1. stage' \in [Contents -> StageStatus] /\ ev_status' \in [Events -> EventStatus]
    BY <1>9 DEF FileEffect, ClaimStage, SetStage, StageStatus, EventStatus
  <2>2. pc' \in Steps
    BY <1>9 DEF FileEffect, ClaimStage, Goto, Steps
  <2> QED
    BY <1>9, <2>1, <2>2 DEF FileEffect, fileFrame
<1>10. CASE ReadReferenced \/ cleanup_orphaned_files \/ SweepDies
  BY <1>10 DEF ReadReferenced, cleanup_orphaned_files, SweepDies, jobVars, docVars, stageVars,
               diskVars, payloadVars
<1>11. CASE Tick
  BY <1>11 DEF Tick, QueueTick, Dec, docVars, payloadVars
<1>12. CASE UNCHANGED vars
  BY <1>12 DEF vars, jobVars, dataVars, docVars, stageVars, diskVars, payloadVars
<1> QED
  BY <1>1, <1>2, <1>3, <1>4, <1>5, <1>6, <1>7, <1>8, <1>9, <1>10, <1>11, <1>12, StepCases

\* The rows of the database, each kept by the transactions that change it.
LEMMA RowsKept ==
    ASSUME Base, RowsInv, [Next]_vars
    PROVE  RowsInv'
<1> USE DEF Base, RowsInv, HasBatch, content
<1>1. ASSUME UNCHANGED <<ev_status, ev_of, pc, cur, raw, stage, op_status, source_status>>
      PROVE  RowsInv'
  BY <1>1
<1>2. ASSUME NEW f \in Files, NEW c \in Contents, save_upload(f, c) PROVE RowsInv'
  BY <1>1, <1>2 DEF save_upload, ApiFrame, sourceVars, docVars, stageVars, payloadVars
<1>3. ASSUME NEW f \in Files, NEW e \in Events, receive_file(f, e) PROVE RowsInv'
  <2>1. f # NoFile
    OBVIOUS
  <2> QED
    BY <1>3, <2>1 DEF receive_file, Publish, ApiFrame, sourceVars
<1>4. ASSUME NEW f \in Files, receive_file_refused(f) \/ RequestDies(f) \/ DiscardUpload(f)
      PROVE RowsInv'
  BY <1>1, <1>4 DEF receive_file_refused, RequestDies, DiscardUpload, ApiFrame, sourceVars, docVars,
              stageVars, payloadVars
<1>5. ASSUME NEW c \in Contents, NEW e \in Events, retry_run(c, e) PROVE RowsInv'
  BY <1>5 DEF retry_run, Publish, ApiFrame, sourceVars, docVars
<1>6. ASSUME NEW c \in Contents, delete_document(c) PROVE RowsInv'
  BY <1>1, <1>6 DEF delete_document, ApiFrame, sourceVars, stageVars, payloadVars
<1>7. ASSUME NEW s, update_source(s) PROVE RowsInv'
  BY <1>7 DEF update_source, ApiFrame, docVars, stageVars, payloadVars
<1>8. ASSUME NEW e \in Events, start_source_purge(e) PROVE RowsInv'
  BY <1>8 DEF start_source_purge, ApiFrame, docVars, stageVars
<1>9. CASE QueueEffect
  BY <1>9 DEF QueueEffect, dataVars, sourceVars, docVars, stageVars, payloadVars
<1>10. CASE FileEffect /\ pc # "idle"
  <2>1. CASE ClaimStage
    BY <1>10, <2>1 DEF FileEffect, fileFrame, ClaimStage, ClaimingFile, SetStage, Goto
  <2>2. CASE UNCHANGED <<stage, ev_status>> /\ ~ClaimStage
    <3>1. /\ UNCHANGED fileFrame
          /\ pc' = "return" \/ (pc \in {"parse", "save"} /\ pc' \in {"save", "fail"})
      BY <1>10, <2>2 DEF FileEffect
    <3>2. UNCHANGED <<ev_status, ev_of, cur, raw, stage, op_status, source_status>>
      BY <2>2, <3>1 DEF fileFrame
    <3> QED
      BY <3>1, <3>2
  <2>3. CASE ~UNCHANGED <<stage, ev_status>> /\ ~ClaimStage
    <3>1. /\ pc' = "return" /\ content \in Contents /\ UNCHANGED fileFrame
          /\ \E s \in {"failed", "delivered"} : ev_status' = [ev_status EXCEPT ![cur] = s]
          /\ \/ /\ HasBatch(content)
                /\ \E s \in {"failed", "succeeded"} : stage' = [stage EXCEPT ![content] = s]
             \/ UNCHANGED stage
      BY <1>10, <2>3 DEF FileEffect
    <3>2. \A c \in Contents : ~HasBatch(c) => stage'[c] = "none"
      BY <3>1
    <3> QED
      BY <3>1, <3>2 DEF fileFrame
  <2> QED
    BY <1>10, <2>1, <2>2, <2>3 DEF FileEffect
<1>11. CASE ReadReferenced \/ cleanup_orphaned_files \/ SweepDies
  BY <1>1, <1>11 DEF ReadReferenced, cleanup_orphaned_files, SweepDies, jobVars, sourceVars, docVars,
               stageVars, payloadVars
<1>12. CASE Tick
  BY <1>1, <1>12 DEF Tick, QueueTick, sourceVars, docVars, payloadVars
<1>13. CASE UNCHANGED vars
  BY <1>1, <1>13 DEF vars, jobVars, dataVars, sourceVars, docVars, stageVars, payloadVars
<1> QED
  BY <1>2, <1>3, <1>4, <1>5, <1>6, <1>7, <1>8, <1>9, <1>10, <1>11, <1>12, <1>13,
     StepCases

fileVars == <<raw, documents, upload, on_disk, fresh, sweeping, referenced>>

\* A reference is written together with the end of its request, and the age of
\* a file grows only while no sweep is between its halves.
LEMMA FilesKept ==
    ASSUME Base, RowsInv, FilesInv, RawFileKept, SweepInv, [Next]_vars
    PROVE  FilesInv' /\ RawFileKept' /\ SweepInv'
<1> DEFINE Goal == FilesInv' /\ RawFileKept' /\ SweepInv'
<1>0. ASSUME NEW c \in documents PROVE c \in Contents /\ HasBatch(c) /\ raw[c] \in Files /\ raw[c] \in on_disk
  BY DEF Base, FilesInv, HasBatch, RawFileKept
<1> USE DEF Base, FilesInv, RawFileKept, SweepInv, HasBatch
<1>1. ASSUME UNCHANGED fileVars PROVE Goal
  BY <1>1 DEF fileVars
<1>2. ASSUME NEW f \in Files, NEW c \in Contents, save_upload(f, c) PROVE Goal
  <2>1. /\ UNCHANGED <<raw, documents, sweeping, referenced>>
        /\ upload[f].step = "idle" /\ upload'[f].step = "saved" /\ upload'[f].content = c
        /\ \A g \in Files \ {f} : upload'[g] = upload[g] /\ fresh'[g] = fresh[g]
        /\ fresh'[f] > 0 /\ on_disk' = on_disk \cup {f}
    BY <1>2 DEF save_upload, ApiFrame, docVars, sweepVars
  <2>2. FilesInv'
    BY <2>1
  <2>3. RawFileKept'
    BY <2>1
  <2>4. SweepInv'
    BY <1>0, <2>1
  <2> QED
    BY <2>2, <2>3, <2>4
<1>3. ASSUME NEW f \in Files, NEW e \in Events, receive_file(f, e) PROVE Goal
  <2> DEFINE c == upload[f].content
  <2>1. /\ upload[f].step = "saved" /\ upload'[f].step = "over"
        /\ \A g \in Files \ {f} : upload'[g] = upload[g]
        /\ c \in Contents /\ raw[c] = NoFile /\ raw'[c] = f
        /\ \A d \in Contents \ {c} : raw'[d] = raw[d]
        /\ documents' = documents \cup {c}
        /\ UNCHANGED <<on_disk, fresh, sweeping, referenced>>
    BY <1>3 DEF receive_file, RequestGoesTo, RequestStep, ApiFrame, sweepVars
  <2>2. FilesInv'
    BY <2>1
  <2>3. RawFileKept' /\ SweepInv'
    BY <1>0, <2>1
  <2> QED
    BY <2>2, <2>3
<1>4. ASSUME NEW f \in Files, receive_file_refused(f) \/ RequestDies(f) \/ DiscardUpload(f)
      PROVE Goal
  <2>1. /\ upload[f].step \in {"saved", "discard"} /\ upload'[f].step \in {"discard", "over"}
        /\ \A g \in Files \ {f} : upload'[g] = upload[g]
        /\ UNCHANGED <<raw, documents, fresh, sweeping, referenced>>
        /\ on_disk \ {f} \subseteq on_disk' /\ (on_disk' = on_disk \/ upload[f].step = "discard")
    BY <1>4 DEF receive_file_refused, RequestDies, DiscardUpload, RequestGoesTo, RequestStep,
                ApiFrame, docVars, sweepVars
  <2>2. FilesInv'
    BY <2>1
  <2>3. RawFileKept' /\ SweepInv'
    BY <1>0, <2>1
  <2> QED
    BY <2>2, <2>3
<1>5. ASSUME NEW c \in Contents, NEW e \in Events, retry_run(c, e) PROVE Goal
  BY <1>1, <1>5 DEF retry_run, ApiFrame, docVars, diskVars, sweepVars, fileVars
<1>6. ASSUME NEW c \in Contents, delete_document(c) PROVE Goal
  BY <1>6 DEF delete_document, ApiFrame, diskVars, sweepVars
<1>7. ASSUME NEW s, update_source(s) PROVE Goal
  BY <1>1, <1>7 DEF update_source, ApiFrame, docVars, diskVars, sweepVars, fileVars
<1>8. ASSUME NEW e \in Events, start_source_purge(e) PROVE Goal
  BY <1>1, <1>8 DEF start_source_purge, ApiFrame, docVars, diskVars, sweepVars, fileVars
<1>9. CASE QueueEffect
  BY <1>1, <1>9 DEF QueueEffect, dataVars, docVars, diskVars, sweepVars, fileVars
<1>10. CASE FileEffect
  BY <1>1, <1>10 DEF FileEffect, fileFrame, fileVars
<1>11. CASE ReadReferenced
  BY <1>11 DEF ReadReferenced, ReferencedFiles, docVars, diskVars
<1>12. CASE cleanup_orphaned_files \/ SweepDies
  <2>1. /\ UNCHANGED <<raw, documents, upload, fresh>>
        /\ sweeping /\ ~sweeping'
        /\ on_disk \ Orphans \subseteq on_disk'
    BY <1>12 DEF cleanup_orphaned_files, SweepDies, docVars
  <2>2. \A f \in Orphans : fresh[f] = 0 /\ f \notin referenced
    BY DEF Orphans
  <2>3. FilesInv'
    BY <2>1, <2>2
  <2>4. RawFileKept' /\ SweepInv'
    BY <1>0, <2>1, <2>2
  <2> QED
    BY <2>3, <2>4
<1>13. CASE Tick
  <2>1. /\ UNCHANGED <<raw, documents, upload, on_disk, sweeping, referenced>>
        /\ ~sweeping
        /\ \A f \in Files : upload[f].step = "saved" => fresh'[f] > 0
    BY <1>13 DEF Tick, RequestsAreShort, Dec, docVars, sweepVars
  <2> QED
    BY <2>1
<1>14. CASE UNCHANGED vars
  BY <1>1, <1>14 DEF vars, dataVars, docVars, diskVars, sweepVars, fileVars
<1> QED
  BY <1>2, <1>3, <1>4, <1>5, <1>6, <1>7, <1>8, <1>9, <1>10, <1>11, <1>12, <1>13,
     <1>14, StepCases

\* A row is settled only together with its run, or after it.
LEMMA PendingKept ==
    ASSUME Base, RowsInv, PendingRunInOutbox, [Next]_vars
    PROVE  PendingRunInOutbox'
<1> USE DEF Base, PendingRunInOutbox, LiveEvent
<1>1. ASSUME UNCHANGED ev_of, stage' = stage,
             \A e \in Events : ev_of[e] \in Contents /\ LiveEvent(e) => LiveEvent(e)'
      PROVE  PendingRunInOutbox'
  BY <1>1
<1>2. ASSUME NEW e \in Events, NEW c \in Contents, Publish(e, c), stage' = [stage EXCEPT ![c] = "pending"]
      PROVE  PendingRunInOutbox'
  BY <1>2 DEF Publish
<1>3. ASSUME NEW f \in Files, NEW e \in Events, receive_file(f, e) PROVE PendingRunInOutbox'
  <2>1. CASE upload[f].content \in Contents
    BY <1>2, <1>3, <2>1 DEF receive_file
  <2>2. CASE upload[f].content \notin Contents
    <3>1. stage' = stage
      BY <1>3, <2>2 DEF receive_file
    <3>2. \A d \in Events : ev_of[d] # "none" => ev_of'[d] = ev_of[d] /\ ev_status'[d] = ev_status[d]
      BY <1>3 DEF receive_file, Publish
    <3> QED
      BY <3>1, <3>2
  <2> QED
    BY <2>1, <2>2
<1>4. ASSUME NEW c \in Contents, NEW e \in Events, retry_run(c, e) PROVE PendingRunInOutbox'
  BY <1>2, <1>4 DEF retry_run
<1>5. ASSUME NEW e \in Events, start_source_purge(e) PROVE PendingRunInOutbox'
  BY <1>5 DEF start_source_purge, stageVars
<1>6. ASSUME \/ \E f \in Files, c \in Contents : save_upload(f, c)
             \/ \E f \in Files : receive_file_refused(f) \/ RequestDies(f) \/ DiscardUpload(f)
             \/ \E c \in Contents : delete_document(c)
             \/ \E s \in {"active", "paused", "archived"} : update_source(s)
      PROVE  PendingRunInOutbox'
  BY <1>1, <1>6 DEF save_upload, receive_file_refused, RequestDies, DiscardUpload, delete_document,
                    update_source, stageVars, payloadVars
<1>7. CASE QueueEffect
  BY <1>1, <1>7 DEF QueueEffect, dataVars, stageVars, payloadVars
<1>8. CASE FileEffect /\ pc # "idle"
  <2>1. CASE UNCHANGED <<stage, ev_status>>
    BY <1>1, <1>8, <2>1 DEF FileEffect, fileFrame
  <2>2. CASE ClaimStage
    BY <1>8, <2>2 DEF FileEffect, fileFrame, ClaimStage, SetStage
  <2>3. CASE ~UNCHANGED <<stage, ev_status>> /\ ~ClaimStage
    <3>1. /\ content \in Contents
          /\ \E s \in {"failed", "delivered"} : ev_status' = [ev_status EXCEPT ![cur] = s]
          /\ \/ \E s \in {"failed", "succeeded"} : stage' = [stage EXCEPT ![content] = s]
             \/ UNCHANGED stage /\ stage[content] # "pending"
      BY <1>8, <2>3 DEF FileEffect
    <3>2. stage'[content] # "pending" /\ \A c \in Contents \ {content} : stage'[c] = stage[c]
      BY <3>1
    <3>3. \A e \in Events : ev_of'[e] = ev_of[e] /\ (ev_of[e] # content => ev_status'[e] = ev_status[e])
      BY <1>8, <3>1 DEF FileEffect, fileFrame, content
    <3> QED
      BY <3>2, <3>3
  <2> QED
    BY <1>8, <2>1, <2>2, <2>3 DEF FileEffect
<1>9. CASE ReadReferenced \/ cleanup_orphaned_files \/ SweepDies
  BY <1>1, <1>9 DEF ReadReferenced, cleanup_orphaned_files, SweepDies, jobVars, stageVars, payloadVars
<1>10. CASE Tick \/ UNCHANGED vars
  BY <1>1, <1>10 DEF Tick, QueueTick, vars, jobVars, dataVars, stageVars, payloadVars
<1> QED
  BY <1>3, <1>4, <1>5, <1>6, <1>7, <1>8, <1>9, <1>10, StepCases

-----------------------------------------------------------------------------
(* Theorems. *)

\* The invariant holds of every reachable state.
THEOREM UploadsCorrect == Spec => []UploadsInv
<1>1. Init => UploadsInv
  BY InitUploadsInv
<1>2. UploadsInv /\ [Next]_vars => UploadsInv'
  BY BaseKept, RowsKept, FilesKept, PendingKept DEF UploadsInv
<1> QED
  BY <1>1, <1>2, PTL DEF Spec

\* cleanup_storage_orphans and DiscardUpload remove no file that a document's raw_uri names.
THEOREM RawFileKeptCorrect == Spec => []RawFileKept
<1>1. UploadsInv => RawFileKept
  BY DEF UploadsInv
<1> QED
  BY <1>1, UploadsCorrect, PTL

\* Uploads and retries put their run into the outbox with it, and no handler
\* settles the row and leaves the run pending.
THEOREM PendingRunInOutboxCorrect == Spec => []PendingRunInOutbox
<1>1. UploadsInv => PendingRunInOutbox
  BY DEF UploadsInv
<1> QED
  BY <1>1, UploadsCorrect, PTL

\* receive_file alone adds a document, and never for a content that had one.
THEOREM DeletedStaysDeletedCorrect == Spec => DeletedStaysDeleted
<1> DEFINE StaysDeleted == \A c \in Contents : c \in documents' \ documents => ~HasBatch(c)
<1>1. ASSUME UploadsInv, [Next]_vars PROVE StaysDeleted
  <2>1. \/ \E f \in Files, e \in Events : receive_file(f, e)
        \/ documents' \subseteq documents
    BY <1>1, StepCases
    DEF UploadsInv, save_upload, receive_file_refused, RequestDies, DiscardUpload, retry_run,
        delete_document, update_source, start_source_purge, QueueEffect, FileEffect, fileFrame,
        ReadReferenced, cleanup_orphaned_files, SweepDies, Tick, vars, dataVars, docVars
  <2> QED
    BY <2>1 DEF receive_file
<1> QED
  BY <1>1, UploadsCorrect, PTL DEF Spec, DeletedStaysDeleted

\* Once a purge is asked for its source is archived, and receive_file, retry_run,
\* ClaimStage and save_extraction look at that under the lock: what is under way
\* adds no document and ends no stage but as failed.
THEOREM NothingRevivedAfterPurgeCorrect == Spec => NothingRevivedAfterPurge
<1> DEFINE OnlyLoses ==
             /\ documents' \subseteq documents
             /\ \A c \in Contents : stage'[c] # stage[c] => stage'[c] = "failed"
<1>1. ASSUME UploadsInv, [Next]_vars, op_status # "none" PROVE OnlyLoses
  <2>1. source_status # "active"
    BY <1>1 DEF UploadsInv, RowsInv
  <2>2. CASE FileEffect /\ pc # "idle"
    <3>1. ~ClaimStage
      BY <2>1 DEF ClaimStage, Usable
    <3>2. \/ stage' = stage
          \/ content \in Contents /\ stage' = [stage EXCEPT ![content] = "failed"]
      BY <2>1, <2>2, <3>1 DEF FileEffect
    <3>3. stage \in [Contents -> StageStatus] /\ documents' = documents
      BY <1>1, <2>2 DEF UploadsInv, Base, FileEffect, fileFrame
    <3> QED
      BY <3>2, <3>3
  <2>3. CASE \/ \E f \in Files, e \in Events : receive_file(f, e)
             \/ \E c \in Contents, e \in Events : retry_run(c, e)
    BY <2>1, <2>3 DEF receive_file, retry_run
  <2>4. \/ documents' \subseteq documents /\ stage' = stage
        \/ FileEffect /\ pc # "idle"
        \/ \E f \in Files, e \in Events : receive_file(f, e)
        \/ \E c \in Contents, e \in Events : retry_run(c, e)
    BY <1>1, StepCases
    DEF UploadsInv, save_upload, receive_file_refused, RequestDies, DiscardUpload, delete_document,
        update_source, start_source_purge, QueueEffect, ReadReferenced, cleanup_orphaned_files,
        SweepDies, Tick, vars, dataVars, docVars, stageVars
  <2> QED
    BY <2>2, <2>3, <2>4
<1> QED
  BY <1>1, UploadsCorrect, PTL DEF Spec, NothingRevivedAfterPurge

=============================================================================
