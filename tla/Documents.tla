----------------------------- MODULE Documents ------------------------------
(***************************************************************************)
(* One document with its versions and their chunks.  Tabs of the web       *)
(* client edit it, the worker stores the text it has extracted from an     *)
(* upload, a cron function cuts chunks of versions that have none, the     *)
(* owner lists its versions page by page and deletes it.                   *)
(*                                                                         *)
(* append_content and save_extraction keep the lock of the document's row  *)
(* from their first look at it to their commit; the answer of              *)
(* append_content is read again after the commit, without the lock.        *)
(* Content is a value; chunks are the content they were cut from.          *)
(***************************************************************************)
EXTENDS Integers, FiniteSets

CONSTANTS
    Tabs,
    Contents,     \* what documents contain
    Empty,        \* the content without a character
    NoContent,
    Worker,       \* holds the lock for save_extraction
    NoOne,
    PageLimit,    \* the limit of list_versions
    MaxVersions   \* bound: versions of the document

ASSUME DocumentsAssumption ==
    /\ Empty \notin Contents
    /\ NoContent \notin Contents \cup {Empty}
    /\ Worker \notin Tabs /\ NoOne \notin Tabs \cup {Worker}
    /\ PageLimit \in Nat \ {0}
    /\ MaxVersions \in Nat \ {0}

VARIABLES
    exists,
    current,     \* Document.current_version
    content,     \* [Numbers -> Texts \cup {NoContent}]: DocumentVersion.content
    chunks,      \* [Numbers -> Texts \cup {NoContent}]: its DocumentChunk rows
    extraction,  \* Document.extraction_status
    lock,        \* who holds the row lock of the document
    tab,         \* [Tabs -> TabState]
    parsed,      \* the text the parser finds in the uploaded file
    worker,      \* process_uploaded_file: its step
    filling,     \* backfill_current_chunks: the version it has found, or 0
    listed,      \* the versions on the pages listed so far
    after,       \* the cursor of the last page, 0 without one
    basis,       \* auxiliary, [Numbers -> 0..MaxVersions]: the version that the
                 \* draft of this version was made from, 0 for an extraction
    overlooked   \* auxiliary: the versions of others that an answer to a tab's own
                 \* save has named

documentVars == <<exists, current, content, chunks, extraction>>
listVars == <<listed, after>>
vars == <<documentVars, lock, tab, parsed, worker, filling, listVars, basis, overlooked>>

Numbers == 1..MaxVersions
Texts == Contents \cup {Empty}
Versions == IF exists THEN 1..current ELSE {}
TabState == [step : {"idle", "sent", "locked", "refresh", "answer", "conflict"},
             draft : Texts, expected : 0..MaxVersions, answer : 0..MaxVersions,
             seen : 0..MaxVersions]  \* seen is auxiliary: what the draft is made from
Closed == [step |-> "idle", draft |-> Empty, expected |-> 0, answer |-> 0, seen |-> 0]

TypeOK ==
    /\ exists \in BOOLEAN
    /\ current \in Numbers
    /\ content \in [Numbers -> Texts \cup {NoContent}]
    /\ chunks \in [Numbers -> Texts \cup {NoContent}]
    /\ extraction \in {"ready", "queued", "processing", "succeeded", "needs_ocr", "failed"}
    /\ lock \in Tabs \cup {Worker, NoOne}
    /\ tab \in [Tabs -> TabState]
    /\ parsed \in Texts
    /\ worker \in {"idle", "parse", "save"}
    /\ filling \in 0..MaxVersions
    /\ listed \subseteq Numbers
    /\ after \in 0..MaxVersions
    /\ basis \in [Numbers -> 0..MaxVersions]
    /\ overlooked \subseteq Numbers

First(c) == [n \in Numbers |-> IF n = 1 THEN c ELSE NoContent]

\* Just created, seeded without chunks, or uploaded.
Init ==
    /\ exists = TRUE
    /\ current = 1
    /\ \/ \E c \in Contents :
            /\ content = First(c)
            /\ chunks \in {First(c), First(NoContent)}
            /\ extraction = "ready"
       \/ content = First(Empty) /\ chunks = First(NoContent) /\ extraction = "queued"
    /\ lock = NoOne
    /\ tab = [t \in Tabs |-> Closed]
    /\ parsed \in Texts
    /\ worker = "idle"
    /\ filling = 0
    /\ listed = {} /\ after = 0
    /\ basis = [n \in Numbers |-> 0]
    /\ overlooked = {}

\* The chunks add_content_chunks makes: none of an empty content.
ChunksOf(c) == IF c = Empty THEN NoContent ELSE c

\* Mutated form of AddVersion: the document keeps its old current version.
AddUncounted(c) ==
    /\ current < MaxVersions
    /\ content' = [content EXCEPT ![current + 1] = c]
    /\ chunks' = [chunks EXCEPT ![current + 1] = ChunksOf(c)]
    /\ UNCHANGED current

\* A new version with these chunks, the number taken under the lock.
AddVersion(c) ==
    /\ current < MaxVersions
    /\ current' = current + 1
    /\ content' = [content EXCEPT ![current + 1] = c]
    /\ chunks' = [chunks EXCEPT ![current + 1] = ChunksOf(c)]

-----------------------------------------------------------------------------
(* A tab: its form, and the request that saves it. *)

Step(t, from, to) == tab[t].step = from /\ tab' = [tab EXCEPT ![t].step = to]
TabFrame == UNCHANGED <<parsed, worker, filling, listVars>>
NoWrite == UNCHANGED <<documentVars, basis, overlooked>>

\* The form is filled with the current version and its number.
Open(t) ==
    /\ exists
    /\ tab[t].step = "idle"
    /\ tab' = [tab EXCEPT ![t] = [Closed EXCEPT !.draft = content[current],
                                                !.expected = current, !.seen = current]]
    /\ TabFrame /\ NoWrite /\ UNCHANGED lock

\* Saved, or saved again after an error.
Save(t, c) ==
    /\ tab[t].step = "idle"
    /\ tab[t].expected > 0
    /\ tab' = [tab EXCEPT ![t] = [@ EXCEPT !.step = "sent", !.draft = c]]
    /\ TabFrame /\ NoWrite /\ UNCHANGED lock

AppendLocks(t) ==
    /\ exists
    /\ lock = NoOne
    /\ Step(t, "sent", "locked")
    /\ lock' = t
    /\ TabFrame /\ NoWrite

\* There is no such document (404).
AppendFindsNothing(t) ==
    /\ ~exists
    /\ Step(t, "sent", "idle")
    /\ TabFrame /\ NoWrite /\ UNCHANGED lock

\* Identical content: the answer is the current version, whatever was expected.
AppendSame(t) ==
    /\ tab[t].step = "locked"
    /\ content[current] = tab[t].draft
    /\ tab' = [tab EXCEPT ![t] = [@ EXCEPT !.step = "answer", !.answer = current, !.seen = current]]
    /\ lock' = NoOne
    /\ TabFrame /\ NoWrite

\* The expected version is not the current one (409).
AppendStale(t) ==
    /\ content[current] # tab[t].draft
    /\ current # tab[t].expected
    /\ Step(t, "locked", "conflict")
    /\ lock' = NoOne
    /\ TabFrame /\ NoWrite

\* Mutated form of append_content: the expected version is not compared.
AppendUnchecked(t) ==
    /\ tab[t].step = "locked"
    /\ content[current] # tab[t].draft
    /\ AddVersion(tab[t].draft)
    /\ basis' = [basis EXCEPT ![current + 1] = tab[t].seen]
    /\ tab' = [tab EXCEPT ![t] = [@ EXCEPT !.step = "refresh", !.seen = current + 1]]
    /\ lock' = NoOne
    /\ TabFrame
    /\ UNCHANGED <<exists, extraction, overlooked>>

append_content(t) ==
    /\ tab[t].step = "locked"
    /\ content[current] # tab[t].draft
    /\ current = tab[t].expected
    /\ AddVersion(tab[t].draft)
    /\ basis' = [basis EXCEPT ![current + 1] = tab[t].seen]
    /\ tab' = [tab EXCEPT ![t] = [@ EXCEPT !.step = "refresh", !.seen = current + 1]]
    /\ lock' = NoOne
    /\ TabFrame
    /\ UNCHANGED <<exists, extraction, overlooked>>

\* After the commit the row is read again for the answer.
Refresh(t) ==
    /\ tab[t].step = "refresh"
    /\ IF exists
       THEN /\ tab' = [tab EXCEPT ![t] = [@ EXCEPT !.step = "answer", !.answer = current]]
            /\ overlooked' = overlooked \cup ({current} \ {tab[t].seen})
       ELSE tab' = [tab EXCEPT ![t].step = "idle"] /\ UNCHANGED overlooked
    /\ TabFrame /\ UNCHANGED <<documentVars, basis, lock>>

\* The form goes on from the version in the answer.
Answered(t) ==
    /\ tab[t].step = "answer"
    /\ tab' = [tab EXCEPT ![t] = [@ EXCEPT !.step = "idle", !.expected = tab[t].answer, !.answer = 0]]
    /\ TabFrame /\ NoWrite /\ UNCHANGED lock

\* The owner has looked at the newer version and keeps the draft.
UseLatest(t) ==
    /\ exists
    /\ tab[t].step = "conflict"
    /\ tab' = [tab EXCEPT ![t] = [@ EXCEPT !.step = "idle", !.expected = current, !.seen = current]]
    /\ TabFrame /\ NoWrite /\ UNCHANGED lock

\* The request, the server's work or the answer is lost.
RequestFails(t) ==
    /\ tab[t].step # "idle"
    /\ tab' = [tab EXCEPT ![t] = [@ EXCEPT !.step = "idle", !.answer = 0]]
    /\ lock' = IF lock = t THEN NoOne ELSE lock
    /\ TabFrame /\ NoWrite

Tab(t) ==
    \/ Open(t) \/ UseLatest(t) \/ Answered(t) \/ RequestFails(t)
    \/ \E c \in Contents : Save(t, c)
    \/ AppendLocks(t) \/ AppendFindsNothing(t) \/ AppendSame(t) \/ AppendStale(t)
    \/ append_content(t) \/ Refresh(t)

-----------------------------------------------------------------------------
(* The worker: process_uploaded_file as far as it touches the document. *)

WorkerFrame == UNCHANGED <<exists, tab, parsed, filling, listVars>>

\* Queued, retried after a failure, or run again after the worker died.
ClaimExtraction ==
    /\ exists /\ lock = NoOne
    /\ worker = "idle"
    /\ extraction \in {"queued", "failed", "processing"}
    /\ worker' = "parse"
    /\ extraction' = "processing"
    /\ WorkerFrame
    /\ UNCHANGED <<current, content, chunks, lock, basis, overlooked>>

ExtractionFails ==
    /\ exists /\ lock = NoOne
    /\ worker = "parse"
    /\ worker' = "idle"
    /\ extraction' = "failed"
    /\ WorkerFrame
    /\ UNCHANGED <<current, content, chunks, lock, basis, overlooked>>

SaveLocks ==
    /\ exists /\ lock = NoOne
    /\ worker = "parse"
    /\ worker' = "save"
    /\ lock' = Worker
    /\ WorkerFrame
    /\ UNCHANGED <<current, content, chunks, extraction, basis, overlooked>>

SaveFrame ==
    /\ worker' = "idle"
    /\ lock' = NoOne
    /\ WorkerFrame
    /\ UNCHANGED <<basis, overlooked>>

\* Mutated form of save_extraction: a new version, but the chunks of the text go
\* to the one before.
SaveMisplaced ==
    /\ worker = "save"
    /\ extraction' = IF parsed = Empty THEN "needs_ocr" ELSE "succeeded"
    /\ IF content[current] # parsed
       THEN /\ current < MaxVersions
            /\ current' = current + 1
            /\ content' = [content EXCEPT ![current + 1] = parsed]
       ELSE UNCHANGED <<current, content>>
    /\ chunks' = [chunks EXCEPT ![current] = IF @ = NoContent THEN ChunksOf(parsed) ELSE @]
    /\ SaveFrame

\* A new version unless the text is that of the current one, which gets chunks
\* if it has none.
save_extraction ==
    /\ worker = "save"
    /\ extraction' = IF parsed = Empty THEN "needs_ocr" ELSE "succeeded"
    /\ IF content[current] # parsed
       THEN AddVersion(parsed)
       ELSE /\ chunks' = [chunks EXCEPT ![current] = IF @ = NoContent THEN ChunksOf(parsed) ELSE @]
            /\ UNCHANGED <<current, content>>
    /\ SaveFrame

\* The document is gone, or the process dies.
WorkerStops ==
    /\ worker # "idle"
    /\ worker' = "idle"
    /\ lock' = IF lock = Worker THEN NoOne ELSE lock
    /\ WorkerFrame
    /\ UNCHANGED <<current, content, chunks, extraction, basis, overlooked>>

-----------------------------------------------------------------------------
(* The cron function and the deletion. *)

OtherFrame == UNCHANGED <<lock, tab, parsed, worker, listVars, basis, overlooked>>

FillFinds ==
    /\ exists
    /\ filling = 0
    /\ extraction \in {"ready", "succeeded"}
    /\ content[current] # Empty /\ chunks[current] = NoContent
    /\ filling' = current
    /\ OtherFrame
    /\ UNCHANGED documentVars

\* Refused by the foreign key or the unique constraint if the version is gone
\* or has chunks by now.
backfill_current_chunks ==
    /\ filling # 0
    /\ chunks' = [chunks EXCEPT ![filling] = IF exists /\ @ = NoContent THEN content[filling] ELSE @]
    /\ filling' = 0
    /\ OtherFrame
    /\ UNCHANGED <<exists, current, content, extraction>>

\* Versions and chunks go with the document.
delete_document ==
    /\ exists /\ lock = NoOne
    /\ exists' = FALSE
    /\ content' = [n \in Numbers |-> NoContent]
    /\ chunks' = [n \in Numbers |-> NoContent]
    /\ OtherFrame
    /\ UNCHANGED <<current, extraction, filling>>

-----------------------------------------------------------------------------
(* The version history in the owner's client. *)

\* The rows of the statement, without its limit.
RowsAfter(cursor) == {n \in Numbers : content[n] # NoContent /\ n > cursor}

\* The first rows of it.
Page ==
    LET rows == RowsAfter(after)
    IN  {n \in rows : Cardinality({m \in rows : m < n}) < PageLimit}

\* Mutated form of NextCursor: the row that shows there are more becomes the cursor.
CursorPastPage ==
    LET more == RowsAfter(after) \ Page
    IN  IF more = {} THEN 0 ELSE CHOOSE n \in more : \A m \in more : n <= m

\* The last row of the page, if the statement had one more.
NextCursor ==
    IF Page = RowsAfter(after) THEN 0 ELSE CHOOSE n \in Page : \A m \in Page : m <= n

\* The first page, or the next one.
list_versions ==
    /\ exists
    /\ listed = {} \/ after # 0
    /\ listed' = listed \cup Page
    /\ after' = NextCursor
    /\ UNCHANGED <<documentVars, lock, tab, parsed, worker, filling, basis, overlooked>>

\* The client begins again: the pages are fetched anew after a save.
ListAgain ==
    /\ listed # {}
    /\ listed' = {} /\ after' = 0
    /\ UNCHANGED <<documentVars, lock, tab, parsed, worker, filling, basis, overlooked>>

-----------------------------------------------------------------------------

Extraction ==
    ClaimExtraction \/ ExtractionFails \/ SaveLocks \/ save_extraction \/ WorkerStops

Next ==
    \/ \E t \in Tabs : Tab(t)
    \/ Extraction
    \/ FillFinds \/ backfill_current_chunks
    \/ delete_document
    \/ list_versions \/ ListAgain

Spec == Init /\ [][Next]_vars

-----------------------------------------------------------------------------
(* Properties. *)

\* The rows there are, by number.
Log == [n \in {m \in Numbers : content[m] # NoContent} |-> content[n]]

History == INSTANCE VersionLog WITH log <- Log, latest <- current

\* Whoever adds versions at the same time, the rows are a log: numbered without
\* a gap, the last one current, a saved version never changed, lost or repeated
\* by the next one.
ImplementsLog == History!Spec

\* Chunks, which search shows and quotes, are those of their own version's
\* content.
ChunksAreOfTheirVersion ==
    \A n \in Numbers : chunks[n] # NoContent => chunks[n] = content[n]

\* Stale input is refused: a tab's version replaces the very version its draft
\* was made from.  The one exception is the answer that is read after the
\* commit: a version that somebody stored in between is named to the tab as its
\* own, and its next save replaces it unseen.
StaleInputIsRefused ==
    \A n \in Versions : basis[n] \notin {0, n - 1} => n - 1 \in overlooked

\* Whoever follows the cursors gets every version once, although versions are
\* added between two pages: a page with a cursor brings as many new versions as
\* a page holds, one without brings the rest.
ListingIsComplete ==
    [][listed' \notin {listed, {}} =>
         IF after' = 0 THEN listed' = Versions
         ELSE Cardinality(listed' \ listed) = PageLimit /\ listed' # Versions]_vars

=============================================================================
