--------------------------- MODULE DocumentsProofs ---------------------------
(***************************************************************************)
(* Proofs about Documents for any number of tabs, contents and versions.   *)
(*                                                                         *)
(* The lock of the document's row carries the argument: a tab or the       *)
(* worker that is about to write holds it, nobody deletes meanwhile, and   *)
(* so the rows are exactly the versions up to the current one.             *)
(***************************************************************************)
EXTENDS Documents, FiniteSetTheorems, TLAPS

USE DocumentsAssumption

\* The steps of a tab that leave the document as it is.
TabOnly(t) ==
    \/ Open(t) \/ UseLatest(t) \/ Answered(t) \/ RequestFails(t)
    \/ \E c \in Contents : Save(t, c)
    \/ AppendLocks(t) \/ AppendFindsNothing(t) \/ AppendSame(t) \/ AppendStale(t)
    \/ Refresh(t)

\* The steps of the worker that leave its versions as they are.
WorkerOnly == ClaimExtraction \/ ExtractionFails \/ SaveLocks \/ WorkerStops

LEMMA NextCases ==
    ASSUME [Next]_vars
    PROVE  \/ \E t \in Tabs : TabOnly(t) \/ append_content(t)
           \/ WorkerOnly \/ save_extraction
           \/ FillFinds \/ backfill_current_chunks
           \/ delete_document \/ list_versions \/ ListAgain \/ UNCHANGED vars
BY DEF Next, Tab, TabOnly, WorkerOnly, Extraction

-----------------------------------------------------------------------------
(* Types, the lock and the rows. *)

\* Who is about to write has the lock, and the document is there.
LockInv ==
    /\ \A t \in Tabs : tab[t].step = "locked" <=> lock = t
    /\ worker = "save" <=> lock = Worker
    /\ lock # NoOne => exists

\* The rows there are are the versions up to the current one.
RowsInv == \A n \in Numbers : content[n] # NoContent <=> n \in Versions

\* A cursor stands for the pages up to it.
ListInv ==
    /\ listed = {} => after = 0
    /\ after # 0 => after <= current /\ listed = 1..after

Base == TypeOK /\ LockInv /\ RowsInv /\ ListInv

\* A tab goes on to another state, its step and what else the response brings.
LEMMA TabGoesOn ==
    ASSUME Base, NEW t \in Tabs, TabOnly(t) \/ append_content(t)
    PROVE  \E s \in TabState : tab' = [tab EXCEPT ![t] = s]
<1> DEFINE Goal == \E s \in TabState : tab' = [tab EXCEPT ![t] = s]
<1> SUFFICES Goal  OBVIOUS
<1>0. /\ tab[t] \in TabState /\ current \in 0..MaxVersions
      /\ tab[t].answer \in 0..MaxVersions /\ 0 \in 0..MaxVersions
  BY DEF Base, TypeOK, Numbers, TabState
<1>1. CASE Open(t)
  <2>1. content[current] \in Texts
    BY <1>1 DEF RowsInv, Versions, Open, Base, TypeOK, Numbers
  <2>2. [Closed EXCEPT !.draft = content[current], !.expected = current, !.seen = current] \in TabState
    BY <1>0, <2>1 DEF TabState, Closed
  <2>3. QED
    BY <1>1, <2>2 DEF Open
<1>2. CASE UseLatest(t)
  <2>1. [tab[t] EXCEPT !.step = "idle", !.expected = current, !.seen = current] \in TabState
    BY <1>0 DEF TabState
  <2>2. QED
    BY <1>2, <2>1 DEF UseLatest
<1>3. CASE Answered(t)
  <2>1. [tab[t] EXCEPT !.step = "idle", !.expected = tab[t].answer, !.answer = 0] \in TabState
    BY <1>0 DEF TabState
  <2>2. QED
    BY <1>3, <2>1 DEF Answered
<1>4. ASSUME NEW c \in Contents, Save(t, c)
      PROVE  Goal
  <2>1. [tab[t] EXCEPT !.step = "sent", !.draft = c] \in TabState
    BY <1>0 DEF TabState, Texts
  <2>2. QED
    BY <1>4, <2>1 DEF Save
<1>5. CASE RequestFails(t)
  <2>1. [tab[t] EXCEPT !.step = "idle", !.answer = 0] \in TabState
    BY <1>0 DEF TabState
  <2>2. QED
    BY <1>5, <2>1 DEF RequestFails
<1>6. CASE AppendLocks(t) \/ AppendFindsNothing(t) \/ AppendStale(t)
  <2>1. \A x \in {"idle", "locked", "conflict"} : [tab[t] EXCEPT !.step = x] \in TabState
    BY <1>0 DEF TabState
  <2>2. QED
    BY <1>6, <2>1 DEF AppendLocks, AppendFindsNothing, AppendStale, Step
<1>7. CASE AppendSame(t)
  <2>1. [tab[t] EXCEPT !.step = "answer", !.answer = current, !.seen = current] \in TabState
    BY <1>0 DEF TabState
  <2>2. QED
    BY <1>7, <2>1 DEF AppendSame
<1>8. CASE Refresh(t)
  <2>1. /\ [tab[t] EXCEPT !.step = "answer", !.answer = current] \in TabState
        /\ [tab[t] EXCEPT !.step = "idle"] \in TabState
    BY <1>0 DEF TabState
  <2>2. QED
    BY <1>8, <2>1 DEF Refresh
<1>9. CASE append_content(t)
  <2>1. current + 1 \in 0..MaxVersions
    BY <1>0, <1>9 DEF append_content, AddVersion
  <2>2. [tab[t] EXCEPT !.step = "refresh", !.seen = current + 1] \in TabState
    BY <1>0, <2>1 DEF TabState
  <2>3. QED
    BY <1>9, <2>2 DEF append_content
<1>10. QED
  BY <1>1, <1>2, <1>3, <1>4, <1>5, <1>6, <1>7, <1>8, <1>9 DEF TabOnly

\* A step of a tab keeps the types of what it may write, and other tabs' states.
LEMMA TabTyped ==
    ASSUME Base, NEW t \in Tabs, TabOnly(t) \/ append_content(t)
    PROVE  /\ tab' \in [Tabs -> TabState]
           /\ \A u \in Tabs \ {t} : tab'[u] = tab[u]
           /\ lock' \in {lock, t, NoOne}
<1>1. PICK s \in TabState : tab' = [tab EXCEPT ![t] = s]
  BY TabGoesOn
<1>2. lock' \in {lock, t, NoOne}
  BY DEF TabOnly, Open, UseLatest, Answered, RequestFails, Save, AppendLocks, AppendFindsNothing,
     AppendSame, AppendStale, Refresh, append_content
<1>3. QED
  BY <1>1, <1>2 DEF Base, TypeOK

\* What a tab's step that does not store leaves alone.
LEMMA TabOnlyFrame ==
    ASSUME NEW t \in Tabs, TabOnly(t)
    PROVE  UNCHANGED <<documentVars, basis, parsed, worker, filling, listVars>>
BY DEF TabOnly, Open, UseLatest, Answered, RequestFails, Save, AppendLocks, AppendFindsNothing,
       AppendSame, AppendStale, Refresh, TabFrame, NoWrite

\* A new version of a text, under the lock.
LEMMA AddVersionTyped ==
    ASSUME Base, exists, NEW c \in Texts, AddVersion(c)
    PROVE  /\ current' \in Numbers
           /\ content' \in [Numbers -> Texts \cup {NoContent}]
           /\ chunks' \in [Numbers -> Texts \cup {NoContent}]
           /\ exists' = exists => RowsInv'
<1> USE DEF Base, TypeOK, AddVersion, Texts, Numbers
<1>1. current + 1 \in Numbers /\ current' = current + 1
  OBVIOUS
<1>2. ChunksOf(c) \in Texts \cup {NoContent}
  BY DEF ChunksOf
<1>3. exists' = exists => RowsInv'
  BY <1>1 DEF RowsInv, Versions
<1>4. QED
  BY <1>1, <1>2, <1>3

\* The last version on the page after the cursor.
PageEnd == IF after + PageLimit < current THEN after + PageLimit ELSE current

\* A page holds the versions that follow its cursor, as many as the limit says.
LEMMA PageShape ==
    ASSUME Base, exists
    PROVE  /\ Page = (after + 1)..PageEnd
           /\ NextCursor = IF PageEnd = current THEN 0 ELSE PageEnd
<1> DEFINE rows == RowsAfter(after)
<1>0. /\ after \in Nat /\ current \in Nat /\ PageLimit \in Nat \ {0}
      /\ after <= current /\ current \in 1..MaxVersions
  BY DEF Base, TypeOK, ListInv, Numbers
<1>1. rows = (after + 1)..current
  BY <1>0 DEF RowsAfter, Base, RowsInv, Versions, Numbers
<1>2. ASSUME NEW n \in rows
      PROVE  Cardinality({m \in rows : m < n}) < PageLimit <=> n <= after + PageLimit
  <2>1. {m \in rows : m < n} = (after + 1)..(n - 1) /\ n \in Nat /\ n > after
    BY <1>0, <1>1
  <2>2. Cardinality((after + 1)..(n - 1)) = n - 1 - after
    BY <1>0, <2>1, FS_Interval
  <2>3. n - 1 - after < PageLimit <=> n <= after + PageLimit
    BY <1>0, <2>1
  <2>4. QED
    BY <2>1, <2>2, <2>3
<1>3. Page = {n \in rows : n <= after + PageLimit}
  BY <1>2 DEF Page
<1>4. Page = (after + 1)..PageEnd
  BY <1>0, <1>1, <1>3 DEF PageEnd
<1>5. CASE PageEnd = current
  BY <1>1, <1>4, <1>5 DEF NextCursor
<1>6. CASE PageEnd # current
  <2>1. PageEnd = after + PageLimit /\ PageEnd < current /\ PageEnd \in Page
    BY <1>0, <1>4, <1>6 DEF PageEnd
  <2>2. current \in rows /\ current \notin Page
    BY <1>0, <1>1, <1>4, <2>1
  <2>3. \A n \in Page : n <= PageEnd /\ n \in Nat
    BY <1>0, <1>4, <2>1
  <2>4. \A n \in Page : (\A m \in Page : m <= n) <=> n = PageEnd
    BY <1>0, <2>1, <2>3
  <2>5. (CHOOSE n \in Page : \A m \in Page : m <= n) = PageEnd
    <3>1. (CHOOSE n \in Page : \A m \in Page : m <= n) \in Page
          /\ \A m \in Page : m <= CHOOSE n \in Page : \A k \in Page : k <= n
      BY <2>1, <2>3, Zenon
    <3>2. QED
      BY <2>4, <3>1
  <2>6. Page # RowsAfter(after)
    BY <2>2
  <2>7. NextCursor = CHOOSE n \in Page : \A m \in Page : m <= n
    BY <2>6, Zenon DEF NextCursor
  <2>8. QED
    BY <1>4, <1>6, <2>5, <2>7
<1>7. QED
  BY <1>4, <1>5, <1>6

LEMMA TypeStep ==
    ASSUME Base, [Next]_vars
    PROVE  TypeOK'
<1> USE DEF Base
<1>1. ASSUME NEW t \in Tabs, TabOnly(t)
      PROVE  TypeOK'
  <2>1. overlooked' \subseteq Numbers
    BY <1>1 DEF TypeOK, TabOnly, Open, UseLatest, Answered, RequestFails, Save, AppendLocks,
       AppendFindsNothing, AppendSame, AppendStale, Refresh, NoWrite
  <2>2. QED
    BY <1>1, <2>1, TabTyped, TabOnlyFrame DEF TypeOK, documentVars, listVars
<1>2. ASSUME NEW t \in Tabs, append_content(t)
      PROVE  TypeOK'
  <2>1. exists /\ tab[t].draft \in Texts /\ tab[t].seen \in 0..MaxVersions
    BY <1>2 DEF append_content, LockInv, TypeOK, TabState
  <2>2. AddVersion(tab[t].draft) /\ basis' \in [Numbers -> 0..MaxVersions]
        /\ UNCHANGED <<exists, extraction, overlooked, parsed, worker, filling, listVars>>
    BY <1>2, <2>1 DEF append_content, TypeOK, TabFrame
  <2>3. QED
    BY <1>2, <2>1, <2>2, TabTyped, AddVersionTyped DEF TypeOK, listVars
<1>3. CASE WorkerOnly
  BY <1>3 DEF WorkerOnly, ClaimExtraction, ExtractionFails, SaveLocks, WorkerStops, WorkerFrame,
     TypeOK, listVars
<1>4. CASE save_extraction
  <2>1. UNCHANGED <<exists, tab, parsed, filling, listed, after, basis, overlooked>>
        /\ worker' = "idle" /\ lock' = NoOne
        /\ extraction' \in {"needs_ocr", "succeeded"}
    BY <1>4 DEF save_extraction, SaveFrame, WorkerFrame, listVars
  <2>2. CASE content[current] # parsed
    <3>1. exists /\ AddVersion(parsed) /\ parsed \in Texts
      BY <1>4, <2>2 DEF save_extraction, LockInv, TypeOK
    <3>2. QED
      BY <2>1, <3>1, AddVersionTyped DEF TypeOK
  <2>3. CASE content[current] = parsed
    BY <1>4, <2>1, <2>3 DEF save_extraction, TypeOK, ChunksOf, Texts
  <2>4. QED
    BY <2>2, <2>3
<1>5. CASE FillFinds
  BY <1>5 DEF FillFinds, OtherFrame, TypeOK, documentVars, listVars, Numbers
<1>5a. CASE backfill_current_chunks
  <2>1. filling \in Numbers /\ content[filling] \in Texts \cup {NoContent}
    BY <1>5a DEF backfill_current_chunks, TypeOK, Numbers
  <2>2. chunks' \in [Numbers -> Texts \cup {NoContent}]
    BY <1>5a, <2>1 DEF backfill_current_chunks, TypeOK
  <2>3. QED
    BY <1>5a, <2>2 DEF backfill_current_chunks, OtherFrame, TypeOK, listVars
<1>6. CASE delete_document
  BY <1>6 DEF delete_document, OtherFrame, TypeOK, listVars
<1>7. CASE list_versions
  <2>1. PageEnd \in Numbers
    BY DEF PageEnd, TypeOK, Numbers
  <2>2. Page \subseteq Numbers /\ NextCursor \in 0..MaxVersions
    BY <1>7, <2>1, PageShape DEF list_versions, TypeOK, Numbers
  <2>3. QED
    BY <1>7, <2>2 DEF list_versions, TypeOK, documentVars
<1>8. CASE ListAgain \/ UNCHANGED vars
  BY <1>8 DEF ListAgain, vars, documentVars, listVars, TypeOK
<1>9. QED
  BY <1>1, <1>2, <1>3, <1>4, <1>5, <1>5a, <1>6, <1>7, <1>8, NextCases

LEMMA LockStep ==
    ASSUME Base, [Next]_vars
    PROVE  LockInv'
<1> USE DEF Base, LockInv, TypeOK
<1>1. ASSUME NEW t \in Tabs, TabOnly(t) \/ append_content(t)
      PROVE  LockInv'
  <2>1. UNCHANGED <<exists, worker>>
    BY <1>1, TabOnlyFrame DEF documentVars, append_content, TabFrame
  <2>2. \A u \in Tabs \ {t} : tab'[u].step = tab[u].step
    BY <1>1, TabTyped
  <2>3. CASE Open(t) \/ UseLatest(t) \/ Answered(t) \/ (\E c \in Contents : Save(t, c))
             \/ AppendFindsNothing(t) \/ Refresh(t)
    <3>1. lock' = lock /\ tab[t].step # "locked" /\ tab'[t].step # "locked"
      <4>1. CASE Open(t)
        BY <4>1 DEF Open, Closed
      <4>2. CASE UseLatest(t) \/ Answered(t)
        <5>1. tab[t].step \in {"conflict", "answer"} /\ lock' = lock
          BY <4>2 DEF UseLatest, Answered
        <5>2. tab'[t].step = "idle"
          <6>1. CASE UseLatest(t)
            BY <6>1 DEF UseLatest, TabState
          <6>2. CASE Answered(t)
            <7>1. tab'[t] = [tab[t] EXCEPT !.step = "idle", !.expected = tab[t].answer, !.answer = 0]
              BY <6>2 DEF Answered
            <7>2. [tab[t] EXCEPT !.step = "idle", !.expected = tab[t].answer, !.answer = 0].step = "idle"
              BY DEF TabState
            <7>3. QED
              BY <7>1, <7>2
          <6>3. QED
            BY <4>2, <6>1, <6>2
        <5>3. QED
          BY <5>1, <5>2
      <4>3. ASSUME NEW c \in Contents, Save(t, c)
            PROVE  lock' = lock /\ tab[t].step # "locked" /\ tab'[t].step # "locked"
        BY <4>3 DEF Save, TabState
      <4>4. CASE AppendFindsNothing(t)
        BY <4>4 DEF AppendFindsNothing, Step, TabState
      <4>5. CASE Refresh(t)
        <5>1. tab[t].step = "refresh" /\ lock' = lock
          BY <4>5 DEF Refresh
        <5>2. CASE exists
          <6>1. tab'[t] = [tab[t] EXCEPT !.step = "answer", !.answer = current]
            BY <4>5, <5>2 DEF Refresh
          <6>2. [tab[t] EXCEPT !.step = "answer", !.answer = current].step = "answer"
            BY DEF TabState
          <6>3. QED
            BY <5>1, <6>1, <6>2
        <5>3. CASE ~exists
          BY <4>5, <5>1, <5>3 DEF Refresh, TabState
        <5>4. QED
          BY <5>2, <5>3
      <4>6. QED
        BY <2>3, <4>1, <4>2, <4>3, <4>4, <4>5
    <3>2. QED
      BY <2>1, <2>2, <3>1
  <2>4. CASE AppendLocks(t)
    <3>1. lock = NoOne /\ lock' = t /\ exists /\ tab'[t].step = "locked"
      BY <2>4 DEF AppendLocks, Step
    <3>2. QED
      BY <2>1, <2>2, <3>1
  <2>5. CASE AppendSame(t) \/ AppendStale(t) \/ append_content(t)
    <3>1. lock = t /\ lock' = NoOne /\ tab'[t].step # "locked"
      <4>1. CASE AppendSame(t)
        BY <4>1 DEF AppendSame, TabState
      <4>2. CASE AppendStale(t)
        BY <4>2 DEF AppendStale, Step, TabState
      <4>3. CASE append_content(t)
        BY <4>3 DEF append_content, TabState
      <4>4. QED
        BY <2>5, <4>1, <4>2, <4>3
    <3>2. QED
      BY <2>1, <2>2, <3>1
  <2>6. CASE RequestFails(t)
    <3>1. lock' = (IF lock = t THEN NoOne ELSE lock) /\ tab'[t].step # "locked"
      BY <2>6 DEF RequestFails, TabState
    <3>2. QED
      BY <2>1, <2>2, <3>1
  <2>7. QED
    BY <1>1, <2>3, <2>4, <2>5, <2>6 DEF TabOnly
<1>2. CASE WorkerOnly \/ save_extraction
  BY <1>2 DEF WorkerOnly, ClaimExtraction, ExtractionFails, SaveLocks, WorkerStops, save_extraction,
     SaveFrame, WorkerFrame
<1>3. CASE \/ FillFinds \/ backfill_current_chunks \/ delete_document \/ list_versions
           \/ ListAgain \/ UNCHANGED vars
  BY <1>3 DEF FillFinds, backfill_current_chunks, delete_document, list_versions, ListAgain,
     OtherFrame, documentVars, vars
<1>4. QED
  BY <1>1, <1>2, <1>3, NextCases

\* The rows change by a version more, or go all together.
LEMMA RowsChange ==
    ASSUME Base, [Next]_vars
    PROVE  \/ UNCHANGED <<exists, current, content>>
           \/ /\ exists /\ exists' = exists
              /\ \E c \in Texts : c # content[current] /\ AddVersion(c)
           \/ delete_document
<1>1. ASSUME NEW t \in Tabs, append_content(t)
      PROVE  /\ exists /\ exists' = exists
             /\ \E c \in Texts : c # content[current] /\ AddVersion(c)
  BY <1>1 DEF append_content, Base, LockInv, TypeOK, TabState
<1>2. CASE save_extraction
  BY <1>2 DEF save_extraction, SaveFrame, WorkerFrame, Base, LockInv, TypeOK
<1>3. CASE \/ \E t \in Tabs : TabOnly(t)
           \/ WorkerOnly \/ FillFinds \/ backfill_current_chunks \/ list_versions \/ ListAgain
           \/ UNCHANGED vars
  BY <1>3, TabOnlyFrame DEF documentVars, WorkerOnly, ClaimExtraction, ExtractionFails, SaveLocks,
     WorkerStops, WorkerFrame, FillFinds, backfill_current_chunks, list_versions, ListAgain, vars
<1>4. QED
  BY <1>1, <1>2, <1>3, NextCases

LEMMA RowsStep ==
    ASSUME Base, [Next]_vars
    PROVE  RowsInv'
<1>1. CASE UNCHANGED <<exists, current, content>>
  BY <1>1 DEF Base, RowsInv, Versions
<1>2. ASSUME exists, exists' = exists, NEW c \in Texts, AddVersion(c)
      PROVE  RowsInv'
  BY <1>2, AddVersionTyped
<1>3. CASE delete_document
  BY <1>3 DEF delete_document, RowsInv, Versions
<1>4. QED
  BY <1>1, <1>2, <1>3, RowsChange

LEMMA ListStep ==
    ASSUME Base, [Next]_vars
    PROVE  ListInv'
<1> USE DEF Base, ListInv
<1>0. current' \in Nat /\ current \in Nat /\ current <= current'
  <2>1. current \in Nat
    BY DEF TypeOK, Numbers
  <2>2. current' \in {current, current + 1}
    BY RowsChange DEF AddVersion, delete_document
  <2>3. QED
    BY <2>1, <2>2
<1>1. CASE list_versions
  <2>1. listed = 1..after /\ after \in Nat /\ PageLimit \in Nat \ {0} /\ exists
    <3>1. after \in Nat /\ PageLimit \in Nat \ {0} /\ exists
      BY <1>1 DEF list_versions, TypeOK
    <3>2. CASE after = 0
      BY <1>1, <3>2 DEF list_versions
    <3>3. QED
      BY <3>1, <3>2
  <2>2. /\ listed' = listed \cup (after + 1)..PageEnd
        /\ after' = IF PageEnd = current THEN 0 ELSE PageEnd
        /\ after <= PageEnd /\ PageEnd <= current /\ PageEnd \in Nat \ {0}
    <3>1. after <= current /\ current # 0
      BY <1>0 DEF TypeOK, Numbers
    <3>2. after <= PageEnd /\ PageEnd <= current /\ PageEnd \in Nat \ {0}
      BY <1>0, <2>1, <3>1 DEF PageEnd
    <3>3. QED
      BY <1>1, <2>1, <3>2, PageShape DEF list_versions
  <2>3. listed' = 1..PageEnd
    BY <2>1, <2>2
  <2>4. QED
    BY <1>0, <2>2, <2>3
<1>2. CASE UNCHANGED listVars
  BY <1>0, <1>2 DEF listVars, TypeOK
<1>3. CASE ListAgain
  BY <1>3 DEF ListAgain
<1>4. CASE ~list_versions /\ ~ListAgain
  BY <1>2, <1>4, NextCases, TabOnlyFrame DEF append_content, TabFrame, WorkerOnly, ClaimExtraction,
     ExtractionFails, SaveLocks, WorkerStops, save_extraction, SaveFrame, WorkerFrame, FillFinds,
     backfill_current_chunks, delete_document, OtherFrame, vars
<1>5. QED
  BY <1>1, <1>3, <1>4

\* Types, the lock, the rows and the cursors of the listing.
THEOREM BaseCorrect == Spec => []Base
<1>1. Init => Base
  BY DEF Init, Base, TypeOK, LockInv, RowsInv, ListInv, First, Numbers, Texts, Versions, TabState,
     Closed
<1>2. Base /\ [Next]_vars => Base'
  BY TypeStep, LockStep, RowsStep, ListStep DEF Base
<1>3. QED
  BY <1>1, <1>2, PTL DEF Spec

-----------------------------------------------------------------------------
(* The rows are a log. *)

LEMMA LogShape ==
    ASSUME Base
    PROVE  Log = [n \in Versions |-> content[n]]
BY DEF Base, RowsInv, Log, Versions, TypeOK, Numbers

\* Every step adds a version to the log, deletes it or leaves it alone.
LEMMA LogStep ==
    ASSUME Base, Base', [Next]_vars
    PROVE  History!Next \/ UNCHANGED <<Log, current>>
<1>1. Log = [n \in Versions |-> content[n]] /\ Log' = [n \in Versions' |-> content'[n]]
  <2>1. Base => Log = [n \in Versions |-> content[n]]
    BY LogShape
  <2>2. Base' => Log' = [n \in Versions' |-> content'[n]]
    BY DEF Base, RowsInv, Log, Versions, TypeOK, Numbers
  <2>3. QED
    BY <2>1, <2>2
<1>2. CASE UNCHANGED <<exists, current, content>>
  BY <1>2 DEF Log
<1>3. ASSUME exists, exists' = exists, NEW c \in Texts, c # content[current], AddVersion(c)
      PROVE  History!Next
  <2>1. current \in Nat \ {0} /\ current' = current + 1 /\ current' \in Numbers
        /\ content' = [content EXCEPT ![current'] = c]
    BY <1>3 DEF AddVersion, Base, TypeOK, Numbers
  <2>2. current \in DOMAIN Log /\ Log[current] = content[current]
    BY <1>1, <1>3, <2>1 DEF Versions
  <2>3. Log' = [n \in 1..current' |-> IF n = current' THEN c ELSE Log[n]]
    <3>1. \A n \in 1..current' : content'[n] = IF n = current' THEN c ELSE Log[n]
      BY <1>1, <1>3, <2>1 DEF Versions, Base, TypeOK, Numbers
    <3>2. QED
      BY <1>1, <1>3, <3>1 DEF Versions
  <2>4. History!Append(c)
    BY <1>3, <2>1, <2>2, <2>3 DEF History!Append
  <2>5. QED
    BY <2>4 DEF History!Next
<1>4. CASE delete_document
  <2>1. current \in DOMAIN Log /\ Log' = [n \in {} |-> 0] /\ current' = current
    BY <1>1, <1>4 DEF delete_document, Versions, Base, TypeOK, Numbers
  <2>2. QED
    BY <2>1 DEF History!Next, History!Delete
<1>5. QED
  BY <1>2, <1>3, <1>4, RowsChange

\* The document implements the log of its versions.
THEOREM DocumentsImplementLog == Spec => ImplementsLog
<1>1. Init => History!Init
  <2> SUFFICES ASSUME Init PROVE History!Init
    OBVIOUS
  <2>1. current = 1 /\ 1 \in Numbers
    BY DEF Init, Numbers
  <2>2. PICK c \in Texts : content = First(c)
    BY DEF Init, Texts
  <2>3. c # NoContent
    BY DEF Texts
  <2>4. \A n \in Numbers : content[n] # NoContent <=> n = 1
    BY <2>2, <2>3 DEF First
  <2>5. {m \in Numbers : content[m] # NoContent} = {1} /\ content[1] = c
    BY <2>1, <2>2, <2>4 DEF First
  <2>6. Log = [n \in {1} |-> c]
    BY <2>5 DEF Log
  <2>7. QED
    BY <2>1, <2>6 DEF History!Init
<1>2. Base /\ Base' /\ [Next]_vars => [History!Next]_<<Log, current>>
  BY LogStep
<1>3. QED
  BY <1>1, <1>2, BaseCorrect, PTL DEF Spec, ImplementsLog, History!Spec

-----------------------------------------------------------------------------
(* Chunks. *)

LEMMA ChunksStep ==
    ASSUME Base, ChunksAreOfTheirVersion, [Next]_vars
    PROVE  ChunksAreOfTheirVersion'
<1> USE DEF Base, TypeOK, ChunksAreOfTheirVersion, Numbers
<1>1. ASSUME NEW t \in Tabs, TabOnly(t)
      PROVE  ChunksAreOfTheirVersion'
  BY <1>1, TabOnlyFrame DEF documentVars
<1>2. ASSUME NEW c, AddVersion(c)
      PROVE  ChunksAreOfTheirVersion'
  BY <1>2 DEF AddVersion, ChunksOf
<1>3. CASE save_extraction
  <2>1. CASE content[current] # parsed
    BY <1>2, <1>3, <2>1 DEF save_extraction
  <2>2. CASE content[current] = parsed
    BY <1>3, <2>2 DEF save_extraction, ChunksOf
  <2>3. QED
    BY <2>1, <2>2
<1>4. CASE backfill_current_chunks
  BY <1>4 DEF backfill_current_chunks
<1>5. CASE \/ WorkerOnly \/ FillFinds \/ delete_document \/ list_versions \/ ListAgain
           \/ UNCHANGED vars
  BY <1>5 DEF WorkerOnly, ClaimExtraction, ExtractionFails, SaveLocks, WorkerStops, WorkerFrame,
     FillFinds, delete_document, list_versions, ListAgain, documentVars, vars
<1>6. QED
  BY <1>1, <1>2, <1>3, <1>4, <1>5, NextCases DEF append_content

\* Chunks are those of their own version, whoever stores and fills meanwhile.
THEOREM ChunksAreOfTheirVersionCorrect == Spec => []ChunksAreOfTheirVersion
<1>1. Init => ChunksAreOfTheirVersion
  BY DEF Init, ChunksAreOfTheirVersion, First
<1>2. Base /\ ChunksAreOfTheirVersion /\ [Next]_vars => ChunksAreOfTheirVersion'
  BY ChunksStep
<1>3. QED
  BY <1>1, <1>2, BaseCorrect, PTL DEF Spec

-----------------------------------------------------------------------------
(* The listing. *)

\* A page with a cursor is full, one without is the last.
THEOREM ListingIsCompleteCorrect == Spec => ListingIsComplete
<1> DEFINE Complete == listed' \notin {listed, {}} =>
             IF after' = 0 THEN listed' = Versions
             ELSE Cardinality(listed' \ listed) = PageLimit /\ listed' # Versions
<1>1. ASSUME Base, [Next]_vars
      PROVE  Complete
  <2>1. CASE list_versions
    <3>1. /\ exists /\ PageLimit \in Nat \ {0} /\ after \in Nat /\ current \in Nat \ {0}
          /\ Versions = 1..current
      BY <1>1, <2>1 DEF list_versions, Base, TypeOK, Numbers, Versions
    <3>2. listed = 1..after /\ after <= current
      <4>1. CASE after = 0
        BY <1>1, <2>1, <3>1, <4>1 DEF list_versions, Base, ListInv
      <4>2. CASE after # 0
        BY <1>1, <4>2 DEF Base, ListInv
      <4>3. QED
        BY <4>1, <4>2
    <3>3. /\ listed' = listed \cup (after + 1)..PageEnd
          /\ after' = IF PageEnd = current THEN 0 ELSE PageEnd
      BY <1>1, <2>1, <3>1, PageShape DEF list_versions
    <3>4. PageEnd \in Nat /\ after <= PageEnd /\ PageEnd <= current
      BY <3>1, <3>2 DEF PageEnd
    <3>5. listed' = 1..PageEnd /\ listed' \ listed = (after + 1)..PageEnd
      BY <3>1, <3>2, <3>3, <3>4
    <3>6. CASE PageEnd = current
      BY <3>1, <3>3, <3>5, <3>6
    <3>7. CASE PageEnd # current
      <4>1. PageEnd = after + PageLimit /\ PageEnd < current
        BY <3>1, <3>4, <3>7 DEF PageEnd
      <4>2. Cardinality((after + 1)..PageEnd) = PageLimit
        BY <3>1, <4>1, FS_Interval
      <4>3. current \in Versions /\ current \notin listed'
        BY <3>1, <3>5, <3>4, <4>1
      <4>4. after' # 0
        BY <3>1, <3>3, <3>7, <4>1
      <4>5. Cardinality(listed' \ listed) = PageLimit
        BY <3>5, <4>2
      <4>6. QED
        BY <4>3, <4>4, <4>5
    <3>8. QED
      BY <3>6, <3>7
  <2>2. CASE UNCHANGED listed
    BY <2>2
  <2>3. CASE ListAgain
    BY <2>3 DEF ListAgain
  <2>4. CASE ~list_versions /\ ~ListAgain
    BY <1>1, <2>2, <2>4, NextCases, TabOnlyFrame DEF append_content, TabFrame, WorkerOnly,
       ClaimExtraction, ExtractionFails, SaveLocks, WorkerStops, save_extraction, SaveFrame,
       WorkerFrame, FillFinds, backfill_current_chunks, delete_document, OtherFrame, vars, listVars
  <2>5. QED
    BY <2>1, <2>3, <2>4
<1>2. Base /\ [Next]_vars => [Complete]_vars
  BY <1>1
<1>3. QED
  BY <1>2, BaseCorrect, PTL DEF Spec, ListingIsComplete

-----------------------------------------------------------------------------
(* Stale input. *)

\* A tab in state s, at version c, with these versions overlooked: its draft was
\* made from v, or v was named to it as its own, or a save from v is refused.
From(s, v, c, over) == v <= c /\ (v = s.seen \/ v \in over \/ v < c)

Knows(s, c, over) ==
    /\ From(s, s.expected, c, over)
    /\ s.step = "answer" => From(s, s.answer, c, over)

StaleInv ==
    /\ StaleInputIsRefused
    /\ \A n \in Numbers : n > current => basis[n] = 0
    /\ \A t \in Tabs : Knows(tab[t], current, overlooked)

\* What a tab knows stays true when versions are added.
LEMMA KnowsOn ==
    ASSUME NEW s \in TabState, NEW c \in Nat, NEW d \in Nat, c <= d, NEW over, NEW more,
           over \subseteq more, Knows(s, c, over)
    PROVE  Knows(s, d, more)
<1>1. s.expected \in Nat /\ s.answer \in Nat
  BY DEF TabState
<1>2. QED
  BY <1>1 DEF Knows, From

\* It is enough to look at the tab that goes on.
LEMMA OneTabKnows ==
    ASSUME Base, StaleInv, NEW t \in Tabs, NEW s, tab' = [tab EXCEPT ![t] = s],
           current' \in Nat, current <= current', overlooked \subseteq overlooked',
           Knows(s, current', overlooked')
    PROVE  \A u \in Tabs : Knows(tab'[u], current', overlooked')
<1>1. tab \in [Tabs -> TabState] /\ current \in Nat
  BY DEF Base, TypeOK, Numbers
<1>2. tab'[t] = s /\ \A u \in Tabs \ {t} : tab'[u] = tab[u]
  BY <1>1
<1>3. \A u \in Tabs : Knows(tab[u], current', overlooked')
  BY <1>1, KnowsOn DEF StaleInv
<1>4. QED
  BY <1>2, <1>3

\* The state a tab goes on to when it stores nothing.
LEMMA TabOnlyKnows ==
    ASSUME Base, StaleInv, NEW t \in Tabs, TabOnly(t)
    PROVE  \A u \in Tabs : Knows(tab'[u], current', overlooked')
<1> DEFINE Goal == \A u \in Tabs : Knows(tab'[u], current', overlooked')
<1> SUFFICES Goal  OBVIOUS
<1> DEFINE s == tab[t]
<1>0. /\ s \in TabState /\ current \in Nat /\ current' = current
      /\ Knows(s, current, overlooked)
  BY TabOnlyFrame DEF Base, TypeOK, Numbers, StaleInv, documentVars
<1>1. ASSUME NEW r, tab' = [tab EXCEPT ![t] = r], overlooked \subseteq overlooked',
             Knows(r, current, overlooked')
      PROVE  Goal
  <2>1. current' \in Nat /\ current <= current' /\ Knows(r, current', overlooked')
    BY <1>0, <1>1
  <2>2. QED
    BY <1>1, <2>1, OneTabKnows, Zenon
<1>2. s.seen \in Nat /\ s.expected \in Nat /\ s.answer \in Nat
  BY <1>0 DEF TabState
<1>3. CASE Open(t)
  <2> DEFINE r == [Closed EXCEPT !.draft = content[current], !.expected = current, !.seen = current]
  <2>1. r.expected = current /\ r.seen = current /\ r.step = "idle"
    BY DEF Closed
  <2>2. Knows(r, current, overlooked)
    BY <1>0, <2>1 DEF Knows, From
  <2>3. tab' = [tab EXCEPT ![t] = r] /\ overlooked' = overlooked
    BY <1>3 DEF Open, NoWrite
  <2>4. QED
    BY <1>1, <2>2, <2>3
<1>4. CASE UseLatest(t)
  <2> DEFINE r == [s EXCEPT !.step = "idle", !.expected = current, !.seen = current]
  <2>1. r.expected = current /\ r.seen = current /\ r.step = "idle"
    BY <1>0 DEF TabState
  <2>2. Knows(r, current, overlooked)
    BY <1>0, <2>1 DEF Knows, From
  <2>3. tab' = [tab EXCEPT ![t] = r] /\ overlooked' = overlooked
    BY <1>4 DEF UseLatest, NoWrite
  <2>4. QED
    BY <1>1, <2>2, <2>3
<1>5. CASE Answered(t)
  <2> DEFINE r == [s EXCEPT !.step = "idle", !.expected = s.answer, !.answer = 0]
  <2>1. r.expected = s.answer /\ r.seen = s.seen /\ r.step = "idle"
    BY <1>0 DEF TabState
  <2>2. Knows(r, current, overlooked)
    BY <1>0, <1>5, <2>1 DEF Answered, Knows, From
  <2>3. tab' = [tab EXCEPT ![t] = r] /\ overlooked' = overlooked
    BY <1>5 DEF Answered, NoWrite
  <2>4. QED
    BY <1>1, <2>2, <2>3
<1>6. ASSUME NEW c \in Contents, Save(t, c)
      PROVE  Goal
  <2> DEFINE r == [s EXCEPT !.step = "sent", !.draft = c]
  <2>1. r.expected = s.expected /\ r.seen = s.seen /\ r.step = "sent"
    BY <1>0 DEF TabState
  <2>2. Knows(r, current, overlooked)
    BY <1>0, <2>1 DEF Knows, From
  <2>3. tab' = [tab EXCEPT ![t] = r] /\ overlooked' = overlooked
    BY <1>6 DEF Save, NoWrite
  <2>4. QED
    BY <1>1, <2>2, <2>3
<1>7. CASE RequestFails(t)
  <2> DEFINE r == [s EXCEPT !.step = "idle", !.answer = 0]
  <2>1. r.expected = s.expected /\ r.seen = s.seen /\ r.step = "idle"
    BY <1>0 DEF TabState
  <2>2. Knows(r, current, overlooked)
    BY <1>0, <2>1 DEF Knows, From
  <2>3. tab' = [tab EXCEPT ![t] = r] /\ overlooked' = overlooked
    BY <1>7 DEF RequestFails, NoWrite
  <2>4. QED
    BY <1>1, <2>2, <2>3
<1>8. ASSUME NEW x, tab' = [tab EXCEPT ![t].step = x], x # "answer", overlooked' = overlooked
      PROVE  Goal
  <2> DEFINE r == [s EXCEPT !.step = x]
  <2>1. r.expected = s.expected /\ r.seen = s.seen /\ r.step = x
    BY <1>0 DEF TabState
  <2>2. Knows(r, current, overlooked)
    BY <1>0, <1>8, <2>1 DEF Knows, From
  <2>3. tab' = [tab EXCEPT ![t] = r]
    BY <1>8
  <2>4. QED
    BY <1>1, <1>8, <2>2, <2>3
<1>9. CASE AppendLocks(t) \/ AppendFindsNothing(t) \/ AppendStale(t)
  BY <1>8, <1>9 DEF AppendLocks, AppendFindsNothing, AppendStale, Step, NoWrite
<1>10. CASE AppendSame(t)
  <2> DEFINE r == [s EXCEPT !.step = "answer", !.answer = current, !.seen = current]
  <2>1. r.expected = s.expected /\ r.seen = current /\ r.answer = current
    BY <1>0 DEF TabState
  <2>2. Knows(r, current, overlooked)
    BY <1>0, <1>2, <2>1 DEF Knows, From
  <2>3. tab' = [tab EXCEPT ![t] = r] /\ overlooked' = overlooked
    BY <1>10 DEF AppendSame, NoWrite
  <2>4. QED
    BY <1>1, <2>2, <2>3
<1>11. CASE Refresh(t) /\ exists
  <2> DEFINE r == [s EXCEPT !.step = "answer", !.answer = current]
  <2>1. r.expected = s.expected /\ r.seen = s.seen /\ r.answer = current
    BY <1>0 DEF TabState
  <2>2. tab' = [tab EXCEPT ![t] = r] /\ overlooked' = overlooked \cup ({current} \ {s.seen})
    BY <1>11 DEF Refresh
  <2>3. Knows(r, current, overlooked')
    BY <1>0, <2>1, <2>2 DEF Knows, From
  <2>4. QED
    BY <1>1, <2>2, <2>3
<1>12. CASE Refresh(t) /\ ~exists
  BY <1>8, <1>12 DEF Refresh
<1>13. QED
  BY <1>3, <1>4, <1>5, <1>6, <1>7, <1>9, <1>10, <1>11, <1>12 DEF TabOnly

LEMMA StaleStep ==
    ASSUME Base, StaleInv, [Next]_vars
    PROVE  StaleInv'
<1>0. current \in Nat \ {0} /\ tab \in [Tabs -> TabState] /\ basis \in [Numbers -> 0..MaxVersions]
      /\ MaxVersions \in Nat
  BY DEF Base, TypeOK, Numbers
<1>1. ASSUME NEW t \in Tabs, TabOnly(t)
      PROVE  StaleInv'
  <2>1. overlooked \subseteq overlooked'
    BY <1>1 DEF TabOnly, Open, UseLatest, Answered, RequestFails, Save, AppendLocks,
       AppendFindsNothing, AppendSame, AppendStale, Refresh, NoWrite
  <2>2. UNCHANGED <<exists, current, basis>>
    BY <1>1, TabOnlyFrame DEF documentVars
  <2>3. QED
    BY <1>1, <2>1, <2>2, TabOnlyKnows DEF StaleInv, StaleInputIsRefused, Versions
<1>2. ASSUME NEW t \in Tabs, append_content(t)
      PROVE  StaleInv'
  <2> DEFINE s == tab[t]
             r == [s EXCEPT !.step = "refresh", !.seen = current + 1]
  <2>1. /\ exists /\ exists' = exists /\ current' = current + 1 /\ current' \in Numbers
        /\ current = s.expected /\ overlooked' = overlooked
        /\ basis' = [basis EXCEPT ![current'] = s.seen] /\ tab' = [tab EXCEPT ![t] = r]
    BY <1>0, <1>2 DEF append_content, AddVersion, Base, LockInv, Numbers
  <2>2. s \in TabState
    BY <1>0
  <2>3. r.expected = current /\ r.step = "refresh"
    BY <2>1, <2>2 DEF TabState
  <2>4. Knows(r, current', overlooked')
    BY <1>0, <2>1, <2>3 DEF Knows, From
  <2>5. \A u \in Tabs : Knows(tab'[u], current', overlooked')
    <3>1. current' \in Nat /\ current <= current' /\ overlooked \subseteq overlooked'
      BY <1>0, <2>1
    <3>2. QED
      BY <2>1, <2>4, <3>1, OneTabKnows, Zenon
  <2>6. current = s.seen \/ current \in overlooked
    <3>1. Knows(s, current, overlooked)
      BY DEF StaleInv
    <3>2. QED
      BY <1>0, <2>1, <3>1 DEF Knows, From
  <2>7. StaleInputIsRefused'
    <3> SUFFICES ASSUME NEW n \in 1..current', basis'[n] \notin {0, n - 1}
                 PROVE  n - 1 \in overlooked
      BY <2>1 DEF StaleInputIsRefused, Versions
    <3>1. CASE n = current'
      BY <1>0, <2>1, <2>6, <3>1
    <3>2. CASE n # current'
      BY <1>0, <2>1, <3>2 DEF StaleInv, StaleInputIsRefused, Versions, Numbers
    <3>3. QED
      BY <3>1, <3>2
  <2>8. \A n \in Numbers : n > current' => basis'[n] = 0
    BY <1>0, <2>1 DEF StaleInv, Numbers
  <2>9. QED
    BY <2>5, <2>7, <2>8 DEF StaleInv
<1>3. CASE save_extraction
  <2>1. UNCHANGED <<basis, overlooked, tab, exists>> /\ current' \in {current, current + 1}
    BY <1>3 DEF save_extraction, SaveFrame, WorkerFrame, AddVersion
  <2>2. current' \in Numbers
    BY TypeStep DEF TypeOK
  <2>3. \A u \in Tabs : Knows(tab'[u], current', overlooked')
    BY <1>0, <2>1, KnowsOn DEF StaleInv
  <2>4. StaleInputIsRefused'
    BY <1>0, <2>1, <2>2 DEF StaleInv, StaleInputIsRefused, Versions, Numbers
  <2>5. \A n \in Numbers : n > current' => basis'[n] = 0
    BY <1>0, <2>1 DEF StaleInv, Numbers
  <2>6. QED
    BY <2>3, <2>4, <2>5 DEF StaleInv
<1>4. CASE \/ WorkerOnly \/ FillFinds \/ backfill_current_chunks \/ delete_document
           \/ list_versions \/ ListAgain \/ UNCHANGED vars
  <2>1. UNCHANGED <<basis, overlooked, tab, current>> /\ (exists' => exists)
    BY <1>4 DEF WorkerOnly, ClaimExtraction, ExtractionFails, SaveLocks, WorkerStops, WorkerFrame,
       FillFinds, backfill_current_chunks, delete_document, list_versions, ListAgain, OtherFrame,
       documentVars, vars
  <2>2. QED
    BY <2>1 DEF StaleInv, StaleInputIsRefused, Versions
<1>5. QED
  BY <1>1, <1>2, <1>3, <1>4, NextCases

\* Whatever is lost or late, a save that nobody has seen the basis of is one
\* whose tab was told of that version as its own.
THEOREM StaleInputIsRefusedCorrect == Spec => []StaleInputIsRefused
<1>1. Init => StaleInv
  BY DEF Init, StaleInv, StaleInputIsRefused, Knows, From, Closed, Numbers, Versions
<1>2. Base /\ StaleInv /\ [Next]_vars => StaleInv'
  BY StaleStep
<1>3. StaleInv => StaleInputIsRefused
  BY DEF StaleInv
<1>4. QED
  BY <1>1, <1>2, <1>3, BaseCorrect, PTL DEF Spec

=============================================================================
