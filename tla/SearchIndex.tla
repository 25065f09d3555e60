---------------------------- MODULE SearchIndex -----------------------------
(***************************************************************************)
(* Embedding generations: the cron function index_pending_chunks, the      *)
(* reindex request, a hybrid search request, and the owner who changes     *)
(* sources, documents, the model mapping and the consent meanwhile.        *)
(*                                                                         *)
(* The mapping and the consent are in Redis, everything else is in         *)
(* PostgreSQL.  The worker runs one indexing job at a time; each of its    *)
(* steps below is one transaction, except that the job keeps its           *)
(* transaction, and with it the lock on the chunk's source, open from      *)
(* "consent" to "store" across the call of the provider.                   *)
(*                                                                         *)
(* A vector space is what a response says of itself: the identity of the   *)
(* model and the number of dimensions.  Vectors themselves are left out.   *)
(* Sources here are those that are not local_only: a flag that is set when *)
(* a source is created and never changes.                                  *)
(***************************************************************************)
EXTENDS Integers, FiniteSets

CONSTANTS
    Sources,
    Chunks,
    SourceOf,        \* [Chunks -> Sources]
    Models,          \* model ids the owner can configure
    Identities,      \* model identities that responses carry
    Dimensions,      \* numbers of dimensions that responses have
    NoModel,
    NoChunk,
    MaxGenerations,  \* bound: rows of search_index_generations
    MaxChanges       \* bound: changes the owner makes to sources, mapping, consent

ASSUME SearchIndexAssumption ==
    /\ SourceOf \in [Chunks -> Sources]
    /\ Dimensions \subseteq Nat \ {0}
    /\ NoModel \notin Models
    /\ NoChunk \notin Chunks
    /\ MaxGenerations \in Nat
    /\ MaxChanges \in Nat

VARIABLES
    source,      \* [Sources -> SourceStatus]: Source.status
    chunk,       \* [Chunks -> ChunkState]: the DocumentChunk row, seen from its document
    mapping,     \* the model of alias "embedding", or NoModel
    consent,     \* PrivacySettings.allow_remote_embeddings
    generations, \* the number of IndexGeneration rows; they are 1..generations
    status,      \* [1..MaxGenerations -> GenerationStatus]: IndexGeneration.status
    model,       \* [1..MaxGenerations -> Models \cup {NoModel}]: .model_id
    space,       \* [1..MaxGenerations -> Spaces \cup {NoSpace}]: .response_model_id, .dimensions
    item,        \* [1..MaxGenerations -> [Chunks -> ItemStatus]]: SearchIndexItem.status
    vector,      \* [1..MaxGenerations -> [Chunks -> Spaces \cup {NoSpace}]]: .embedding
    pc,          \* the next step of index_pending_chunks
    gen,         \* its generation_id, 0 when idle
    work,        \* its chunk_id
    response,    \* the space of the provider's answer
    rounds,      \* chunks it may still claim
    dropped,     \* the items it has deleted and not yet committed
    seen,        \* auxiliary: the chunks that were eligible when it found none left to
                 \* index, and still were when it deleted the obsolete items
    late,        \* auxiliary: chunks sent since the consent was withdrawn
    reindexing,  \* the models that reindex requests under way have read
    query,       \* a hybrid search request: its step, generation and space
    changes      \* changes of the owner so far

ownerVars == <<source, mapping, consent, changes>>
indexVars == <<status, model, space, generations>>
itemVars == <<item, vector>>
jobVars == <<pc, gen, work, response, rounds, dropped, seen>>
requestVars == <<reindexing, query>>
vars == <<ownerVars, chunk, indexVars, itemVars, jobVars, late, requestVars>>

Generations == 1..MaxGenerations
SourceStatus == {"active", "paused", "archived"}
ChunkState == {"absent", "current", "stale", "deleted"}
GenerationStatus == {"none", "queued", "running", "active", "failed", "retired"}
ItemStatus == {"none", "pending", "succeeded", "failed"}
Steps == {"idle", "config", "claim", "prune", "settle", "fence", "consent", "send", "store", "failed"}
Spaces == [identity : Identities, dimensions : Dimensions]
NoSpace == [identity |-> "none", dimensions |-> 0]
NoQuery == [step |-> "idle", gen |-> 0, space |-> NoSpace]

TypeOK ==
    /\ source \in [Sources -> SourceStatus]
    /\ chunk \in [Chunks -> ChunkState]
    /\ mapping \in Models \cup {NoModel}
    /\ consent \in BOOLEAN
    /\ generations \in 0..MaxGenerations
    /\ status \in [Generations -> GenerationStatus]
    /\ model \in [Generations -> Models \cup {NoModel}]
    /\ space \in [Generations -> Spaces \cup {NoSpace}]
    /\ item \in [Generations -> [Chunks -> ItemStatus]]
    /\ vector \in [Generations -> [Chunks -> Spaces \cup {NoSpace}]]
    /\ pc \in Steps
    /\ gen \in 0..MaxGenerations
    /\ work \in Chunks \cup {NoChunk}
    /\ response \in Spaces \cup {NoSpace}
    /\ rounds \in 0..2
    /\ dropped \subseteq Chunks
    /\ seen \subseteq Chunks
    /\ late \in Nat
    /\ reindexing \subseteq Models
    /\ query \in [step : {"idle", "ask", "compare"}, gen : 0..MaxGenerations,
                  space : Spaces \cup {NoSpace}]
    /\ changes \in 0..MaxChanges

Init ==
    /\ source = [s \in Sources |-> "active"]
    /\ chunk = [c \in Chunks |-> "absent"]
    /\ mapping \in Models \cup {NoModel}  \* Settings.omniroute_models
    /\ consent = FALSE
    /\ generations = 0
    /\ status = [g \in Generations |-> "none"]
    /\ model = [g \in Generations |-> NoModel]
    /\ space = [g \in Generations |-> NoSpace]
    /\ item = [g \in Generations |-> [c \in Chunks |-> "none"]]
    /\ vector = [g \in Generations |-> [c \in Chunks |-> NoSpace]]
    /\ pc = "idle"
    /\ gen = 0
    /\ work = NoChunk
    /\ response = NoSpace
    /\ rounds = 0
    /\ dropped = {}
    /\ seen = {}
    /\ late = 0
    /\ reindexing = {}
    /\ query = NoQuery
    /\ changes = 0

-----------------------------------------------------------------------------
(* Helpers. *)

\* The chunk is in the current version of an extracted document.
Current(c) == chunk[c] = "current"
SourceActive(c) == source[SourceOf[c]] = "active"
Eligible(c) == Current(c) /\ SourceActive(c)
EligibleChunks == {c \in Chunks : Eligible(c)}

InProgress == {g \in Generations : status[g] \in {"queued", "running"}}
Active == {g \in Generations : status[g] = "active"}

\* The job's session holds the row lock of this source.
Locked(s) == pc \in {"consent", "send", "store"} /\ s = SourceOf[work]

SetItem(s) == item' = [item EXCEPT ![gen][work] = s]

FailGeneration == status' = [status EXCEPT ![gen] = "failed"]

-----------------------------------------------------------------------------
(* The owner and the other writers. *)

OwnerMay == changes < MaxChanges /\ changes' = changes + 1
OwnerFrame == UNCHANGED <<indexVars, jobVars, requestVars>>

\* Mutated form of update_source: the row is written without its lock.
UpdateUnlocked(s, new) ==
    /\ OwnerMay
    /\ source[s] \notin {"archived", new}
    /\ source' = [source EXCEPT ![s] = new]
    /\ OwnerFrame
    /\ UNCHANGED <<chunk, mapping, consent, itemVars, late>>

update_source(s, new) ==
    /\ OwnerMay
    /\ ~Locked(s)
    /\ source[s] \notin {"archived", new}
    /\ source' = [source EXCEPT ![s] = new]
    /\ OwnerFrame
    /\ UNCHANGED <<chunk, mapping, consent, itemVars, late>>

update_mappings(m) ==
    /\ OwnerMay
    /\ mapping # m
    /\ mapping' = m
    /\ OwnerFrame
    /\ UNCHANGED <<source, chunk, consent, itemVars, late>>

save_privacy ==
    /\ OwnerMay
    /\ consent' = ~consent
    /\ late' = 0
    /\ OwnerFrame
    /\ UNCHANGED <<source, chunk, mapping, itemVars>>

\* The first chunks of a version: create_document, save_extraction of an upload,
\* backfill_current_chunks.
create_document(c) ==
    /\ chunk[c] = "absent"
    /\ SourceActive(c)
    /\ chunk' = [chunk EXCEPT ![c] = "current"]
    /\ OwnerFrame
    /\ UNCHANGED <<ownerVars, itemVars, late>>

\* A newer version of the document, with or without chunks, whatever the status
\* of the source: append_content locks the document only.
append_content(c, fresh) ==
    /\ Current(c)
    /\ fresh \subseteq {d \in Chunks : chunk[d] = "absent" /\ SourceOf[d] = SourceOf[c]}
    /\ chunk' = [d \in Chunks |->
                   IF d = c THEN "stale" ELSE IF d \in fresh THEN "current" ELSE chunk[d]]
    /\ OwnerFrame
    /\ UNCHANGED <<ownerVars, itemVars, late>>

\* The chunks of a document go, and their index items in every generation with
\* them.  A purge would do this too, but its transaction never commits (Uploads).
delete_document(s, gone) ==
    /\ ~Locked(s)
    /\ gone # {}
    /\ gone \subseteq {c \in Chunks : SourceOf[c] = s /\ chunk[c] \in {"current", "stale"}}
    /\ chunk' = [c \in Chunks |-> IF c \in gone THEN "deleted" ELSE chunk[c]]
    /\ item' = [g \in Generations |-> [c \in Chunks |-> IF c \in gone THEN "none" ELSE item[g][c]]]
    /\ vector' = [g \in Generations |-> [c \in Chunks |-> IF c \in gone THEN NoSpace ELSE vector[g][c]]]
    /\ OwnerFrame
    /\ UNCHANGED <<ownerVars, late>>

-----------------------------------------------------------------------------
(* POST /search/reindex: the settings are read before the transaction.      *)
(* Requests overlap, at most one that has read each model.                  *)

RequestFrame == UNCHANGED <<ownerVars, chunk, itemVars, jobVars, late>>

RequestGoesOn(m) ==
    /\ m \in reindexing
    /\ reindexing' = reindexing \ {m}
    /\ RequestFrame
    /\ UNCHANGED query

reindex ==
    /\ mapping # NoModel /\ consent
    /\ mapping \notin reindexing
    /\ generations < MaxGenerations
    /\ reindexing' = reindexing \cup {mapping}
    /\ RequestFrame
    /\ UNCHANGED <<indexVars, query>>

NewGeneration(m) ==
    /\ generations < MaxGenerations
    /\ generations' = generations + 1
    /\ status' = [status EXCEPT ![generations + 1] = "queued"]
    /\ model' = [model EXCEPT ![generations + 1] = m]
    /\ UNCHANGED space

\* Mutated form of create_generation: it does not look for one in progress.
CreateAnother == \E m \in Models : RequestGoesOn(m) /\ NewGeneration(m)

\* The advisory lock makes the look and the insertion one step.
create_generation ==
    /\ InProgress = {}
    /\ \E m \in Models : RequestGoesOn(m) /\ NewGeneration(m)

\* A generation is in progress: the request answers with that one.
ExistingGeneration ==
    /\ InProgress # {}
    /\ \E m \in Models : RequestGoesOn(m)
    /\ UNCHANGED indexVars

-----------------------------------------------------------------------------
(* index_pending_chunks: the generation and the settings. *)

JobFrame == UNCHANGED <<ownerVars, chunk, requestVars, model, generations>>
Goto(step) == pc' = step /\ UNCHANGED <<gen, work, response, rounds, dropped, seen>>

JobEnds ==
    /\ pc' = "idle"
    /\ gen' = 0
    /\ work' = NoChunk
    /\ response' = NoSpace
    /\ rounds' = 0
    /\ dropped' = {}
    /\ seen' = {}

\* The oldest generation in progress, else the active one.
NextGeneration ==
    IF InProgress # {} THEN CHOOSE g \in InProgress : \A h \in InProgress : g <= h
    ELSE CHOOSE g \in Active : TRUE

Start ==
    /\ pc = "idle"
    /\ InProgress \cup Active # {}
    /\ gen' = NextGeneration
    /\ pc' = "config"
    /\ rounds' = 2
    /\ JobFrame
    /\ UNCHANGED <<status, space, itemVars, work, response, dropped, seen, late>>

ConfigForbidden ==
    /\ pc = "config"
    /\ ~consent
    /\ JobEnds
    /\ JobFrame
    /\ UNCHANGED <<status, space, itemVars, late>>

\* The mapping has changed, or Redis cannot be read.
ConfigFails ==
    /\ pc = "config"
    /\ IF gen \in Active THEN UNCHANGED status ELSE FailGeneration
    /\ JobEnds
    /\ JobFrame
    /\ UNCHANGED <<space, itemVars, late>>

ConfigAllowed ==
    /\ pc = "config"
    /\ consent
    /\ mapping = model[gen]
    /\ Goto("claim")
    /\ JobFrame
    /\ UNCHANGED <<status, space, itemVars, late>>

-----------------------------------------------------------------------------
(* index_pending_chunks: one of the two chunks of a job. *)

Unindexed == {c \in EligibleChunks : item[gen][c] \in {"none", "pending"}}

\* The status of the generation needs no test: only this job, which ends when
\* it fails a generation, changes it.
ClaimChunk(c) ==
    /\ pc = "claim"
    /\ rounds > 0
    /\ c \in Unindexed
    /\ status' = [status EXCEPT ![gen] = IF @ = "queued" THEN "running" ELSE @]
    /\ item' = [item EXCEPT ![gen][c] = "pending"]
    /\ work' = c
    /\ rounds' = rounds - 1
    /\ pc' = "fence"
    /\ JobFrame
    /\ UNCHANGED <<space, vector, gen, response, dropped, seen, late>>

\* Nothing is left to index: the transaction goes on to settle the generation.
ClaimNothing ==
    /\ pc = "claim"
    /\ rounds > 0
    /\ Unindexed = {}
    /\ gen \notin Active
    /\ pc' = "prune"
    /\ seen' = EligibleChunks
    /\ JobFrame
    /\ UNCHANGED <<status, space, itemVars, gen, work, response, rounds, dropped, late>>

\* Both chunks are done, or an active generation is up to date.
ClaimEnds ==
    /\ pc = "claim"
    /\ rounds = 0 \/ (Unindexed = {} /\ gen \in Active)
    /\ JobEnds
    /\ JobFrame
    /\ UNCHANGED <<status, space, itemVars, late>>

NotSucceeded == {c \in Chunks : item[gen][c] \in {"pending", "failed"}}

\* The items of chunks that are not eligible any more are deleted.
PruneItems ==
    /\ pc = "prune"
    /\ dropped' = {c \in NotSucceeded : ~Eligible(c)}
    /\ seen' = seen \cap EligibleChunks
    /\ pc' = "settle"
    /\ JobFrame
    /\ UNCHANGED <<status, space, itemVars, gen, work, response, rounds, late>>

Settles ==
    /\ item' = [item EXCEPT ![gen] = [c \in Chunks |-> IF c \in dropped THEN "none" ELSE @[c]]]
    /\ JobEnds
    /\ JobFrame
    /\ UNCHANGED <<space, vector, late>>

\* An item has failed, or there is nothing in the generation.
FinishFails ==
    /\ pc = "settle"
    /\ NotSucceeded \ dropped # {} \/ space[gen] = NoSpace
    /\ FailGeneration
    /\ Settles

\* Mutated form of activate_generation: the failed items are not looked at.
ActivateAnyway ==
    /\ pc = "settle"
    /\ space[gen] # NoSpace
    /\ status' = [g \in Generations |->
                    IF g = gen THEN "active"
                    ELSE IF status[g] = "active" THEN "retired" ELSE status[g]]
    /\ Settles

activate_generation ==
    /\ pc = "settle"
    /\ NotSucceeded \subseteq dropped
    /\ space[gen] # NoSpace
    /\ status' = [g \in Generations |->
                    IF g = gen THEN "active"
                    ELSE IF status[g] = "active" THEN "retired" ELSE status[g]]
    /\ Settles

\* The source lock is taken; it is kept until the chunk is dealt with.
FenceLocks ==
    /\ pc = "fence"
    /\ Eligible(work)
    /\ Goto("consent")
    /\ JobFrame
    /\ UNCHANGED <<status, space, itemVars, late>>

\* The chunk is not eligible any more: its item goes.
FenceDrops ==
    /\ pc = "fence"
    /\ ~Eligible(work)
    /\ SetItem("none")
    /\ Goto("claim")
    /\ JobFrame
    /\ UNCHANGED <<status, space, vector, late>>

\* The consent was withdrawn: the item stays pending and the job ends.
ConsentWithdrawn ==
    /\ pc = "consent"
    /\ ~consent
    /\ JobEnds
    /\ JobFrame
    /\ UNCHANGED <<status, space, itemVars, late>>

\* Mutated form of ConsentRead: the answer of the start of the job is used.
ConsentReused ==
    /\ pc = "consent"
    /\ Goto("send")
    /\ JobFrame
    /\ UNCHANGED <<status, space, itemVars, late>>

ConsentRead ==
    /\ pc = "consent"
    /\ consent
    /\ mapping = model[gen]
    /\ Goto("send")
    /\ JobFrame
    /\ UNCHANGED <<status, space, itemVars, late>>

\* The mapping has changed, Redis cannot be read, or the gateway refuses.
ChunkRefused ==
    /\ pc = "consent"
    /\ Goto("failed")
    /\ JobFrame
    /\ UNCHANGED <<status, space, itemVars, late>>

ContentSent == late' = IF consent THEN 0 ELSE late + 1

\* The provider answers.  embedding_values has compared the dimensions with
\* those of the generation, which nobody else sets meanwhile.
Embed(r) ==
    /\ pc = "send"
    /\ space[gen] # NoSpace => r.dimensions = space[gen].dimensions
    /\ ContentSent
    /\ response' = r
    /\ pc' = "store"
    /\ JobFrame
    /\ UNCHANGED <<status, space, itemVars, gen, work, rounds, dropped, seen>>

\* It does not answer, or answers with a malformed embedding or with other
\* dimensions.
EmbedFails ==
    /\ pc = "send"
    /\ ContentSent
    /\ Goto("failed")
    /\ JobFrame
    /\ UNCHANGED <<status, space, itemVars>>

StoreEmbedding ==
    /\ SetItem("succeeded")
    /\ vector' = [vector EXCEPT ![gen][work] = response]
    /\ Goto("claim")
    /\ JobFrame
    /\ UNCHANGED <<status, late>>

\* The first embedding gives the generation its space.  Neither the generation
\* nor the item needs a second look: only this job changes them while the
\* source is locked.
StoreFirst ==
    /\ pc = "store"
    /\ space[gen] = NoSpace
    /\ space' = [space EXCEPT ![gen] = response]
    /\ StoreEmbedding

\* Mutated form of StoreNext: the identity in the response is not compared.
StoreUnchecked ==
    /\ pc = "store"
    /\ space[gen] # NoSpace
    /\ StoreEmbedding
    /\ UNCHANGED space

StoreNext ==
    /\ pc = "store"
    /\ space[gen] # NoSpace
    /\ response.identity = space[gen].identity
    /\ StoreEmbedding
    /\ UNCHANGED space

\* Another model answers under the configured name: the generation fails,
\* an active one too.
ModelIdentityChanged ==
    /\ pc = "store"
    /\ space[gen] # NoSpace
    /\ response.identity # space[gen].identity
    /\ FailGeneration
    /\ SetItem("failed")
    /\ JobEnds
    /\ JobFrame
    /\ UNCHANGED <<space, vector, late>>

\* Mutated form of ChunkFailed: the item is left to be tried again.
ChunkLeftPending ==
    /\ pc = "failed"
    /\ Goto("claim")
    /\ JobFrame
    /\ UNCHANGED <<status, space, itemVars, late>>

\* The lock is gone by now, and the item may be gone with its document.
ChunkFailed ==
    /\ pc = "failed"
    /\ item' = [item EXCEPT ![gen][work] = IF @ = "none" THEN "none" ELSE "failed"]
    /\ Goto("claim")
    /\ JobFrame
    /\ UNCHANGED <<status, space, vector, late>>

\* The process dies, arq cancels the job or an error is not caught: what was
\* not committed is rolled back and the lock is gone.
JobDies ==
    /\ pc # "idle"
    /\ JobEnds
    /\ JobFrame
    /\ UNCHANGED <<status, space, itemVars, late>>

-----------------------------------------------------------------------------
(* POST /search in hybrid mode.  A request that falls back to lexical       *)
(* results changes nothing.                                                 *)

SearchFrame == UNCHANGED <<ownerVars, chunk, indexVars, itemVars, jobVars, late, reindexing>>

\* The active generation is loaded; mapping and consent permit it.
SearchLoads ==
    /\ query.step = "idle"
    /\ consent
    /\ \E g \in Active :
         /\ mapping = model[g]
         /\ query' = [step |-> "ask", gen |-> g, space |-> space[g]]
    /\ SearchFrame

\* The query's embedding has the dimensions and the identity of the generation
\* as it was loaded.
SearchEmbeds ==
    /\ query.step = "ask"
    /\ query' = [query EXCEPT !.step = "compare"]
    /\ SearchFrame

\* The results are ranked, or the request fell back or failed.
SearchEnds ==
    /\ query.step \in {"ask", "compare"}
    /\ query' = NoQuery
    /\ SearchFrame

-----------------------------------------------------------------------------

Owner ==
    \/ \E s \in Sources, new \in SourceStatus : update_source(s, new)
    \/ \E m \in Models : update_mappings(m)
    \/ save_privacy
    \/ \E c \in Chunks : create_document(c)
    \/ \E c \in Chunks : \E fresh \in SUBSET Chunks : append_content(c, fresh)
    \/ \E s \in Sources : \E gone \in SUBSET Chunks : delete_document(s, gone)

Requests ==
    \/ reindex \/ create_generation \/ ExistingGeneration
    \/ SearchLoads \/ SearchEmbeds \/ SearchEnds

index_pending_chunks ==
    \/ Start
    \/ ConfigForbidden \/ ConfigFails \/ ConfigAllowed
    \/ \E c \in Chunks : ClaimChunk(c)
    \/ ClaimNothing \/ ClaimEnds
    \/ PruneItems \/ FinishFails \/ activate_generation
    \/ FenceLocks \/ FenceDrops
    \/ ConsentWithdrawn \/ ConsentRead \/ ChunkRefused
    \/ \E r \in Spaces : Embed(r)
    \/ EmbedFails
    \/ StoreFirst \/ StoreNext \/ ModelIdentityChanged
    \/ ChunkFailed

Next == Owner \/ Requests \/ index_pending_chunks \/ JobDies

Spec == Init /\ [][Next]_vars

\* The job is started every minute and goes on; in the end it is not killed any
\* more (a death between two chunks looks like the job's own end), and Redis is
\* not out of reach whenever the job asks for its settings.
Fairness ==
    /\ WF_vars(index_pending_chunks)
    /\ SF_vars(ConfigAllowed)
    /\ <>[][JobDies => index_pending_chunks]_vars

FairSpec == Spec /\ Fairness

-----------------------------------------------------------------------------
(* Properties. *)

\* Changing the embedding model never mixes vector spaces: all the vectors of
\* a generation are of the space the generation was given by the first of
\* them, whatever answers under the configured name later; and a query's vector
\* is compared with vectors of its own space only, although generations are
\* built, activated, failed and retired while the provider computes it.
SearchComparesLikeWithLike ==
    /\ \A g \in Generations : \A c \in Chunks :
         item[g][c] = "succeeded" => vector[g][c] = space[g] /\ space[g] # NoSpace
    /\ query.step = "compare" =>
         \A c \in Chunks :
             item[query.gen][c] = "succeeded" => vector[query.gen][c] = query.space

\* After the owner has withdrawn the consent at most the one chunk is sent
\* whose consent had been read before.
ConsentIsReread == late <= 1

\* While a chunk is sent its source is active, its document there: archive and
\* deletion wait for the lock.
SendsAreFenced == pc = "send" => SourceActive(work) /\ chunk[work] # "deleted"

\* At most one generation serves queries and at most one is being built.
OneGenerationEach == Cardinality(Active) <= 1 /\ Cardinality(InProgress) <= 1

\* A generation that becomes active has an embedding of every chunk that was
\* eligible all the while the job looked for missing and failed ones, unless
\* the chunk has been deleted meanwhile.
ActivatedWhenComplete ==
    [][\A g \in Generations :
         status[g] # "active" /\ status'[g] = "active" =>
             \A c \in seen : item'[g][c] = "succeeded" \/ chunk[c] = "deleted"]_vars

\* A generation in progress is settled once the consent stays.
GenerationSettles ==
    <>[]consent =>
        \A g \in Generations : status[g] \in {"queued", "running"} ~> status[g] \in {"active", "failed"}

\* With the consent and the mapping left alone, every eligible chunk is tried
\* for the active generation: a chunk added after the activation is not missed.
ActiveCatchesUp ==
    \A g \in Generations : \A c \in Chunks :
        <>[](consent /\ status[g] = "active" /\ mapping = model[g] /\ Eligible(c)) =>
            <>(item[g][c] \in {"succeeded", "failed"})

=============================================================================
