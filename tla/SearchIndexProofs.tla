-------------------------- MODULE SearchIndexProofs --------------------------
(***************************************************************************)
(* Proofs about SearchIndex, for any sources, chunks, models, spaces and   *)
(* bounds.                                                                 *)
(*                                                                         *)
(* One job runs at a time, so what it has read of its generation stays     *)
(* true until it writes it; what it has read of sources, documents and     *)
(* consent does not, but for what the lock on the chunk's source protects. *)
(* The parts of the invariant say which is which.                          *)
(***************************************************************************)
EXTENDS SearchIndex, FiniteSetTheorems, TLAPS

USE SearchIndexAssumption

\* A job has a generation, and from the claim of a chunk on a chunk, too.
JobShape ==
    /\ pc # "idle" => gen \in Generations
    /\ pc \in {"fence", "consent", "send", "store", "failed"} => work \in Chunks
    /\ pc = "store" => response \in Spaces

\* At most one generation is active, at most one in progress.
Unique ==
    /\ \A g, h \in Generations : status[g] = "active" /\ status[h] = "active" => g = h
    /\ \A g, h \in Generations :
         status[g] \in {"queued", "running"} /\ status[h] \in {"queued", "running"} => g = h

\* A vector is of its generation's space, and an active generation has one.
SpaceInv ==
    /\ \A g \in Generations : status[g] = "active" => space[g] # NoSpace
    /\ \A g \in Generations : \A c \in Chunks :
         item[g][c] = "succeeded" => vector[g][c] = space[g] /\ space[g] # NoSpace

\* The response has the dimensions of the space it is about to be stored in.
ResponseInv ==
    pc = "store" /\ space[gen] # NoSpace => response.dimensions = space[gen].dimensions

\* What a search has loaded of its generation is what the generation has.
QueryInv ==
    query.step # "idle" =>
        query.gen \in Generations /\ query.space = space[query.gen] /\ query.space # NoSpace

\* The lock on the source keeps what the fence has seen.
FenceInv ==
    pc \in {"consent", "send", "store"} => SourceActive(work) /\ chunk[work] # "deleted"

\* Once a chunk was sent without consent the next reading stops the job.
ConsentInv ==
    /\ late \in {0, 1}
    /\ late = 1 => ~consent /\ pc # "send"

\* The chunks that were eligible all the while have an item that was tried, and
\* it is none of those the job deletes.
SeenInv ==
    /\ pc \in {"prune", "settle"} =>
         \A c \in seen : item[gen][c] \in {"succeeded", "failed"} \/ chunk[c] = "deleted"
    /\ pc = "settle" => dropped \cap seen = {}

Base == TypeOK /\ JobShape /\ Unique
IndexInv == Base /\ SpaceInv /\ ResponseInv /\ QueryInv /\ FenceInv /\ ConsentInv /\ SeenInv

-----------------------------------------------------------------------------
(* Types. *)

\* No response has the dimensions of a generation without a space.
LEMMA NoSpaceIsNone == NoSpace \notin Spaces
BY DEF NoSpace, Spaces

\* The generation a job starts with is in progress or active.
LEMMA NextGenerationOK ==
    ASSUME Base, InProgress \cup Active # {}
    PROVE  NextGeneration \in InProgress \cup Active
<1>1. ASSUME NEW g \in InProgress PROVE \A h \in InProgress : g <= h
  BY <1>1 DEF Base, Unique, InProgress, Generations
<1>2. CASE InProgress # {}
  <2>1. \E g \in InProgress : \A h \in InProgress : g <= h
    BY <1>1, <1>2
  <2> QED
    BY <1>2, <2>1 DEF NextGeneration
<1>3. CASE InProgress = {}
  BY <1>3 DEF NextGeneration
<1> QED
  BY <1>2, <1>3

\* Writing one field of a table keeps it a table.
LEMMA TableOK ==
    ASSUME NEW G, NEW C, NEW S, NEW f \in [G -> [C -> S]], NEW g \in G, NEW c \in C, NEW v \in S
    PROVE  /\ [f EXCEPT ![g][c] = v] \in [G -> [C -> S]]
           /\ [f EXCEPT ![g][c] = v][g][c] = v
           /\ \A h \in G, d \in C : h # g \/ d # c => [f EXCEPT ![g][c] = v][h][d] = f[h][d]
OBVIOUS

LEMMA InitIndexInv == Init => IndexInv
<1> SUFFICES ASSUME Init PROVE IndexInv
  OBVIOUS
<1>1. NoQuery \in [step : {"idle", "ask", "compare"}, gen : 0..MaxGenerations,
                   space : Spaces \cup {NoSpace}] /\ NoQuery.step = "idle"
  BY DEF NoQuery
<1>2. TypeOK
  <2>1. "active" \in SourceStatus /\ "absent" \in ChunkState /\ "idle" \in Steps
    BY DEF SourceStatus, ChunkState, Steps
  <2>2. "none" \in GenerationStatus /\ "none" \in ItemStatus
    BY DEF GenerationStatus, ItemStatus
  <2>3. /\ status \in [Generations -> GenerationStatus]
        /\ model \in [Generations -> Models \cup {NoModel}]
        /\ space \in [Generations -> Spaces \cup {NoSpace}]
        /\ item \in [Generations -> [Chunks -> ItemStatus]]
        /\ vector \in [Generations -> [Chunks -> Spaces \cup {NoSpace}]]
    BY <2>2 DEF Init
  <2>4. /\ source \in [Sources -> SourceStatus] /\ chunk \in [Chunks -> ChunkState]
        /\ mapping \in Models \cup {NoModel} /\ reindexing \subseteq Models
    BY <2>1 DEF Init
  <2>6. consent \in BOOLEAN
    BY DEF Init
  <2>7. /\ generations \in 0..MaxGenerations
        /\ changes \in 0..MaxChanges /\ late \in Nat
    BY DEF Init
  <2>5. /\ pc \in Steps /\ gen \in 0..MaxGenerations
        /\ work \in Chunks \cup {NoChunk} /\ response \in Spaces \cup {NoSpace}
        /\ rounds \in 0..2 /\ dropped \subseteq Chunks /\ seen \subseteq Chunks
    BY <2>1 DEF Init
  <2> QED
    BY <1>1, <2>3, <2>4, <2>5, <2>6, <2>7 DEF Init, TypeOK
<1>3. JobShape /\ Unique /\ SpaceInv /\ ResponseInv /\ QueryInv /\ FenceInv /\ ConsentInv /\ SeenInv
  BY <1>1 DEF Init, JobShape, Unique, SpaceInv, ResponseInv, QueryInv, FenceInv, ConsentInv, SeenInv
<1> QED
  BY <1>2, <1>3 DEF IndexInv, Base

\* What the owner, the documents and the requests change.
OwnerTypes ==
    /\ source \in [Sources -> SourceStatus] /\ chunk \in [Chunks -> ChunkState]
    /\ mapping \in Models \cup {NoModel} /\ consent \in BOOLEAN
    /\ changes \in 0..MaxChanges /\ reindexing \subseteq Models

LEMMA OwnerTypesKept ==
    ASSUME Base, [Next]_vars
    PROVE  OwnerTypes'
<1>0. OwnerTypes
  BY DEF Base, TypeOK, OwnerTypes
<1> USE DEF OwnerTypes
<1>1. ASSUME Owner PROVE OwnerTypes'
  <2>1. ASSUME NEW s \in Sources, NEW new \in SourceStatus, update_source(s, new)
        PROVE  OwnerTypes'
    BY <1>0, <2>1 DEF update_source, OwnerMay, OwnerFrame, requestVars
  <2>2. ASSUME NEW m \in Models, update_mappings(m)
        PROVE  OwnerTypes'
    BY <1>0, <2>2 DEF update_mappings, OwnerMay, OwnerFrame, requestVars
  <2>3. CASE save_privacy
    BY <1>0, <2>3 DEF save_privacy, OwnerMay, OwnerFrame, requestVars
  <2>4. CASE UNCHANGED <<ownerVars, requestVars>> /\ chunk' \in [Chunks -> ChunkState]
    BY <1>0, <2>4 DEF ownerVars, requestVars
  <2>5. ASSUME NEW c \in Chunks, create_document(c)
        PROVE  UNCHANGED <<ownerVars, requestVars>> /\ chunk' \in [Chunks -> ChunkState]
    BY <1>0, <2>5 DEF create_document, OwnerFrame, ChunkState
  <2>6. ASSUME NEW c \in Chunks, NEW fresh \in SUBSET Chunks, append_content(c, fresh)
        PROVE  UNCHANGED <<ownerVars, requestVars>> /\ chunk' \in [Chunks -> ChunkState]
    BY <1>0, <2>6 DEF append_content, OwnerFrame, ChunkState
  <2>7. ASSUME NEW s \in Sources, NEW gone \in SUBSET Chunks, delete_document(s, gone)
        PROVE  UNCHANGED <<ownerVars, requestVars>> /\ chunk' \in [Chunks -> ChunkState]
    BY <1>0, <2>7 DEF delete_document, OwnerFrame, ChunkState
  <2> QED
    BY <1>1, <2>1, <2>2, <2>3, <2>4, <2>5, <2>6, <2>7 DEF Owner
<1>2. ASSUME Requests PROVE OwnerTypes'
  BY <1>0, <1>2 DEF Requests, reindex, create_generation, ExistingGeneration, RequestGoesOn,
       NewGeneration, SearchLoads,
       SearchEmbeds, SearchEnds, RequestFrame, SearchFrame, ownerVars
<1>3. ASSUME index_pending_chunks \/ JobDies PROVE UNCHANGED <<ownerVars, chunk, requestVars>>
  BY <1>3 DEF index_pending_chunks, JobDies, JobFrame, Start, ConfigForbidden, ConfigFails,
       ConfigAllowed, ClaimChunk, ClaimNothing, ClaimEnds, PruneItems, FinishFails, Settles,
       activate_generation, FenceLocks, FenceDrops, ConsentWithdrawn, ConsentRead, ChunkRefused,
       Embed, EmbedFails, StoreFirst, StoreNext, StoreEmbedding, ModelIdentityChanged, ChunkFailed
<1>4. ASSUME UNCHANGED <<ownerVars, chunk, requestVars>> PROVE OwnerTypes'
  BY <1>0, <1>4 DEF ownerVars, requestVars
<1> QED
  BY <1>1, <1>2, <1>3, <1>4 DEF Next, vars

\* Which steps change a generation, its items, and where the job is.
LEMMA StatusSteps ==
    ASSUME [Next]_vars
    PROVE  \/ create_generation
           \/ UNCHANGED <<status, model, generations>>
           \/ /\ UNCHANGED <<model, generations>>
              /\ \/ FailGeneration
                 \/ \E c \in Chunks : ClaimChunk(c)
                 \/ activate_generation
BY DEF Next, vars, Owner, OwnerFrame, update_source, update_mappings, save_privacy, create_document,
       append_content, delete_document, Requests, RequestFrame, reindex, ExistingGeneration,
       RequestGoesOn, NewGeneration,
       SearchLoads, SearchEmbeds, SearchEnds, SearchFrame, indexVars,
       index_pending_chunks, JobDies, JobFrame, Start, ConfigForbidden, ConfigFails,
       ConfigAllowed, ClaimChunk, ClaimNothing, ClaimEnds, PruneItems, FinishFails, Settles,
       activate_generation, FenceLocks, FenceDrops, ConsentWithdrawn, ConsentRead, ChunkRefused,
       Embed, EmbedFails, StoreFirst, StoreNext, StoreEmbedding, ModelIdentityChanged, ChunkFailed

LEMMA SpaceSteps ==
    ASSUME [Next]_vars
    PROVE  UNCHANGED space \/ StoreFirst
BY DEF Next, vars, Owner, OwnerFrame, update_source, update_mappings, save_privacy, create_document,
       append_content, delete_document, Requests, RequestFrame, reindex, ExistingGeneration,
       RequestGoesOn, NewGeneration,
       create_generation, SearchLoads, SearchEmbeds, SearchEnds, SearchFrame, indexVars,
       index_pending_chunks, JobDies, JobFrame, Start, ConfigForbidden, ConfigFails,
       ConfigAllowed, ClaimChunk, ClaimNothing, ClaimEnds, PruneItems, FinishFails, Settles,
       activate_generation, FenceLocks, FenceDrops, ConsentWithdrawn, ConsentRead, ChunkRefused,
       Embed, EmbedFails, StoreNext, ModelIdentityChanged, ChunkFailed

StoreStep == StoreFirst \/ StoreNext

LEMMA ItemSteps ==
    ASSUME [Next]_vars
    PROVE  \/ UNCHANGED itemVars
           \/ \E s \in Sources : \E gone \in SUBSET Chunks : delete_document(s, gone)
           \/ \E c \in Chunks : ClaimChunk(c)
           \/ pc = "settle" /\ Settles
           \/ FenceDrops \/ StoreStep \/ ModelIdentityChanged \/ ChunkFailed
BY DEF Next, vars, Owner, OwnerFrame, update_source, update_mappings, save_privacy, create_document,
       append_content, Requests, RequestFrame, reindex, ExistingGeneration,
       RequestGoesOn, NewGeneration,
       create_generation, SearchLoads, SearchEmbeds, SearchEnds, SearchFrame, StoreStep,
       index_pending_chunks, JobDies, JobFrame, Start, ConfigForbidden, ConfigFails,
       ConfigAllowed, ClaimNothing, ClaimEnds, PruneItems, FinishFails,
       activate_generation, FenceLocks, ConsentWithdrawn, ConsentRead, ChunkRefused,
       Embed, EmbedFails

\* The job's steps, and that no other step touches the job.
LEMMA JobSteps ==
    ASSUME [Next]_vars
    PROVE  \/ UNCHANGED jobVars
           \/ JobEnds
           \/ Start
           \/ ConfigAllowed \/ ClaimNothing \/ PruneItems
           \/ \E c \in Chunks : ClaimChunk(c)
           \/ FenceLocks \/ FenceDrops \/ ConsentRead \/ ChunkRefused
           \/ \E r \in Spaces : Embed(r)
           \/ EmbedFails \/ StoreStep \/ ChunkFailed
BY DEF Next, vars, Owner, OwnerFrame, update_source, update_mappings, save_privacy, create_document,
       append_content, delete_document, Requests, RequestFrame, reindex, ExistingGeneration,
       RequestGoesOn, NewGeneration,
       create_generation, SearchLoads, SearchEmbeds, SearchEnds, SearchFrame, StoreStep,
       index_pending_chunks, JobDies, ConfigForbidden, ConfigFails,
       ClaimEnds, FinishFails, Settles, activate_generation, ConsentWithdrawn, ModelIdentityChanged

-----------------------------------------------------------------------------

IndexTypes ==
    /\ generations \in 0..MaxGenerations
    /\ status \in [Generations -> GenerationStatus]
    /\ model \in [Generations -> Models \cup {NoModel}]
    /\ space \in [Generations -> Spaces \cup {NoSpace}]

LEMMA IndexTypesKept ==
    ASSUME Base, [Next]_vars
    PROVE  IndexTypes'
<1>0. IndexTypes
  BY DEF Base, TypeOK, IndexTypes
<1>1. space' \in [Generations -> Spaces \cup {NoSpace}]
  <2>1. CASE StoreFirst
    BY <2>1 DEF StoreFirst, Base, TypeOK
  <2> QED
    BY <1>0, <2>1, SpaceSteps DEF IndexTypes
<1>2. CASE create_generation
  BY <1>0, <1>1, <1>2 DEF create_generation, RequestGoesOn, NewGeneration, IndexTypes,
       GenerationStatus, Generations
<1>3. CASE UNCHANGED <<status, model, generations>>
  BY <1>0, <1>1, <1>3 DEF IndexTypes
<1>4. CASE UNCHANGED <<model, generations>> /\ FailGeneration
  BY <1>0, <1>1, <1>4 DEF IndexTypes, FailGeneration, GenerationStatus
<1>5. ASSUME UNCHANGED <<model, generations>>, NEW c \in Chunks, ClaimChunk(c)
      PROVE  IndexTypes'
  BY <1>0, <1>1, <1>5 DEF IndexTypes, ClaimChunk, GenerationStatus
<1>6. CASE UNCHANGED <<model, generations>> /\ activate_generation
  BY <1>0, <1>1, <1>6 DEF IndexTypes, activate_generation, GenerationStatus
<1> QED
  BY <1>2, <1>3, <1>4, <1>5, <1>6, StatusSteps

\* With the shape of the job: its generation, its chunk and its response.
JobTypes ==
    /\ pc \in Steps /\ gen \in 0..MaxGenerations
    /\ work \in Chunks \cup {NoChunk} /\ response \in Spaces \cup {NoSpace}
    /\ rounds \in 0..2 /\ dropped \subseteq Chunks /\ seen \subseteq Chunks

LEMMA JobTypesKept ==
    ASSUME Base, [Next]_vars
    PROVE  JobTypes' /\ JobShape'
<1>0. JobTypes /\ JobShape
  BY DEF Base, TypeOK, JobTypes
<1> USE DEF JobTypes, JobShape
<1>1. CASE UNCHANGED jobVars
  BY <1>0, <1>1 DEF jobVars
<1>2. CASE JobEnds
  BY <1>0, <1>2 DEF JobEnds, Steps
<1>3. CASE Start
  <2>1. NextGeneration \in Generations
    BY <1>3, NextGenerationOK DEF Start, InProgress, Active
  <2> QED
    BY <1>0, <1>3, <2>1 DEF Start, Steps, Generations
<1>4. CASE ConfigAllowed
  BY <1>0, <1>4 DEF ConfigAllowed, Goto, Steps
<1>5. CASE ClaimNothing
  BY <1>0, <1>5 DEF ClaimNothing, EligibleChunks, Steps
<1>6. CASE PruneItems
  BY <1>0, <1>6 DEF PruneItems, NotSucceeded, Steps
<1>7. ASSUME NEW c \in Chunks, ClaimChunk(c) PROVE JobTypes' /\ JobShape'
  BY <1>0, <1>7 DEF ClaimChunk, Steps
<1>8. CASE FenceLocks \/ FenceDrops
  BY <1>0, <1>8 DEF FenceLocks, FenceDrops, Goto, Steps
<1>9. CASE ConsentRead \/ ChunkRefused
  BY <1>0, <1>9 DEF ConsentRead, ChunkRefused, Goto, Steps
<1>10. ASSUME NEW r \in Spaces, Embed(r) PROVE JobTypes' /\ JobShape'
  BY <1>0, <1>10 DEF Embed, Steps
<1>11. CASE EmbedFails \/ ChunkFailed
  BY <1>0, <1>11 DEF EmbedFails, ChunkFailed, Goto, Steps
<1>12. CASE StoreStep
  BY <1>0, <1>12 DEF StoreStep, StoreFirst, StoreNext, StoreEmbedding, Goto, Steps
<1> QED
  BY <1>1, <1>2, <1>3, <1>4, <1>5, <1>6, <1>7, <1>8, <1>9, <1>10, <1>11, <1>12, JobSteps

ItemTypes ==
    /\ item \in [Generations -> [Chunks -> ItemStatus]]
    /\ vector \in [Generations -> [Chunks -> Spaces \cup {NoSpace}]]

\* What StoreEmbedding, in either of its uses, does to the tables.
LEMMA StoreOK ==
    ASSUME Base, StoreStep
    PROVE  /\ ItemTypes'
           /\ gen \in Generations /\ work \in Chunks /\ response \in Spaces
           /\ item'[gen][work] = "succeeded" /\ vector'[gen][work] = response
           /\ \A g \in Generations, c \in Chunks : g # gen \/ c # work =>
                 item'[g][c] = item[g][c] /\ vector'[g][c] = vector[g][c]
<1>1. /\ pc = "store"
      /\ item' = [item EXCEPT ![gen][work] = "succeeded"]
      /\ vector' = [vector EXCEPT ![gen][work] = response]
  BY DEF StoreStep, StoreFirst, StoreNext, StoreEmbedding, SetItem
<1>2. gen \in Generations /\ work \in Chunks /\ response \in Spaces
  BY <1>1 DEF Base, JobShape
<1>3. ItemTypes /\ "succeeded" \in ItemStatus
  BY DEF Base, TypeOK, ItemTypes, ItemStatus
<1>4. /\ item' \in [Generations -> [Chunks -> ItemStatus]]
      /\ item'[gen][work] = "succeeded"
      /\ \A g \in Generations, c \in Chunks : g # gen \/ c # work => item'[g][c] = item[g][c]
  BY <1>1, <1>2, <1>3, TableOK DEF ItemTypes
<1>5. /\ vector' \in [Generations -> [Chunks -> Spaces \cup {NoSpace}]]
      /\ vector'[gen][work] = response
      /\ \A g \in Generations, c \in Chunks : g # gen \/ c # work => vector'[g][c] = vector[g][c]
  BY <1>1, <1>2, <1>3, TableOK DEF ItemTypes
<1> QED
  BY <1>2, <1>4, <1>5 DEF ItemTypes

\* The other changes of items: an item that succeeds keeps its vector.
LEMMA ItemKept ==
    ASSUME Base, [Next]_vars, ~StoreStep
    PROVE  /\ ItemTypes'
           /\ \A g \in Generations, c \in Chunks :
                item'[g][c] = "succeeded" => item[g][c] = "succeeded" /\ vector'[g][c] = vector[g][c]
<1> DEFINE Kept == \A g \in Generations, c \in Chunks :
                item'[g][c] = "succeeded" => item[g][c] = "succeeded" /\ vector'[g][c] = vector[g][c]
<1>0. /\ ItemTypes /\ "none" \in ItemStatus /\ "pending" \in ItemStatus /\ "failed" \in ItemStatus
      /\ pc # "idle" => gen \in Generations
      /\ pc \in {"fence", "store", "failed"} => work \in Chunks
  BY DEF Base, TypeOK, ItemTypes, ItemStatus, JobShape
<1> USE DEF ItemTypes
<1>1. CASE UNCHANGED itemVars
  BY <1>0, <1>1 DEF itemVars
<1>2. ASSUME NEW s \in Sources, NEW gone \in SUBSET Chunks, delete_document(s, gone)
      PROVE  ItemTypes' /\ Kept
  BY <1>0, <1>2 DEF delete_document
<1>3. ASSUME UNCHANGED vector, gen \in Generations, NEW c \in Chunks,
             NEW new \in {"none", "pending", "failed"},
             item' = [item EXCEPT ![gen][c] = new]
      PROVE  ItemTypes' /\ Kept
  BY <1>0, <1>3, TableOK
<1>4. ASSUME NEW c \in Chunks, ClaimChunk(c) PROVE ItemTypes' /\ Kept
  BY <1>0, <1>3, <1>4 DEF ClaimChunk
<1>5. CASE FenceDrops
  BY <1>0, <1>3, <1>5 DEF FenceDrops, SetItem
<1>6. CASE ModelIdentityChanged
  BY <1>0, <1>3, <1>6 DEF ModelIdentityChanged, SetItem
<1>7. CASE ChunkFailed
  <2>1. UNCHANGED vector
    BY <1>7 DEF ChunkFailed
  <2>2. PICK new \in {"none", "failed"} : item' = [item EXCEPT ![gen][work] = new]
    <3>1. CASE item[gen][work] = "none"
      BY <1>0, <1>7, <3>1 DEF ChunkFailed
    <3>2. CASE item[gen][work] # "none"
      BY <1>0, <1>7, <3>2 DEF ChunkFailed
    <3> QED
      BY <3>1, <3>2
  <2> QED
    BY <1>0, <1>3, <1>7, <2>1, <2>2 DEF ChunkFailed
<1>8. CASE pc = "settle" /\ Settles
  BY <1>0, <1>8 DEF Settles
<1> QED
  BY <1>1, <1>2, <1>4, <1>5, <1>6, <1>7, <1>8, ItemSteps

QueryType ==
    query \in [step : {"idle", "ask", "compare"}, gen : 0..MaxGenerations,
               space : Spaces \cup {NoSpace}]

\* A search loads an active generation, and forgets it in the end.
LEMMA QuerySteps ==
    ASSUME Base, [Next]_vars
    PROVE  /\ QueryType'
           /\ \/ query'.step = "idle"
              \/ query'.gen = query.gen /\ query'.space = query.space /\ query.step # "idle"
              \/ \E g \in Active : query'.gen = g /\ query'.space = space[g] /\ UNCHANGED indexVars
<1>0. QueryType
  BY DEF Base, TypeOK, QueryType
<1>1. \/ UNCHANGED query \/ SearchEnds \/ SearchEmbeds \/ SearchLoads
  BY DEF Next, vars, Owner, OwnerFrame, update_source, update_mappings, save_privacy, create_document,
       append_content, delete_document, Requests, RequestFrame, reindex, ExistingGeneration,
       RequestGoesOn, NewGeneration,
       create_generation, requestVars,
       index_pending_chunks, JobDies, JobFrame, Start, ConfigForbidden, ConfigFails,
       ConfigAllowed, ClaimChunk, ClaimNothing, ClaimEnds, PruneItems, FinishFails, Settles,
       activate_generation, FenceLocks, FenceDrops, ConsentWithdrawn, ConsentRead, ChunkRefused,
       Embed, EmbedFails, StoreFirst, StoreNext, StoreEmbedding, ModelIdentityChanged, ChunkFailed
<1>2. CASE UNCHANGED query
  BY <1>0, <1>2 DEF QueryType
<1>3. CASE SearchEnds
  BY <1>3 DEF SearchEnds, NoQuery, QueryType
<1>4. CASE SearchEmbeds
  BY <1>0, <1>4 DEF SearchEmbeds, QueryType
<1>5. CASE SearchLoads
  <2>1. PICK g \in Active : query' = [step |-> "ask", gen |-> g, space |-> space[g]]
    BY <1>5 DEF SearchLoads
  <2>2. g \in 0..MaxGenerations /\ space[g] \in Spaces \cup {NoSpace}
    BY DEF Active, Generations, Base, TypeOK
  <2> QED
    BY <1>5, <2>1, <2>2 DEF SearchLoads, SearchFrame, QueryType
<1> QED
  BY <1>1, <1>2, <1>3, <1>4, <1>5

LEMMA LateSteps ==
    ASSUME [Next]_vars
    PROVE  \/ UNCHANGED <<late, consent>>
           \/ save_privacy
           \/ \E r \in Spaces : Embed(r)
           \/ EmbedFails
BY DEF Next, vars, Owner, OwnerFrame, update_source, update_mappings, create_document,
       append_content, delete_document, Requests, RequestFrame, reindex, ExistingGeneration,
       RequestGoesOn, NewGeneration,
       create_generation, SearchLoads, SearchEmbeds, SearchEnds, SearchFrame, ownerVars,
       index_pending_chunks, JobDies, JobFrame, Start, ConfigForbidden, ConfigFails,
       ConfigAllowed, ClaimChunk, ClaimNothing, ClaimEnds, PruneItems, FinishFails, Settles,
       activate_generation, FenceLocks, FenceDrops, ConsentWithdrawn, ConsentRead, ChunkRefused,
       StoreFirst, StoreNext, StoreEmbedding, ModelIdentityChanged, ChunkFailed

\* A generation is made only beside none in progress, and one that is activated
\* retires the active one.
LEMMA UniqueKept ==
    ASSUME Base, [Next]_vars
    PROVE  Unique'
<1>0. Unique /\ status \in [Generations -> GenerationStatus] /\ (pc # "idle" => gen \in Generations)
  BY DEF Base, TypeOK, JobShape
<1> USE DEF Unique
<1>1. CASE create_generation
  BY <1>0, <1>1 DEF create_generation, RequestGoesOn, NewGeneration, InProgress
<1>2. CASE UNCHANGED status
  BY <1>0, <1>2
<1>3. CASE FailGeneration
  BY <1>0, <1>3 DEF FailGeneration
<1>4. ASSUME NEW c \in Chunks, ClaimChunk(c) PROVE Unique'
  BY <1>0, <1>4 DEF ClaimChunk
<1>5. CASE activate_generation
  BY <1>0, <1>5 DEF activate_generation
<1> QED
  BY <1>1, <1>2, <1>3, <1>4, <1>5, StatusSteps

LEMMA BaseKept ==
    ASSUME Base, [Next]_vars
    PROVE  Base'
<1>1. late' \in Nat
  <2>1. late \in Nat
    BY DEF Base, TypeOK
  <2> QED
    BY <2>1, LateSteps DEF save_privacy, Embed, EmbedFails, ContentSent
<1>2. ItemTypes'
  BY StoreOK, ItemKept
<1>3. QueryType'
  BY QuerySteps
<1>4. TypeOK'
  BY <1>1, <1>2, <1>3, OwnerTypesKept, IndexTypesKept, JobTypesKept
  DEF TypeOK, OwnerTypes, IndexTypes, JobTypes, ItemTypes, QueryType
<1> QED
  BY <1>4, JobTypesKept, UniqueKept DEF Base

-----------------------------------------------------------------------------
(* The parts of the invariant. *)

\* The space is set once, when nothing has succeeded yet, and is what the
\* first response says; the others are compared with it.
LEMMA SpaceKept ==
    ASSUME Base, SpaceInv, ResponseInv, [Next]_vars
    PROVE  /\ SpaceInv'
           /\ \A g \in Generations : space[g] # NoSpace => space'[g] = space[g]
<1>0. /\ space \in [Generations -> Spaces \cup {NoSpace}]
      /\ status \in [Generations -> GenerationStatus]
      /\ pc # "idle" => gen \in Generations
  BY DEF Base, TypeOK, JobShape
<1>1. \A g \in Generations : space[g] # NoSpace => space'[g] = space[g]
  BY <1>0, SpaceSteps DEF StoreFirst
<1>2. \A g \in Generations : status'[g] = "active" => space'[g] # NoSpace
  <2>1. ASSUME NEW g \in Generations, status'[g] = "active"
        PROVE  space[g] # NoSpace
    <3>1. status[g] = "active" => space[g] # NoSpace
      BY DEF SpaceInv
    <3>2. CASE create_generation
      BY <1>0, <2>1, <3>1, <3>2 DEF create_generation, RequestGoesOn, NewGeneration
    <3>3. CASE FailGeneration
      BY <1>0, <2>1, <3>1, <3>3 DEF FailGeneration
    <3>4. ASSUME NEW c \in Chunks, ClaimChunk(c) PROVE space[g] # NoSpace
      BY <1>0, <2>1, <3>1, <3>4 DEF ClaimChunk
    <3>5. CASE activate_generation
      BY <1>0, <2>1, <3>1, <3>5 DEF activate_generation
    <3> QED
      BY <2>1, <3>1, <3>2, <3>3, <3>4, <3>5, StatusSteps
  <2> QED
    BY <1>1, <2>1
<1>3. ASSUME NEW g \in Generations, NEW c \in Chunks, item'[g][c] = "succeeded"
      PROVE  vector'[g][c] = space'[g] /\ space'[g] # NoSpace
  <2>1. CASE ~StoreStep
    BY <1>1, <1>3, <2>1, ItemKept DEF SpaceInv
  <2>2. CASE StoreStep /\ (g # gen \/ c # work)
    BY <1>1, <1>3, <2>2, StoreOK DEF SpaceInv
  <2>3. CASE StoreStep /\ g = gen /\ c = work
    <3>1. response \in Spaces /\ vector'[g][c] = response
      BY <2>3, StoreOK
    <3>2. CASE StoreFirst
      BY <1>0, <2>3, <3>1, <3>2, NoSpaceIsNone DEF StoreFirst
    <3>3. CASE StoreNext
      <4>1. /\ space[gen] \in Spaces /\ space' = space
            /\ response.identity = space[gen].identity
            /\ response.dimensions = space[gen].dimensions
        BY <1>0, <2>3, <3>3 DEF StoreNext, ResponseInv
      <4> QED
        BY <2>3, <3>1, <4>1, NoSpaceIsNone DEF Spaces
    <3> QED
      BY <2>3, <3>2, <3>3 DEF StoreStep
  <2> QED
    BY <2>1, <2>2, <2>3
<1> QED
  BY <1>1, <1>2, <1>3 DEF SpaceInv

\* The generation has no other space when the answer comes.
LEMMA ResponseKept ==
    ASSUME Base, ResponseInv, [Next]_vars
    PROVE  ResponseInv'
<1> USE DEF ResponseInv
<1>1. CASE StoreStep
  BY <1>1 DEF StoreStep, StoreFirst, StoreNext, StoreEmbedding, Goto
<1>2. CASE ~StoreStep
  <2>1. UNCHANGED space
    BY <1>2, SpaceSteps DEF StoreStep
  <2>2. ASSUME NEW r \in Spaces, Embed(r) PROVE ResponseInv'
    BY <2>1, <2>2 DEF Embed
  <2> QED
    BY <1>2, <2>1, <2>2, JobSteps
    DEF jobVars, JobEnds, Start, ConfigAllowed, ClaimNothing, PruneItems, ClaimChunk, FenceLocks,
        FenceDrops, ConsentRead, ChunkRefused, EmbedFails, ChunkFailed, Goto
<1> QED
  BY <1>1, <1>2

\* Whatever becomes of the generation meanwhile, it keeps its space.
LEMMA QueryKept ==
    ASSUME Base, SpaceInv, ResponseInv, QueryInv, [Next]_vars
    PROVE  QueryInv'
<1>1. \A g \in Generations : space[g] # NoSpace => space'[g] = space[g]
  BY SpaceKept
<1>2. ASSUME NEW g \in Active, query'.gen = g, query'.space = space[g], UNCHANGED indexVars
      PROVE  QueryInv'
  BY <1>2 DEF QueryInv, SpaceInv, Active, indexVars
<1>3. CASE query'.gen = query.gen /\ query'.space = query.space /\ query.step # "idle"
  BY <1>1, <1>3 DEF QueryInv
<1>4. CASE query'.step = "idle"
  BY <1>4 DEF QueryInv
<1> QED
  BY <1>2, <1>3, <1>4, QuerySteps

\* A document's chunk becomes no "deleted" one, and its source keeps its
\* status, unless its source's lock is free.
LEMMA SourceSteps ==
    ASSUME Base, [Next]_vars
    PROVE  \/ UNCHANGED <<source, chunk>>
           \/ /\ \A c \in Chunks : Locked(SourceOf[c]) =>
                    source'[SourceOf[c]] = source[SourceOf[c]]
              /\ \A c \in Chunks : Locked(SourceOf[c]) /\ chunk[c] # "deleted" => chunk'[c] # "deleted"
              /\ \A c \in Chunks : chunk[c] = "deleted" => chunk'[c] = "deleted"
              /\ UNCHANGED jobVars
<1>0. source \in [Sources -> SourceStatus] /\ chunk \in [Chunks -> ChunkState]
  BY DEF Base, TypeOK
<1> DEFINE Goal == /\ \A c \in Chunks : Locked(SourceOf[c]) =>
                         source'[SourceOf[c]] = source[SourceOf[c]]
                   /\ \A c \in Chunks : Locked(SourceOf[c]) /\ chunk[c] # "deleted" => chunk'[c] # "deleted"
                   /\ \A c \in Chunks : chunk[c] = "deleted" => chunk'[c] = "deleted"
                   /\ UNCHANGED jobVars
<1>1. ASSUME NEW s \in Sources, NEW new \in SourceStatus, update_source(s, new)
      PROVE  Goal
  BY <1>0, <1>1 DEF update_source, OwnerFrame
<1>2. CASE (\E m \in Models : update_mappings(m)) \/ save_privacy
  BY <1>2 DEF update_mappings, save_privacy
<1>3. ASSUME NEW c \in Chunks, create_document(c)
      PROVE  Goal
  BY <1>0, <1>3 DEF create_document, OwnerFrame, ownerVars
<1>4. ASSUME NEW c \in Chunks, NEW fresh \in SUBSET Chunks, append_content(c, fresh)
      PROVE  Goal
  BY <1>0, <1>4 DEF append_content, OwnerFrame, ownerVars, Current
<1>5. ASSUME NEW s \in Sources, NEW gone \in SUBSET Chunks, delete_document(s, gone)
      PROVE  Goal
  BY <1>0, <1>5 DEF delete_document, OwnerFrame, ownerVars
<1>6. ASSUME Requests \/ index_pending_chunks \/ JobDies \/ UNCHANGED vars
      PROVE  UNCHANGED <<source, chunk>>
  BY <1>6 DEF vars, Requests, RequestFrame, reindex, ExistingGeneration,
       RequestGoesOn, NewGeneration,
       create_generation, SearchLoads, SearchEmbeds, SearchEnds, SearchFrame, ownerVars,
       index_pending_chunks, JobDies, JobFrame, Start, ConfigForbidden, ConfigFails,
       ConfigAllowed, ClaimChunk, ClaimNothing, ClaimEnds, PruneItems, FinishFails, Settles,
       activate_generation, FenceLocks, FenceDrops, ConsentWithdrawn, ConsentRead, ChunkRefused,
       Embed, EmbedFails, StoreFirst, StoreNext, StoreEmbedding, ModelIdentityChanged, ChunkFailed
<1> QED
  BY <1>1, <1>2, <1>3, <1>4, <1>5, <1>6 DEF Next, Owner

LEMMA FenceKept ==
    ASSUME Base, FenceInv, [Next]_vars
    PROVE  FenceInv'
<1>0. pc \in {"fence", "consent", "send", "store"} => work \in Chunks
  BY DEF Base, JobShape
<1>1. CASE UNCHANGED jobVars
  BY <1>0, <1>1, SourceSteps DEF FenceInv, SourceActive, Locked, jobVars
<1>2. CASE ~UNCHANGED jobVars
  <2>1. UNCHANGED <<source, chunk>>
    BY <1>2, SourceSteps
  <2>2. CASE FenceLocks
    BY <2>1, <2>2 DEF FenceLocks, Goto, FenceInv, Eligible, Current, SourceActive
  <2>3. ASSUME NEW r \in Spaces, Embed(r) PROVE FenceInv'
    BY <2>1, <2>3 DEF Embed, FenceInv, SourceActive
  <2>4. CASE ConsentRead
    BY <2>1, <2>4 DEF ConsentRead, Goto, FenceInv, SourceActive
  <2> QED
    BY <1>2, <2>2, <2>3, <2>4, JobSteps
    DEF FenceInv, JobEnds, Start, ConfigAllowed, ClaimNothing, PruneItems, ClaimChunk,
        FenceDrops, ChunkRefused, EmbedFails, ChunkFailed, Goto,
        StoreStep, StoreFirst, StoreNext, StoreEmbedding
<1> QED
  BY <1>1, <1>2

LEMMA ConsentKept ==
    ASSUME Base, ConsentInv, [Next]_vars
    PROVE  ConsentInv'
<1> USE DEF ConsentInv
<1>1. CASE save_privacy
  BY <1>1 DEF save_privacy
<1>2. CASE EmbedFails \/ \E r \in Spaces : Embed(r)
  BY <1>2 DEF EmbedFails, Embed, ContentSent, Goto, JobFrame, ownerVars
<1>3. CASE UNCHANGED <<late, consent>>
  <2>1. pc' = "send" => pc = "send" \/ consent
    BY JobSteps
    DEF jobVars, JobEnds, Start, ConfigAllowed, ClaimNothing, PruneItems, ClaimChunk, FenceLocks,
        FenceDrops, ConsentRead, ChunkRefused, Embed, EmbedFails, ChunkFailed, Goto,
        StoreStep, StoreFirst, StoreNext, StoreEmbedding
  <2> QED
    BY <1>3, <2>1
<1> QED
  BY <1>1, <1>2, <1>3, LateSteps

\* Beside the job only a deletion takes an item away, and that chunk is deleted
\* for good.
LEMMA SeenKept ==
    ASSUME Base, SeenInv, [Next]_vars
    PROVE  SeenInv'
<1>0. /\ item \in [Generations -> [Chunks -> ItemStatus]]
      /\ pc # "idle" => gen \in Generations
      /\ seen \subseteq Chunks
  BY DEF Base, TypeOK, JobShape
<1> USE DEF SeenInv
<1>1. CASE UNCHANGED jobVars /\ UNCHANGED itemVars
  BY <1>0, <1>1, SourceSteps DEF jobVars, itemVars
<1>2. ASSUME UNCHANGED jobVars, NEW s \in Sources, NEW gone \in SUBSET Chunks,
             delete_document(s, gone)
      PROVE  SeenInv'
  BY <1>0, <1>2 DEF delete_document, jobVars
<1>3. CASE UNCHANGED jobVars /\ ~UNCHANGED itemVars
      /\ ~\E s \in Sources : \E gone \in SUBSET Chunks : delete_document(s, gone)
  BY <1>3, ItemSteps
  DEF ClaimChunk, Settles, JobEnds, FenceDrops, StoreStep, StoreFirst, StoreNext, StoreEmbedding,
      ModelIdentityChanged, ChunkFailed, Goto, jobVars
<1>4. CASE ClaimNothing
  <2>1. \A c \in EligibleChunks : item[gen][c] \in {"succeeded", "failed"}
    BY <1>0, <1>4 DEF ClaimNothing, Unindexed, EligibleChunks, ItemStatus
  <2> QED
    BY <1>4, <2>1 DEF ClaimNothing, itemVars
<1>5. CASE PruneItems
  BY <1>0, <1>5 DEF PruneItems, NotSucceeded, EligibleChunks, JobFrame, itemVars
<1>6. CASE ~UNCHANGED jobVars /\ ~ClaimNothing /\ ~PruneItems
  BY <1>6, JobSteps
  DEF JobEnds, Start, ConfigAllowed, ClaimChunk, FenceLocks, FenceDrops, ConsentRead,
      ChunkRefused, Embed, EmbedFails, ChunkFailed, Goto,
      StoreStep, StoreFirst, StoreNext, StoreEmbedding
<1> QED
  BY <1>1, <1>2, <1>3, <1>4, <1>5, <1>6

LEMMA IndexInvKept == IndexInv /\ [Next]_vars => IndexInv'
<1> SUFFICES ASSUME IndexInv, [Next]_vars PROVE IndexInv'
  OBVIOUS
<1>1. Base' /\ SpaceInv' /\ ResponseInv' /\ QueryInv'
  BY BaseKept, SpaceKept, ResponseKept, QueryKept DEF IndexInv
<1>2. FenceInv' /\ ConsentInv' /\ SeenInv'
  BY FenceKept, ConsentKept, SeenKept DEF IndexInv
<1> QED
  BY <1>1, <1>2 DEF IndexInv

-----------------------------------------------------------------------------
(* Theorems. *)

\* The invariant holds of every reachable state.
THEOREM IndexCorrect == Spec => []IndexInv
<1>1. Init => IndexInv
  BY InitIndexInv
<1>2. IndexInv /\ [Next]_vars => IndexInv'
  BY IndexInvKept
<1> QED
  BY <1>1, <1>2, PTL DEF Spec

\* _vector_ids compares a query's embedding with embeddings of its own model
\* and dimensions, through every change of the mapping.
THEOREM SearchComparesLikeWithLikeCorrect == Spec => []SearchComparesLikeWithLike
<1>1. IndexInv => SearchComparesLikeWithLike
  BY DEF IndexInv, SpaceInv, QueryInv, SearchComparesLikeWithLike
<1> QED
  BY <1>1, IndexCorrect, PTL

\* A withdrawal of the consent lets pass the one chunk that is on its way.
THEOREM ConsentIsRereadCorrect == Spec => []ConsentIsReread
<1>1. IndexInv => ConsentIsReread
  BY DEF IndexInv, ConsentInv, ConsentIsReread
<1> QED
  BY <1>1, IndexCorrect, PTL

\* Nothing of a source that has been archived or paused is sent.
THEOREM SendsAreFencedCorrect == Spec => []SendsAreFenced
<1>1. IndexInv => SendsAreFenced
  BY DEF IndexInv, FenceInv, SendsAreFenced
<1> QED
  BY <1>1, IndexCorrect, PTL

\* The advisory lock of create_generation and the retirement of the active
\* generation leave one of each.
THEOREM OneGenerationEachCorrect == Spec => []OneGenerationEach
<1>1. ASSUME NEW S, \A g, h \in S : g = h
      PROVE  Cardinality(S) <= 1
  <2>1. CASE S = {}
    BY <2>1, FS_EmptySet
  <2>2. ASSUME NEW g \in S PROVE Cardinality(S) <= 1
    <3>1. S = {g}
      BY <1>1
    <3>2. Cardinality({g}) = 1
      BY FS_Singleton
    <3> QED
      BY <3>1, <3>2
  <2> QED
    BY <2>1, <2>2
<1>2. IndexInv => OneGenerationEach
  BY <1>1 DEF IndexInv, Base, Unique, OneGenerationEach, Active, InProgress
<1> QED
  BY <1>2, IndexCorrect, PTL

\* activate_generation is called for nothing that lacks a chunk which was eligible
\* all along, although chunks, sources and items change between its reads.
THEOREM ActivatedWhenCompleteCorrect == Spec => ActivatedWhenComplete
<1> DEFINE Complete ==
        \A g \in Generations :
            status[g] # "active" /\ status'[g] = "active" =>
                \A c \in seen : item'[g][c] = "succeeded" \/ chunk[c] = "deleted"
<1>1. ASSUME IndexInv, [Next]_vars PROVE Complete
  <2>0. /\ status \in [Generations -> GenerationStatus]
        /\ item \in [Generations -> [Chunks -> ItemStatus]]
        /\ pc # "idle" => gen \in Generations
        /\ seen \subseteq Chunks
    BY <1>1 DEF IndexInv, Base, TypeOK, JobShape
  <2>1. CASE create_generation
    BY <2>0, <2>1 DEF create_generation, RequestGoesOn, NewGeneration
  <2>2. CASE FailGeneration
    BY <2>0, <2>2 DEF FailGeneration
  <2>3. ASSUME NEW c \in Chunks, ClaimChunk(c) PROVE Complete
    BY <2>0, <2>3 DEF ClaimChunk
  <2>4. CASE activate_generation
    <3>1. \A c \in seen : c \notin dropped /\ c \notin NotSucceeded
      BY <1>1, <2>4 DEF activate_generation, IndexInv, SeenInv
    <3>2. \A c \in seen : item[gen][c] = "succeeded" \/ chunk[c] = "deleted"
      BY <1>1, <2>0, <2>4, <3>1 DEF activate_generation, NotSucceeded, IndexInv, SeenInv
    <3>3. \A c \in seen : item'[gen][c] = item[gen][c]
      BY <2>0, <2>4, <3>1 DEF activate_generation, Settles
    <3>4. \A g \in Generations : status[g] # "active" /\ status'[g] = "active" => g = gen
      BY <2>0, <2>4 DEF activate_generation
    <3> QED
      BY <3>2, <3>3, <3>4
  <2>5. CASE UNCHANGED status
    BY <2>5
  <2> QED
    BY <1>1, <2>1, <2>2, <2>3, <2>4, <2>5, StatusSteps
<1> QED
  BY <1>1, IndexCorrect, PTL DEF Spec, ActivatedWhenComplete

=============================================================================
