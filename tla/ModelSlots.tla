----------------------------- MODULE ModelSlots -----------------------------
(***************************************************************************)
(* The slots of the model gateway: every request of the API and of the     *)
(* worker takes one of a few keys in Redis before it talks to the provider *)
(* and gives it back afterwards.                                           *)
(*                                                                         *)
(* asyncio.timeout bounds the wait for a slot and the call together.  It   *)
(* fires when the event loop gets to it: at most Slack too late.  A key    *)
(* lives Grace longer than that timeout.  One unit of time is a second of  *)
(* the code or more.  Every request is one entry of _slot and has a token  *)
(* of its own, so the request itself stands for the token.                 *)
(***************************************************************************)
EXTENDS Integers, FiniteSets

CONSTANTS
    Requests,
    NoRequest,
    SlotCount,  \* keys: 2
    Timeout,    \* [Requests -> Nat]: ModelGateway.timeout_seconds
    Grace,      \* what a key lives longer: 10 seconds
    Slack,      \* the longest an event loop is held up
    MaxLosses   \* bound: Redis loses its data

ASSUME SlotsAssumption ==
    /\ NoRequest \notin Requests
    /\ SlotCount \in Nat \ {0}
    /\ Timeout \in [Requests -> Nat]
    /\ Grace \in Nat
    /\ Slack \in Nat
    /\ Slack < Grace
    /\ MaxLosses \in Nat

VARIABLES
    holder,    \* [Slots -> Requests \cup {NoRequest}]: the token under the key
    ttl,       \* [Slots -> Nat]: the time the key has left, 0 for none or without end
    pc,        \* [Requests -> Steps]
    slot,      \* [Requests -> Slots]: the slot tried next, then the one held
    left,      \* [Requests -> Int]: the time asyncio.timeout has left
    orphaned,  \* auxiliary: requests that send after Redis has lost their key
    losses

vars == <<holder, ttl, pc, slot, left, orphaned, losses>>

Slots == 0..SlotCount - 1
Steps == {"new", "try", "send", "release", "done"}

\* Mutated form of Lifetime: the key lives as long as the timeout.
BareLifetime(r) == Timeout[r]

Lifetime(r) == Timeout[r] + Grace

TypeOK ==
    /\ holder \in [Slots -> Requests \cup {NoRequest}]
    /\ ttl \in [Slots -> Nat]
    /\ pc \in [Requests -> Steps]
    /\ slot \in [Requests -> Slots]
    /\ left \in [Requests -> Int]
    /\ orphaned \subseteq Requests
    /\ losses \in 0..MaxLosses

Init ==
    /\ holder = [s \in Slots |-> NoRequest]
    /\ ttl = [s \in Slots |-> 0]
    /\ pc = [r \in Requests |-> "new"]
    /\ slot = [r \in Requests |-> 0]
    /\ left = [r \in Requests |-> 0]
    /\ orphaned = {}
    /\ losses = 0

RedisFrame == UNCHANGED <<holder, ttl>>

-----------------------------------------------------------------------------
(* A request: _slot, and its body, the call of the provider. *)

Enter(r) ==
    /\ pc[r] = "new"
    /\ pc' = [pc EXCEPT ![r] = "try"]
    /\ left' = [left EXCEPT ![r] = Timeout[r]]
    /\ RedisFrame
    /\ UNCHANGED <<slot, orphaned, losses>>

\* The call is over; what it knew is forgotten with the step it is left for.
Leave(r, step) ==
    /\ pc' = [pc EXCEPT ![r] = step]
    /\ slot' = [slot EXCEPT ![r] = IF step = "release" THEN @ ELSE 0]
    /\ left' = [left EXCEPT ![r] = 0]
    /\ orphaned' = orphaned \ {r}
    /\ UNCHANGED losses

\* The key exists: the next one, or after a pause the first one again.
Taken(r) ==
    /\ pc[r] = "try"
    /\ holder[slot[r]] # NoRequest
    /\ slot' = [slot EXCEPT ![r] = (@ + 1) % SlotCount]
    /\ RedisFrame
    /\ UNCHANGED <<pc, left, orphaned, losses>>

\* Mutated form of SetKey: the key is set without a lifetime.
SetKeyForGood(r) ==
    /\ pc[r] = "try"
    /\ holder[slot[r]] = NoRequest
    /\ holder' = [holder EXCEPT ![slot[r]] = r]
    /\ UNCHANGED ttl

\* Redis runs SET NX EX for a key that does not exist.
SetKey(r) ==
    /\ pc[r] = "try"
    /\ holder[slot[r]] = NoRequest
    /\ holder' = [holder EXCEPT ![slot[r]] = r]
    /\ ttl' = [ttl EXCEPT ![slot[r]] = Lifetime(r)]

TakeSlot(r) ==
    /\ SetKey(r)
    /\ pc' = [pc EXCEPT ![r] = "send"]
    /\ UNCHANGED <<slot, left, orphaned, losses>>

\* The answer does not arrive, or the timeout strikes before it does: the
\* request gives up and nobody releases the key.
SetAnswerLost(r) == SetKey(r) /\ Leave(r, "done")

\* Redis cannot be reached.
SetFails(r) ==
    /\ pc[r] = "try"
    /\ Leave(r, "done")
    /\ RedisFrame

\* The provider has answered, or the call has failed or been cancelled.
Sent(r) ==
    /\ pc[r] = "send"
    /\ Leave(r, "release")
    /\ RedisFrame

TimesOut(r) ==
    /\ pc[r] \in {"try", "send"}
    /\ left[r] <= 0
    /\ Leave(r, IF pc[r] = "send" THEN "release" ELSE "done")
    /\ RedisFrame

\* Mutated form of Release: the key is deleted whatever token it has.
ReleaseAny(r) ==
    /\ pc[r] = "release"
    /\ holder' = [holder EXCEPT ![slot[r]] = NoRequest]
    /\ ttl' = [ttl EXCEPT ![slot[r]] = 0]
    /\ Leave(r, "done")

\* The script compares the token; it may run long after the key has expired.
Release(r) ==
    /\ pc[r] = "release"
    /\ IF holder[slot[r]] = r
       THEN /\ holder' = [holder EXCEPT ![slot[r]] = NoRequest]
            /\ ttl' = [ttl EXCEPT ![slot[r]] = 0]
       ELSE RedisFrame
    /\ Leave(r, "done")

ReleaseFails(r) ==
    /\ pc[r] = "release"
    /\ Leave(r, "done")
    /\ RedisFrame

\* The process is killed.
Dies(r) ==
    /\ pc[r] \in {"try", "send", "release"}
    /\ Leave(r, "done")
    /\ RedisFrame

-----------------------------------------------------------------------------
(* Time and Redis. *)

Running == {r \in Requests : pc[r] \in {"try", "send"}}

Tick ==
    /\ \A r \in Running : left[r] + Slack > 0
    /\ left' = [r \in Requests |-> IF r \in Running THEN left[r] - 1 ELSE left[r]]
    /\ ttl' = [s \in Slots |-> IF ttl[s] > 0 THEN ttl[s] - 1 ELSE 0]
    /\ holder' = [s \in Slots |-> IF ttl[s] = 1 THEN NoRequest ELSE holder[s]]
    /\ UNCHANGED <<pc, slot, orphaned, losses>>

RedisLoss ==
    /\ losses < MaxLosses
    /\ losses' = losses + 1
    /\ holder' = [s \in Slots |-> NoRequest]
    /\ ttl' = [s \in Slots |-> 0]
    /\ orphaned' = orphaned \cup {r \in Requests : pc[r] = "send"}
    /\ UNCHANGED <<pc, slot, left>>

Request(r) ==
    \/ Enter(r) \/ Taken(r) \/ TakeSlot(r) \/ SetAnswerLost(r) \/ SetFails(r)
    \/ Sent(r) \/ TimesOut(r) \/ Release(r) \/ ReleaseFails(r) \/ Dies(r)

Next == (\E r \in Requests : Request(r)) \/ Tick \/ RedisLoss

Spec == Init /\ [][Next]_vars

\* Time passes, the timeout fires, and the release is tried.
Fairness ==
    /\ WF_vars(Tick)
    /\ \A r \in Requests : WF_vars(TimesOut(r)) /\ WF_vars(Release(r))

FairSpec == Spec /\ Fairness

-----------------------------------------------------------------------------
(* Properties. *)

\* The requests that talk to the provider and have not lost their key.
Active == {r \in Requests : pc[r] = "send"} \ orphaned

\* The cap is shared by all clients of the gateway: not more than SlotCount
\* requests talk to the provider, those apart whose keys Redis forgot.  No key
\* expires, and none is released by another request, while its holder sends.
CapRespected ==
    /\ Cardinality(Active) <= SlotCount
    /\ \A r \in Active : holder[slot[r]] = r

\* The slots implement the cap.
Cap == INSTANCE RequestCap WITH active <- Active, Cap <- SlotCount
ImplementsCap == Cap!Spec

\* A key that its request has left behind does not block its slot for ever.
SlotsComeBack ==
    \A s \in Slots : \A r \in Requests :
        (holder[s] = r /\ pc[r] = "done") ~> holder[s] # r

=============================================================================
