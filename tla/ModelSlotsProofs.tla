-------------------------- MODULE ModelSlotsProofs ---------------------------
(* ModelSlots: the cap holds, and the slots implement RequestCap. *)
EXTENDS ModelSlots, FiniteSetTheorems, TLAPS

\* An active request holds the key of its slot, and the key outlives its
\* timeout by the Grace.
HoldsKey == \A r \in Active :
    holder[slot[r]] = r /\ ttl[slot[r]] >= left[r] + Grace

\* The timeout of a running request has not been missed by more than Slack.
Timely == \A r \in Running : left[r] <= Timeout[r] /\ left[r] + Slack >= 0

IInv == TypeOK /\ HoldsKey /\ Timely

\* Requests that hold the keys of their slots are at most as many as the slots.
LEMMA HoldersFit ==
    ASSUME NEW A, NEW h, NEW s \in [Requests -> Slots],
           A \subseteq Requests, \A r \in A : h[s[r]] = r
    PROVE  IsFiniteSet(A) /\ Cardinality(A) <= SlotCount
<1> DEFINE f == [r \in A |-> s[r]]
<1>1. IsFiniteSet(Slots) /\ Cardinality(Slots) = SlotCount
  BY FS_Interval, SlotsAssumption DEF Slots
<1>2. f \in Injection(A, Slots)
  BY DEF Injection, IsInjective
<1>3. IsFiniteSet(A) /\ Cardinality(A) <= Cardinality(Slots)
  BY ONLY <1>1, <1>2, FS_Injection
<1> QED
  BY <1>1, <1>3

-----------------------------------------------------------------------------

\* The invariant holds initially: no request runs.
LEMMA InvariantInit == Init => IInv
  BY SlotsAssumption DEF Init, IInv, TypeOK, HoldsKey, Timely, Active, Running, Slots, Steps

\* A request that leaves its step stays within the types.
LEMMA LeaveTypes ==
    ASSUME TypeOK, NEW r \in Requests, NEW step \in {"release", "done"}, Leave(r, step)
    PROVE  /\ pc' \in [Requests -> Steps] /\ slot' \in [Requests -> Slots]
           /\ left' \in [Requests -> Int] /\ orphaned' \subseteq Requests
           /\ losses' \in 0..MaxLosses
  BY SlotsAssumption DEF TypeOK, Leave, Steps, Slots

\* Every step keeps the types.
LEMMA TypeStep == TypeOK /\ [Next]_vars => TypeOK'
<1> SUFFICES ASSUME TypeOK, [Next]_vars PROVE TypeOK'
  OBVIOUS
<1> USE SlotsAssumption
<1>1. CASE UNCHANGED vars
  BY <1>1 DEF vars, TypeOK
<1>2. ASSUME NEW r \in Requests, Request(r) PROVE TypeOK'
  <2>1. CASE Enter(r)
    BY <2>1 DEF Enter, RedisFrame, TypeOK, Steps
  <2>2. CASE Taken(r)
    <3>1. (slot[r] + 1) % SlotCount \in Slots
      BY DEF TypeOK, Slots
    <3> QED
      BY <2>2, <3>1 DEF Taken, RedisFrame, TypeOK
  <2>3. CASE TakeSlot(r)
    BY <2>3 DEF TakeSlot, SetKey, Lifetime, TypeOK, Steps
  <2>4. CASE SetAnswerLost(r)
    <3>1. Leave(r, "done")
      BY <2>4 DEF SetAnswerLost
    <3>2. holder' \in [Slots -> Requests \cup {NoRequest}] /\ ttl' \in [Slots -> Nat]
      BY <2>4 DEF SetAnswerLost, SetKey, Lifetime, TypeOK
    <3> QED
      BY <3>1, <3>2, LeaveTypes DEF TypeOK
  <2>5. CASE SetFails(r) \/ Sent(r) \/ ReleaseFails(r) \/ Dies(r) \/ TimesOut(r)
    <3>1. \E step \in {"release", "done"} : Leave(r, step)
      BY <2>5 DEF SetFails, Sent, ReleaseFails, Dies, TimesOut
    <3>2. RedisFrame
      BY <2>5 DEF SetFails, Sent, ReleaseFails, Dies, TimesOut
    <3> QED
      BY <3>1, <3>2, LeaveTypes DEF RedisFrame, TypeOK
  <2>6. CASE Release(r)
    <3>1. Leave(r, "done")
      BY <2>6 DEF Release
    <3>2. holder' \in [Slots -> Requests \cup {NoRequest}] /\ ttl' \in [Slots -> Nat]
      BY <2>6 DEF Release, RedisFrame, TypeOK
    <3> QED
      BY <3>1, <3>2, LeaveTypes DEF TypeOK
  <2> QED
    BY <1>2, <2>1, <2>2, <2>3, <2>4, <2>5, <2>6 DEF Request
<1>3. CASE Tick
  BY <1>3 DEF Tick, TypeOK
<1>4. CASE RedisLoss
  BY <1>4 DEF RedisLoss, TypeOK
<1> QED
  BY <1>1, <1>2, <1>3, <1>4 DEF Next

\* A request that leaves neither joins the active or running ones nor changes
\* what the others know.
LEMMA LeaveShrinks ==
    ASSUME TypeOK, NEW r \in Requests, NEW step \in {"release", "done"}, Leave(r, step)
    PROVE  /\ Active' = Active \ {r} /\ Running' = Running \ {r}
           /\ \A q \in Requests \ {r} : slot'[q] = slot[q] /\ left'[q] = left[q]
  BY DEF TypeOK, Leave, Active, Running

\* Every step keeps the keys of the active requests and the timers in time.
LEMMA HeldStep == IInv /\ [Next]_vars => HoldsKey' /\ Timely'
<1> SUFFICES ASSUME IInv, [Next]_vars PROVE HoldsKey' /\ Timely'
  OBVIOUS
<1> USE SlotsAssumption DEF IInv
<1>1. CASE UNCHANGED vars
  BY <1>1 DEF vars, HoldsKey, Timely, Active, Running
<1>2. ASSUME NEW r \in Requests, Request(r) PROVE HoldsKey' /\ Timely'
  <2>1. CASE Enter(r)
    <3>1. Active' = Active /\ Running' = Running \cup {r}
      BY <2>1 DEF Enter, Active, Running, TypeOK
    <3>2. HoldsKey'
      BY <2>1, <3>1 DEF Enter, RedisFrame, HoldsKey, Active, TypeOK
    <3>3. Timely'
      BY <2>1, <3>1 DEF Enter, Timely, TypeOK, Running
    <3> QED
      BY <3>2, <3>3
  <2>2. CASE Taken(r)
    BY <2>2 DEF Taken, RedisFrame, HoldsKey, Timely, Active, Running, TypeOK
  <2>3. CASE TakeSlot(r)
    <3>1. Active' \subseteq Active \cup {r} /\ Running' = Running /\ r \in Running
      BY <2>3 DEF TakeSlot, SetKey, Active, Running, TypeOK
    <3>2. ASSUME NEW q \in Active, q # r PROVE slot[q] # slot[r]
      BY <2>3, <3>2 DEF TakeSlot, SetKey, HoldsKey, Active, TypeOK
    <3>3. slot' = slot /\ left' = left /\ slot[r] \in Slots
      BY <2>3 DEF TakeSlot, TypeOK
    <3>4. holder'[slot[r]] = r /\ ttl'[slot[r]] = Lifetime(r)
      BY <2>3, <3>3 DEF TakeSlot, SetKey, TypeOK
    <3>5. ASSUME NEW q \in Active, q # r
          PROVE  holder'[slot[q]] = holder[slot[q]] /\ ttl'[slot[q]] = ttl[slot[q]]
      BY <2>3, <3>2, <3>3, <3>5 DEF TakeSlot, SetKey, TypeOK, Active
    <3>6. ttl'[slot[r]] >= left[r] + Grace
      BY <3>1, <3>4 DEF Timely, Lifetime, TypeOK
    <3>7. HoldsKey'
      BY <3>1, <3>3, <3>4, <3>5, <3>6 DEF HoldsKey
    <3>8. Timely'
      BY <3>1, <3>3 DEF Timely
    <3> QED
      BY <3>7, <3>8
  <2>4. CASE SetAnswerLost(r)
    <3>1. Leave(r, "done") /\ SetKey(r)
      BY <2>4 DEF SetAnswerLost
    <3>2. /\ Active' = Active \ {r} /\ Running' = Running \ {r}
          /\ \A q \in Requests \ {r} : slot'[q] = slot[q] /\ left'[q] = left[q]
      BY <3>1, LeaveShrinks
    <3>3. ASSUME NEW q \in Active, q # r
          PROVE  holder'[slot[q]] = holder[slot[q]] /\ ttl'[slot[q]] = ttl[slot[q]]
      <4>1. slot[q] # slot[r]
        BY <3>1, <3>3 DEF SetKey, HoldsKey, Active, TypeOK
      <4> QED
        BY <3>1, <4>1 DEF SetKey, TypeOK, Active
    <3>4. HoldsKey'
      BY <3>2, <3>3 DEF HoldsKey, Active
    <3>5. Timely'
      BY <3>2 DEF Timely, Running
    <3> QED
      BY <3>4, <3>5
  <2>5. CASE SetFails(r) \/ Sent(r) \/ ReleaseFails(r) \/ Dies(r) \/ TimesOut(r)
    <3>1. PICK step \in {"release", "done"} : Leave(r, step)
      BY <2>5 DEF SetFails, Sent, ReleaseFails, Dies, TimesOut
    <3>2. RedisFrame
      BY <2>5 DEF SetFails, Sent, ReleaseFails, Dies, TimesOut
    <3>3. /\ Active' = Active \ {r} /\ Running' = Running \ {r}
          /\ \A q \in Requests \ {r} : slot'[q] = slot[q] /\ left'[q] = left[q]
      BY <3>1, LeaveShrinks
    <3> QED
      BY <3>2, <3>3 DEF RedisFrame, HoldsKey, Timely, Active, Running
  <2>6. CASE Release(r)
    <3>1. Leave(r, "done") /\ pc[r] = "release"
      BY <2>6 DEF Release
    <3>2. /\ Active' = Active \ {r} /\ Running' = Running \ {r}
          /\ \A q \in Requests \ {r} : slot'[q] = slot[q] /\ left'[q] = left[q]
      BY <3>1, LeaveShrinks
    <3>3. ASSUME NEW q \in Active, q # r
          PROVE  holder'[slot[q]] = holder[slot[q]] /\ ttl'[slot[q]] = ttl[slot[q]]
      BY <2>6, <3>3 DEF Release, RedisFrame, HoldsKey, TypeOK, Active
    <3>4. HoldsKey'
      BY <3>2, <3>3 DEF HoldsKey, Active
    <3>5. Timely'
      BY <3>2 DEF Timely, Running
    <3> QED
      BY <3>4, <3>5
  <2> QED
    BY <1>2, <2>1, <2>2, <2>3, <2>4, <2>5, <2>6 DEF Request
<1>3. CASE Tick
  <2>1. Active' = Active /\ Running' = Running /\ slot' = slot
    BY <1>3 DEF Tick, Active, Running
  <2>2. Timely'
    BY <1>3, <2>1 DEF Tick, Timely, Running, TypeOK
  <2>3. ASSUME NEW q \in Active
        PROVE  holder'[slot[q]] = q /\ ttl'[slot[q]] >= left'[q] + Grace
    <3>1. q \in Running /\ q \in Requests /\ slot[q] \in Slots
      BY DEF Active, Running, TypeOK
    <3>2. left[q] + Slack > 0 /\ left'[q] = left[q] - 1 /\ left[q] \in Int
      BY <1>3, <3>1 DEF Tick, TypeOK
    <3>3. ttl[slot[q]] \in Nat /\ ttl[slot[q]] >= left[q] + Grace /\ holder[slot[q]] = q
      BY <3>1 DEF TypeOK, HoldsKey
    <3>4. ttl[slot[q]] > 1
      BY <3>2, <3>3
    <3>5. ttl'[slot[q]] = ttl[slot[q]] - 1 /\ holder'[slot[q]] = q
      BY <1>3, <3>1, <3>3, <3>4 DEF Tick
    <3> QED
      BY <3>2, <3>3, <3>5
  <2> QED
    BY <2>1, <2>2, <2>3 DEF HoldsKey
<1>4. CASE RedisLoss
  BY <1>4 DEF RedisLoss, HoldsKey, Timely, Active, Running
<1> QED
  BY <1>1, <1>2, <1>3, <1>4 DEF Next

\* The inductive invariant holds in every reachable state.
LEMMA Invariant == Spec => []IInv
<1>1. IInv /\ [Next]_vars => IInv'
  BY TypeStep, HeldStep DEF IInv
<1> QED
  BY <1>1, InvariantInit, PTL DEF Spec

-----------------------------------------------------------------------------

\* Every variable keeps its type.
THEOREM TypeCorrect == Spec => []TypeOK
<1>1. IInv => TypeOK
  BY DEF IInv
<1> QED
  BY <1>1, Invariant, PTL

\* Not more than SlotCount requests talk to the provider, for any number of
\* requests and slots and any timeouts, as long as no event loop is held up
\* for the Grace of a key.
THEOREM CapIsRespected == Spec => []CapRespected
<1>1. IInv => CapRespected
  <2> SUFFICES ASSUME IInv PROVE CapRespected
    OBVIOUS
  <2>1. Active \subseteq Requests /\ \A r \in Active : holder[slot[r]] = r
    BY DEF IInv, HoldsKey, Active
  <2>2. slot \in [Requests -> Slots]
    BY DEF IInv, TypeOK
  <2> QED
    BY <2>1, <2>2, HoldersFit DEF CapRespected
<1> QED
  BY <1>1, Invariant, PTL

\* The active requests after a step from the invariant: their number.
LEMMA ActiveFits ==
    ASSUME IInv'
    PROVE  IsFiniteSet(Active') /\ Cardinality(Active') <= SlotCount
<1>1. Active' \subseteq Requests /\ \A r \in Active' : holder'[slot'[r]] = r
  BY DEF IInv, HoldsKey, Active
<1>2. slot' \in [Requests -> Slots]
  BY DEF IInv, TypeOK
<1> QED
  BY <1>1, <1>2, HoldersFit

\* Every step of the slots is one of the cap, or changes nothing there.
LEMMA CapStep == IInv /\ IInv' /\ [Next]_vars => [Cap!Next]_Active
<1> SUFFICES ASSUME IInv, IInv', [Next]_vars PROVE Cap!Next \/ Active' = Active
  OBVIOUS
<1>1. ASSUME Active' \subseteq Active PROVE Cap!Next
  <2>1. Active \ Active' \in SUBSET Requests /\ Active' = Active \ (Active \ Active')
    BY <1>1 DEF Active
  <2>2. Cap!End(Active \ Active')
    BY <2>1 DEF Cap!End
  <2> QED
    BY <2>1, <2>2 DEF Cap!Next
<1>2. CASE UNCHANGED vars
  BY <1>2 DEF vars, Active
<1>3. ASSUME NEW r \in Requests, Request(r) PROVE Cap!Next \/ Active' = Active
  <2>1. CASE TakeSlot(r)
    <3>1. Active' = Active \/ (r \notin Active /\ Active' = Active \cup {r})
      BY <2>1 DEF TakeSlot, SetKey, Active, IInv, TypeOK
    <3>2. ASSUME r \notin Active, Active' = Active \cup {r} PROVE Cap!Next
      <4>1. IsFiniteSet(Active) /\ Cardinality(Active) \in Nat
        BY <3>2, ActiveFits, FS_Subset, FS_CardinalityType
      <4>2. Cardinality(Active) < SlotCount
        BY <3>2, <4>1, ActiveFits, FS_AddElement, SlotsAssumption
      <4>3. Cap!Begin(r)
        BY <3>2, <4>2 DEF Cap!Begin, Cap!Cardinality, Cardinality
      <4> QED
        BY <4>3 DEF Cap!Next
    <3> QED
      BY <3>1, <3>2
  <2>2. CASE Enter(r) \/ Taken(r)
    BY <2>2 DEF Enter, Taken, Active, IInv, TypeOK
  <2>3. CASE \/ SetAnswerLost(r) \/ SetFails(r) \/ Sent(r) \/ TimesOut(r)
             \/ Release(r) \/ ReleaseFails(r) \/ Dies(r)
    <3>1. PICK step \in {"release", "done"} : Leave(r, step)
      BY <2>3 DEF SetAnswerLost, SetFails, Sent, TimesOut, Release, ReleaseFails, Dies
    <3>2. Active' = Active \ {r}
      BY <3>1, LeaveShrinks DEF IInv
    <3> QED
      BY <3>2, <1>1
  <2> QED
    BY <1>3, <2>1, <2>2, <2>3 DEF Request
<1>4. CASE Tick
  BY <1>4 DEF Tick, Active
<1>5. CASE RedisLoss
  BY <1>5, <1>1 DEF RedisLoss, Active
<1> QED
  BY <1>2, <1>3, <1>4, <1>5 DEF Next

\* The slots in Redis implement the abstract cap on requests.
THEOREM SlotsImplementCap == Spec => ImplementsCap
<1>1. Init => Cap!Init
  BY DEF Init, Cap!Init, Active
<1> QED
  BY <1>1, CapStep, Invariant, PTL DEF Spec, ImplementsCap, Cap!Spec

=============================================================================
