----------------------------- MODULE RequestCap -----------------------------
(***************************************************************************)
(* What the slots of the model gateway promise: at no time do more than    *)
(* Cap requests talk to the provider.                                      *)
(***************************************************************************)
EXTENDS Integers, FiniteSets

CONSTANTS Requests, Cap

VARIABLE active  \* the requests that talk to the provider

Init == active = {}

Begin(r) ==
    /\ r \notin active
    /\ Cardinality(active) < Cap
    /\ active' = active \cup {r}

\* Some of them end, or stop to count.
End(rs) ==
    /\ rs \subseteq active
    /\ active' = active \ rs

Next ==
    \/ \E r \in Requests : Begin(r)
    \/ \E rs \in SUBSET Requests : End(rs)

Spec == Init /\ [][Next]_active

=============================================================================
