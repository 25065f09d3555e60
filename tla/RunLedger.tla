----------------------------- MODULE RunLedger ------------------------------
(***************************************************************************)
(* What a source promises of its collection runs: a run is asked for while *)
(* the source has some generation, and the request stands as long as the   *)
(* source is active and has that generation.                               *)
(***************************************************************************)
EXTENDS Integers

CONSTANTS Runs

VARIABLES
    status, generation,  \* the source's
    life,                \* "none", "open", "succeeded" or "failed"
    asked,               \* the generations each run was asked for under
    stored               \* the runs whose batch is stored

Init ==
    /\ status = "active" /\ generation = 1
    /\ life = [r \in Runs |-> "none"] /\ asked = [r \in Runs |-> {}] /\ stored = {}

Stands(r) == status = "active" /\ generation \in asked[r]

Open(r) ==
    /\ life' = [life EXCEPT ![r] = "open"]
    /\ \E g \in 0..generation : asked' = [asked EXCEPT ![r] = @ \cup {g}]
    /\ UNCHANGED <<status, generation>>

\* A batch brings its records, a crawl has to collect them.
Accept(r) == life[r] = "none" /\ Open(r) /\ (stored' = stored \/ stored' = stored \cup {r})

Retry(r) ==
    /\ life[r] = "failed" /\ Open(r)
    /\ status = "active" /\ generation \in asked'[r]
    /\ UNCHANGED stored

Store(r) ==
    /\ life[r] = "open" /\ Stands(r)
    /\ stored' = stored \cup {r}
    /\ UNCHANGED <<status, generation, life, asked>>

Settle(r, result) ==
    /\ life' = [life EXCEPT ![r] = result]
    /\ UNCHANGED <<status, generation, asked, stored>>

Succeed(r) == life[r] = "open" /\ Stands(r) /\ r \in stored /\ Settle(r, "succeeded")

Fail(r) == life[r] = "open" /\ Settle(r, "failed")

\* A success falls with one of its requests.
Withdraw(r) ==
    /\ life[r] = "succeeded"
    /\ status # "active" \/ asked[r] # {generation}
    /\ Settle(r, "failed")

ChangeStatus(s) ==
    /\ status # "archived" /\ status # s
    /\ status' = s /\ generation' = generation + 1
    /\ UNCHANGED <<life, asked, stored>>

Next ==
    \/ \E r \in Runs :
          Accept(r) \/ Retry(r) \/ Store(r) \/ Succeed(r) \/ Fail(r) \/ Withdraw(r)
    \/ \E s \in {"active", "paused", "archived"} : ChangeStatus(s)

Spec == Init /\ [][Next]_<<status, generation, life, asked, stored>>

=============================================================================
