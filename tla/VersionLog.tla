----------------------------- MODULE VersionLog -----------------------------
(***************************************************************************)
(* What a document promises of its history: versions are numbered one      *)
(* after the other, each differs from the one before, none is ever changed *)
(* and they go all together.                                               *)
(***************************************************************************)
EXTENDS Integers

CONSTANTS Texts

VARIABLES
    log,    \* [1..latest -> Texts], empty once deleted
    latest  \* the number of the last version

Init == latest = 1 /\ \E c \in Texts : log = [n \in {1} |-> c]

Append(c) ==
    /\ latest \in DOMAIN log
    /\ c # log[latest]
    /\ latest' = latest + 1
    /\ log' = [n \in 1..latest' |-> IF n = latest' THEN c ELSE log[n]]

Delete ==
    /\ latest \in DOMAIN log
    /\ log' = [n \in {} |-> 0]
    /\ UNCHANGED latest

Next == Delete \/ \E c \in Texts : Append(c)

Spec == Init /\ [][Next]_<<log, latest>>

=============================================================================
