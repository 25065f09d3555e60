------------------------- MODULE MCCollectorRequests ------------------------
(* CollectorRequests with model values for the ids. *)
EXTENDS CollectorRequests, TLC

\* Runs and events are only ever compared for equality.
Symmetry == Permutations(Runs) \cup Permutations(Events)

=============================================================================
