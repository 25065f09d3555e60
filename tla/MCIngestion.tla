---------------------------- MODULE MCIngestion -----------------------------
(* Ingestion with model values for the ids. *)
EXTENDS Ingestion, TLC

\* Runs and events are only ever compared for equality.
Symmetry == Permutations(Runs) \cup Permutations(Events)

=============================================================================
