--------------------------- MODULE MCSearchIndex ----------------------------
(* SearchIndex with model values for the ids. *)
EXTENDS SearchIndex, TLC

CONSTANTS s1

\* All chunks are of one source.
MCSourceOf == [c \in Chunks |-> s1]

Symmetry == Permutations(Chunks) \cup Permutations(Identities) \cup Permutations(Models)

=============================================================================
