---------------------------- MODULE MCDocuments ------------------------------
(* Documents with model values for tabs and contents. *)
EXTENDS Documents, TLC

Symmetry == Permutations(Tabs) \cup Permutations(Contents)

=============================================================================
