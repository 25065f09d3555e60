---------------------------- MODULE MCModelSlots -----------------------------
(* ModelSlots with model values for the requests. *)
EXTENDS ModelSlots, TLC

CONSTANTS ApiTimeout, WorkerTimeout, r1

\* One request of the probe, which waits less, and others of the worker.
MCTimeout == [r \in Requests |-> IF r = r1 THEN ApiTimeout ELSE WorkerTimeout]

Symmetry == Permutations(Requests \ {r1})

=============================================================================
