----------------------------- MODULE MCChunking -----------------------------
(* Chunking of every text of up to MaxTokens tokens. *)
EXTENDS Chunking

CONSTANT MaxTokens  \* bound: tokens of the text

MCInit == \E len \in 0..MaxTokens : \E bs \in SUBSET (0..len) : Start(len, bs)
MCSpec == MCInit /\ [][Next]_vars

=============================================================================
