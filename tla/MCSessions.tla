----------------------------- MODULE MCSessions -----------------------------
(* Sessions with model values: two writes of one tab, beside another tab. *)
EXTENDS Sessions, TLC

CONSTANTS t1, t2, w1, w2

OneTabWrites == (w1 :> t1 @@ w2 :> t1)

\* Bound: once the last token is issued no more than one write is under way.
LastTokenForOneWrite ==
    made < MaxTokens \/ \E w \in Writes : \A v \in Writes \ {w} : write[v].step = "idle"

Symmetry == Permutations({w1, w2})

=============================================================================
