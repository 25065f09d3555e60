------------------------------ MODULE MCCrawl -------------------------------
(* Crawl of every web of a few addresses, with up to two links on a page. *)
EXTENDS Crawl, TLC

CONSTANTS u1, u2, u3, u4

Pages == [redirect : {{}}, links : UNION {[1..k -> Urls] : k \in 0..2}]
Redirects == [redirect : {{u} : u \in Urls}, links : {<<>>}]
AllWebs == [Urls -> Pages \cup Redirects]

Symmetry == Permutations(Urls \ {First})

=============================================================================
