----------------------------- MODULE CrawlProofs ----------------------------
(***************************************************************************)
(* Proofs about Crawl, for every web, any limits and any number of         *)
(* addresses: a crawl records what is near and, when no limit stops it,    *)
(* all of it; and each of its steps uses something up.                     *)
(*                                                                         *)
(* The theorems of the library about induction and recursion on natural    *)
(* numbers take a predicate or a definition as a parameter.  The first     *)
(* section states them for sets and functions instead, with the library's  *)
(* theorem about minimal elements, which is enough for the recursive       *)
(* functions of Crawl.                                                     *)
(***************************************************************************)
EXTENDS Crawl, TLAPS, SequenceTheorems, WellFoundedInduction

-----------------------------------------------------------------------------
(* Induction and recursion over the natural numbers. *)

\* A set of natural numbers that is not empty has a least element.
LEMMA LeastNatural ==
    ASSUME NEW S \in SUBSET Nat, S # {}
    PROVE  \E m \in S : \A k \in S : m <= k
<1>1. PICK m \in S : \A k \in S : <<k, m>> \notin OpToRel(<, Nat)
  BY NatLessThanWellFounded, WFMin, Zenon
<1>2. \A k \in S : ~(k < m)
  BY <1>1, Zenon DEF OpToRel
<1>3. \A k \in S : m <= k
  BY <1>2
<1> QED
  BY <1>3

\* Induction, with the numbers that have the property as a set.
LEMMA SetInduction ==
    ASSUME NEW P, 0 \in P, \A n \in Nat : n \in P => n + 1 \in P
    PROVE  Nat \subseteq P
<1> SUFFICES ASSUME Nat \ P # {} PROVE FALSE
  OBVIOUS
<1>1. PICK m \in Nat \ P : \A k \in Nat \ P : m <= k
  BY LeastNatural
<1>2. m # 0
  BY <1>1
<1>3. m - 1 \in P
  BY <1>1, <1>2
<1> QED
  BY <1>1, <1>2, <1>3

\* A function is given by its first value and by how each value follows from
\* the one before.
Follows(f, S, first, next, n) ==
    /\ f \in [0..n -> S]
    /\ f[0] = first /\ \A i \in 1..n : f[i] = next[<<i, f[i - 1]>>]

LEMMA RecursiveFunction ==
    ASSUME NEW S, NEW first \in S, NEW next \in [Nat \X S -> S], NEW n \in Nat
    PROVE  \E f : Follows(f, S, first, next, n)
<1> DEFINE IsUpTo(f, m) == Follows(f, S, first, next, m)
           P == {m \in Nat : \E f : IsUpTo(f, m)}
<1> USE DEF Follows
<1>1. 0 \in P
  <2>1. IsUpTo([i \in 0..0 |-> first], 0)
    OBVIOUS
  <2> QED
    BY <2>1
<1>2. ASSUME NEW m \in Nat, m \in P PROVE m + 1 \in P
  <2>1. PICK f : IsUpTo(f, m)
    BY <1>2
  <2> DEFINE new == next[<<m + 1, f[m]>>]
             g == [i \in 0..m + 1 |-> IF i = m + 1 THEN new ELSE f[i]]
  <2>2. <<m + 1, f[m]>> \in Nat \X S
    BY <2>1
  <2>3. new \in S
    BY <2>2
  <2>4. g \in [0..m + 1 -> S] /\ g[0] = first
    BY <2>1, <2>3
  <2>5. ASSUME NEW i \in 1..m + 1 PROVE g[i] = next[<<i, g[i - 1]>>]
    <3>1. CASE i = m + 1
      <4>1. g[i] = new /\ g[i - 1] = f[m]
        BY <3>1
      <4> QED
        BY <3>1, <4>1
    <3>2. CASE i # m + 1
      <4>1. i \in 1..m /\ g[i] = f[i] /\ g[i - 1] = f[i - 1]
        BY <3>2
      <4> QED
        BY <2>1, <4>1
    <3> QED
      BY <3>1, <3>2
  <2>6. IsUpTo(g, m + 1)
    BY <2>4, <2>5
  <2> HIDE DEF g, IsUpTo
  <2> QED
    BY <2>6
<1> HIDE DEF Follows
<1>3. n \in P
  BY <1>1, <1>2, SetInduction
<1> QED
  BY <1>3

-----------------------------------------------------------------------------
(* The recursive functions of Crawl. *)

USE CrawlAssumption

Depths == 0..MaxDepth
WebOK == web \in [Urls -> Sites]

\* What the addresses answer.
LEMMA SitesOK ==
    ASSUME WebOK, NEW u \in Urls
    PROVE  /\ Links(u) \in Seq(Urls)
           /\ Len(Links(u)) \in Nat
           /\ \A i \in 1..Len(Links(u)) : Links(u)[i] \in Urls
           /\ ToSet(Links(u)) \subseteq Urls
           /\ ~IsPage(u) => Target(u) \in Urls
<1>1. web[u].redirect \subseteq Urls /\ web[u].links \in Seq(Urls)
  BY DEF WebOK, Sites
<1>2. Links(u) \in Seq(Urls)
  BY <1>1 DEF Links
<1>3. /\ Len(Links(u)) \in Nat
      /\ \A i \in 1..Len(Links(u)) : Links(u)[i] \in Urls
      /\ DOMAIN Links(u) = 1..Len(Links(u))
  BY <1>2
<1>4. ToSet(Links(u)) \subseteq Urls
  BY <1>3 DEF ToSet
<1>5. ~IsPage(u) => Target(u) \in Urls
  BY <1>1 DEF IsPage, Target
<1> QED
  BY <1>2, <1>3, <1>4, <1>5

\* Page is what its definition says, and leads to addresses.
LEMMA PageDef ==
    ASSUME WebOK
    PROVE  /\ Page \in [0..MaxHops -> [Urls -> Urls]]
           /\ \A h \in 0..MaxHops, u \in Urls :
                 Page[h][u] = IF IsPage(u) \/ h = 0 THEN u ELSE Page[h - 1][Target(u)]
<1> DEFINE S == [Urls -> Urls]
           first == [u \in Urls |-> u]
           Then(g) == [u \in Urls |-> IF IsPage(u) THEN u ELSE g[Target(u)]]
           next == [x \in Nat \X S |-> Then(x[2])]
<1>1. ASSUME NEW g \in S PROVE Then(g) \in S
  BY SitesOK
<1>2. first \in S /\ next \in [Nat \X S -> S]
  BY <1>1
<1>3. PICK f : Follows(f, S, first, next, MaxHops)
  <2>1. MaxHops \in Nat
    OBVIOUS
  <2> HIDE DEF S, first, next
  <2> QED
    BY <1>2, <2>1, RecursiveFunction
<1> USE DEF Follows
<1>4. ASSUME NEW h \in 0..MaxHops
      PROVE  f[h] = [u \in Urls |-> IF IsPage(u) \/ h = 0 THEN u ELSE f[h - 1][Target(u)]]
  <2>1. CASE h = 0
    BY <1>3, <2>1
  <2>2. CASE h # 0
    <3>1. h \in 1..MaxHops /\ f[h - 1] \in S /\ <<h, f[h - 1]>> \in Nat \X S
      BY <1>3, <2>2
    <3>2. f[h] = Then(f[h - 1])
      BY <1>3, <3>1
    <3> QED
      BY <2>2, <3>2
  <2> QED
    BY <2>1, <2>2
<1>5. f = [h \in 0..MaxHops |->
             [u \in Urls |-> IF IsPage(u) \/ h = 0 THEN u ELSE f[h - 1][Target(u)]]]
  BY <1>3, <1>4
<1>6. Page = [h \in 0..MaxHops |->
                [u \in Urls |-> IF IsPage(u) \/ h = 0 THEN u ELSE Page[h - 1][Target(u)]]]
  BY <1>5, Zenon DEF Page
<1>7. ASSUME NEW h \in 0..MaxHops
      PROVE  Page[h] \in S
  <2> DEFINE P == {n \in Nat : n \in 0..MaxHops => Page[n] \in S}
  <2>1. 0 \in P
    BY <1>6
  <2>2. ASSUME NEW n \in Nat, n \in P PROVE n + 1 \in P
    <3>1. SUFFICES ASSUME n + 1 \in 0..MaxHops PROVE Page[n + 1] \in S
      OBVIOUS
    <3>2. Page[n] \in S
      BY <2>2, <3>1
    <3>3. Page[n + 1] = [u \in Urls |-> IF IsPage(u) \/ n + 1 = 0 THEN u
                                        ELSE Page[(n + 1) - 1][Target(u)]]
      BY <1>6, <3>1, Zenon
    <3>4. (n + 1) - 1 = n
      OBVIOUS
    <3> QED
      BY <3>2, <3>3, <3>4, SitesOK
  <2> HIDE DEF P
  <2>3. h \in P
    BY <2>1, <2>2, SetInduction
  <2> QED
    BY <2>3 DEF P
<1>8. Page \in [0..MaxHops -> S]
  BY <1>6, <1>7
<1>9. \A h \in 0..MaxHops, u \in Urls :
         Page[h][u] = IF IsPage(u) \/ h = 0 THEN u ELSE Page[h - 1][Target(u)]
  <2> SUFFICES ASSUME NEW h \in 0..MaxHops, NEW u \in Urls
               PROVE  Page[h][u] = IF IsPage(u) \/ h = 0 THEN u ELSE Page[h - 1][Target(u)]
    OBVIOUS
  <2>1. Page[h] = [v \in Urls |-> IF IsPage(v) \/ h = 0 THEN v ELSE Page[h - 1][Target(v)]]
    BY <1>6, Zenon
  <2> QED
    BY <2>1
<1> QED
  BY <1>8, <1>9

\* A chain of redirects that ends at a page leads there with more hops, too.
LEMMA PageStable ==
    ASSUME WebOK, NEW h \in 0..MaxHops, NEW u \in Urls, IsPage(Page[h][u])
    PROVE  Page[MaxHops][u] = Page[h][u]
<1> DEFINE P == {n \in Nat : \A v \in Urls, k \in 0..MaxHops :
                    n <= k /\ IsPage(Page[n][v]) => Page[k][v] = Page[n][v]}
<1>1. 0 \in P
  BY PageDef
<1>2. ASSUME NEW n \in Nat, n \in P PROVE n + 1 \in P
  <2> SUFFICES ASSUME NEW v \in Urls, NEW k \in 0..MaxHops,
                      n + 1 <= k, IsPage(Page[n + 1][v])
               PROVE  Page[k][v] = Page[n + 1][v]
    OBVIOUS
  <2>1. CASE IsPage(v)
    BY <2>1, PageDef
  <2>2. CASE ~IsPage(v)
    <3>1. Page[n + 1][v] = Page[n][Target(v)] /\ Page[k][v] = Page[k - 1][Target(v)]
      <4>1. n + 1 \in 0..MaxHops /\ n + 1 # 0 /\ k # 0 /\ (n + 1) - 1 = n
        OBVIOUS
      <4>2. Page[n + 1][v] = Page[(n + 1) - 1][Target(v)]
        BY <2>2, <4>1, PageDef, Zenon
      <4>3. Page[k][v] = Page[k - 1][Target(v)]
        BY <2>2, <4>1, PageDef, Zenon
      <4> QED
        BY <4>1, <4>2, <4>3
    <3>2. Target(v) \in Urls /\ k - 1 \in 0..MaxHops /\ n <= k - 1
      BY <2>2, SitesOK
    <3> QED
      BY <1>2, <3>1, <3>2
  <2> QED
    BY <2>1, <2>2
<1> HIDE DEF P
<1>3. h \in P
  BY <1>1, <1>2, SetInduction
<1> QED
  BY <1>3 DEF P

\* Where the links of a set of pages lead.
Onward(pages) == {Page[MaxHops][u] : u \in UNION {ToSet(Links(p)) : p \in pages}}

LEMMA NearDef ==
    ASSUME WebOK
    PROVE  /\ \A d \in Depths : Near[d] \subseteq Urls
           /\ Near[0] = {Page[MaxHops][First]}
           /\ \A d \in 1..MaxDepth : Near[d] = Near[d - 1] \cup Onward(Near[d - 1])
<1> DEFINE S == SUBSET Urls
           first == {Page[MaxHops][First]}
           next == [x \in Nat \X S |-> x[2] \cup Onward(x[2])]
<1>1. ASSUME NEW pages \in S PROVE Onward(pages) \in S
  <2>1. ASSUME NEW p \in pages, NEW u \in ToSet(Links(p)) PROVE Page[MaxHops][u] \in Urls
    BY PageDef, SitesOK
  <2> QED
    BY <2>1 DEF Onward
<1>2. first \in S
  BY PageDef
<1>3. next \in [Nat \X S -> S]
  BY <1>1
<1>4. PICK f : Follows(f, S, first, next, MaxDepth)
  <2>1. MaxDepth \in Nat
    OBVIOUS
  <2> HIDE DEF S, first, next
  <2> QED
    BY <1>2, <1>3, <2>1, RecursiveFunction
<1> USE DEF Follows
<1>5. ASSUME NEW d \in 1..MaxDepth PROVE f[d] = f[d - 1] \cup Onward(f[d - 1])
  <2>1. f[d - 1] \in S /\ <<d, f[d - 1]>> \in Nat \X S
    BY <1>4
  <2> QED
    BY <1>4, <2>1
<1>6. f = [d \in 0..MaxDepth |-> IF d = 0 THEN {Page[MaxHops][First]}
                                 ELSE f[d - 1] \cup Onward(f[d - 1])]
  BY <1>4, <1>5
<1>7. Near = [d \in 0..MaxDepth |-> IF d = 0 THEN {Page[MaxHops][First]}
                                    ELSE Near[d - 1] \cup Onward(Near[d - 1])]
  BY <1>6, Zenon DEF Near, Onward
<1>8. ASSUME NEW d \in 1..MaxDepth PROVE Near[d] = Near[d - 1] \cup Onward(Near[d - 1])
  <2>1. d \in 0..MaxDepth /\ d # 0
    OBVIOUS
  <2> QED
    BY <1>7, <2>1, Zenon
<1>9. Near[0] = first
  BY <1>7
<1>10. ASSUME NEW d \in Depths PROVE Near[d] \in S
  <2> DEFINE P == {n \in Nat : n \in Depths => Near[n] \in S}
  <2>1. 0 \in P
    BY <1>2, <1>9
  <2>2. ASSUME NEW n \in Nat, n \in P PROVE n + 1 \in P
    <3>1. SUFFICES ASSUME n + 1 \in Depths PROVE Near[n + 1] \in S
      OBVIOUS
    <3>2. n + 1 \in 1..MaxDepth /\ (n + 1) - 1 = n /\ n \in Depths
      BY <3>1 DEF Depths
    <3>3. Near[n] \in S
      BY <2>2, <3>2
    <3>4. Near[n + 1] = Near[n] \cup Onward(Near[n])
      BY <1>8, <3>2
    <3> QED
      BY <1>1, <3>3, <3>4
  <2> HIDE DEF P
  <2>3. d \in P
    BY <2>1, <2>2, SetInduction DEF Depths
  <2> QED
    BY <2>3 DEF P
<1> QED
  BY <1>8, <1>9, <1>10

\* The loop over the links of a page.
Entries == Seq(Urls \X Nat)

LEMMA EnqueuedDef ==
    ASSUME WebOK, current \in Urls, queue \in Entries, depth \in Nat
    PROVE  /\ \A i \in 0..Len(Links(current)) : Enqueued[i] \in Entries
           /\ Enqueued[0] = queue
           /\ \A i \in 1..Len(Links(current)) :
                 Enqueued[i] = IF Links(current)[i] \notin Seen
                                  /\ Len(Enqueued[i - 1]) < QueueLimit
                               THEN Append(Enqueued[i - 1], <<Links(current)[i], depth + 1>>)
                               ELSE Enqueued[i - 1]
<1> DEFINE L == Links(current)
           N == Len(L)
           entry(i) == <<L[i], depth + 1>>
           Then(i, q) == IF L[i] \notin Seen /\ Len(q) < QueueLimit
                         THEN Append(q, entry(i)) ELSE q
           next == [x \in Nat \X Entries |-> IF x[1] \in 1..N THEN Then(x[1], x[2]) ELSE x[2]]
<1>1. N \in Nat /\ \A i \in 1..N : entry(i) \in Urls \X Nat
  BY SitesOK
<1>2. ASSUME NEW i \in 1..N, NEW q \in Entries PROVE Then(i, q) \in Entries
  BY <1>1 DEF Entries
<1>3. next \in [Nat \X Entries -> Entries]
  <2> HIDE DEF Then
  <2> QED
    BY <1>2
<1>4. PICK f : Follows(f, Entries, queue, next, N)
  <2> HIDE DEF next
  <2> QED
    BY <1>1, <1>3, RecursiveFunction
<1>5. f \in [0..N -> Entries] /\ f[0] = queue
  BY <1>4 DEF Follows
<1>6. ASSUME NEW i \in 1..N PROVE f[i] = Then(i, f[i - 1])
  <2>1. i - 1 \in 0..N /\ i \in Nat
    BY <1>1
  <2>2. <<i, f[i - 1]>> \in Nat \X Entries
    BY <1>5, <2>1
  <2>3. next[<<i, f[i - 1]>>] = Then(i, f[i - 1])
    <3> HIDE DEF Then
    <3> QED
      BY <2>2
  <2> HIDE DEF next, Then
  <2> QED
    BY <1>4, <2>3 DEF Follows
<1>7. f = [i \in 0..N |-> IF i = 0 THEN queue ELSE Then(i, f[i - 1])]
  <2> HIDE DEF Then
  <2> QED
    BY <1>1, <1>5, <1>6
<1>8. Enqueued = [i \in 0..N |-> IF i = 0 THEN queue ELSE Then(i, Enqueued[i - 1])]
  BY <1>7, Zenon DEF Enqueued
<1>9. Enqueued[0] = queue
  BY <1>1, <1>8
<1>10. ASSUME NEW i \in 1..N PROVE Enqueued[i] = Then(i, Enqueued[i - 1])
  <2>1. i \in 0..N /\ i # 0
    BY <1>1
  <2> QED
    BY <1>8, <2>1, Zenon
<1>11. ASSUME NEW i \in 0..N PROVE Enqueued[i] \in Entries
  <2> DEFINE P == {n \in Nat : n \in 0..N => Enqueued[n] \in Entries}
  <2>1. 0 \in P
    BY <1>9
  <2>2. ASSUME NEW n \in Nat, n \in P PROVE n + 1 \in P
    <3>1. SUFFICES ASSUME n + 1 \in 0..N PROVE Enqueued[n + 1] \in Entries
      OBVIOUS
    <3>2. n + 1 \in 1..N /\ (n + 1) - 1 = n /\ n \in 0..N
      BY <1>1, <3>1
    <3>3. Enqueued[n] \in Entries
      BY <2>2, <3>2
    <3>4. Enqueued[n + 1] = Then(n + 1, Enqueued[n])
      BY <1>10, <3>2
    <3> HIDE DEF Then
    <3> QED
      BY <1>2, <3>2, <3>3, <3>4
  <2> HIDE DEF P
  <2>3. i \in P
    BY <1>1, <2>1, <2>2, SetInduction
  <2> QED
    BY <2>3 DEF P
<1> QED
  BY <1>9, <1>10, <1>11

\* The queue keeps its entries, and each link of the page is visited, or finds
\* no room, or is an entry one deeper than the page.
Extends(q, i) ==
    /\ Len(queue) <= Len(q)
    /\ Len(queue) <= QueueLimit => Len(q) <= QueueLimit
    /\ \A j \in 1..Len(queue) : q[j] = queue[j]
    /\ \A j \in Len(queue) + 1..Len(q) :
          \E k \in 1..i : q[j] = <<Links(current)[k], depth + 1>>
    /\ \A k \in 1..i :
          \/ Links(current)[k] \in Seen \/ NoRoomFor(k)
          \/ \E j \in 1..Len(q) : q[j] = <<Links(current)[k], depth + 1>>

LEMMA EnqueuedExtends ==
    ASSUME WebOK, current \in Urls, queue \in Entries, depth \in Nat
    PROVE  Extends(Enqueued[Len(Links(current))], Len(Links(current)))
<1> DEFINE N == Len(Links(current))
           P == {n \in Nat : n \in 0..N => Extends(Enqueued[n], n)}
<1>1. N \in Nat /\ \A i \in 1..N : Links(current)[i] \in Urls
  BY SitesOK
<1>2. 0 \in P
  BY EnqueuedDef DEF Extends, Entries
<1>3. ASSUME NEW n \in Nat, n \in P PROVE n + 1 \in P
  <2>1. SUFFICES ASSUME n + 1 \in 0..N PROVE Extends(Enqueued[n + 1], n + 1)
    OBVIOUS
  <2> DEFINE u == Links(current)[n + 1]
             q == Enqueued[n]
             e == <<u, depth + 1>>
  <2>2. n + 1 \in 1..N /\ (n + 1) - 1 = n /\ n \in 0..N
    BY <1>1, <2>1
  <2>3. q \in Entries /\ Extends(q, n) /\ u \in Urls
    BY <1>1, <1>3, <2>2, EnqueuedDef
  <2>4. Enqueued[n + 1] = IF u \notin Seen /\ Len(q) < QueueLimit THEN Append(q, e) ELSE q
    BY <2>2, EnqueuedDef
  <2>5. /\ Len(queue) <= Len(q)
        /\ Len(queue) <= QueueLimit => Len(q) <= QueueLimit
        /\ \A j \in 1..Len(queue) : q[j] = queue[j]
        /\ \A j \in Len(queue) + 1..Len(q) :
              \E k \in 1..n : q[j] = <<Links(current)[k], depth + 1>>
        /\ \A k \in 1..n :
              \/ Links(current)[k] \in Seen \/ NoRoomFor(k)
              \/ \E j \in 1..Len(q) : q[j] = <<Links(current)[k], depth + 1>>
        /\ Len(q) \in Nat /\ Len(queue) \in Nat
    <3>1. Len(q) \in Nat /\ Len(queue) \in Nat
      BY <2>3 DEF Entries
    <3> HIDE DEF q
    <3> QED
      BY <2>3, <3>1, Zenon DEF Extends
  <2>6. ASSUME NEW k \in 1..n + 1 PROVE k = n + 1 \/ k \in 1..n
    OBVIOUS
  <2>7. \A k \in 1..n : k \in 1..n + 1
    OBVIOUS
  <2>8. CASE u \notin Seen /\ Len(q) < QueueLimit
    <3> DEFINE r == Append(q, e)
    <3>1. e \in Urls \X Nat /\ Enqueued[n + 1] = r
      BY <2>3, <2>4, <2>8
    <3>2. /\ Len(r) = Len(q) + 1
          /\ \A j \in 1..Len(q) : r[j] = q[j]
          /\ r[Len(q) + 1] = e
      BY <2>3, <3>1, AppendProperties DEF Entries
    <3> HIDE DEF q, r
    <3>3. /\ Len(queue) <= Len(r) /\ Len(r) \in Nat
          /\ Len(queue) <= QueueLimit => Len(r) <= QueueLimit
          /\ \A j \in 1..Len(queue) : r[j] = queue[j]
      BY <2>5, <2>8, <3>2
    <3>4. ASSUME NEW j \in Len(queue) + 1..Len(r)
          PROVE  \E k \in 1..n + 1 : r[j] = <<Links(current)[k], depth + 1>>
      <4>1. CASE j = Len(q) + 1
        BY <3>2, <4>1
      <4>2. CASE j # Len(q) + 1
        <5>1. j \in Len(queue) + 1..Len(q) /\ r[j] = q[j]
          BY <2>5, <3>2, <4>2
        <5>2. PICK k \in 1..n : q[j] = <<Links(current)[k], depth + 1>>
          BY <2>5, <5>1
        <5> QED
          BY <2>7, <5>1, <5>2
      <4> QED
        BY <4>1, <4>2
    <3>5. ASSUME NEW k \in 1..n + 1
          PROVE  \/ Links(current)[k] \in Seen \/ NoRoomFor(k)
                 \/ \E j \in 1..Len(r) : r[j] = <<Links(current)[k], depth + 1>>
      <4>1. CASE k = n + 1
        <5>1. Len(q) + 1 \in 1..Len(r)
          BY <2>5, <3>2
        <5> QED
          BY <3>2, <4>1, <5>1
      <4>2. ASSUME k \in 1..n, NEW j \in 1..Len(q), q[j] = <<Links(current)[k], depth + 1>>
            PROVE  j \in 1..Len(r) /\ r[j] = <<Links(current)[k], depth + 1>>
        BY <2>5, <3>2, <4>2
      <4> QED
        BY <2>5, <2>6, <4>1, <4>2
    <3> QED
      BY <3>1, <3>3, <3>4, <3>5 DEF Extends
  <2>9. CASE ~(u \notin Seen /\ Len(q) < QueueLimit)
    <3>1. Enqueued[n + 1] = q
      BY <2>4, <2>9
    <3>2. u \in Seen \/ NoRoomFor(n + 1)
      BY <2>2, <2>5, <2>9 DEF NoRoomFor
    <3> HIDE DEF q
    <3>3. ASSUME NEW j \in Len(queue) + 1..Len(q)
          PROVE  \E k \in 1..n + 1 : q[j] = <<Links(current)[k], depth + 1>>
      BY <2>5, <2>7
    <3>4. ASSUME NEW k \in 1..n + 1
          PROVE  \/ Links(current)[k] \in Seen \/ NoRoomFor(k)
                 \/ \E j \in 1..Len(q) : q[j] = <<Links(current)[k], depth + 1>>
      BY <2>5, <2>6, <3>2
    <3> QED
      BY <2>5, <3>1, <3>3, <3>4 DEF Extends
  <2> QED
    BY <2>8, <2>9
<1> HIDE DEF P
<1>4. N \in P
  BY <1>1, <1>2, <1>3, SetInduction
<1> QED
  BY <1>1, <1>4 DEF P

-----------------------------------------------------------------------------
(* What stays the same while the web does. *)

\* Page and Near with the web as an argument.
PageIn(w) ==
    CHOOSE f : f = [h \in 0..MaxHops |->
        [u \in Urls |-> IF w[u].redirect = {} \/ h = 0 THEN u
                        ELSE f[h - 1][CHOOSE v \in w[u].redirect : TRUE]]]
NearIn(w, page) ==
    CHOOSE f : f = [d \in 0..MaxDepth |->
        IF d = 0 THEN {page[MaxHops][First]}
        ELSE f[d - 1] \cup {page[MaxHops][u] : u \in UNION {ToSet(w[p].links) : p \in f[d - 1]}}]

LEMMA SameWeb ==
    ASSUME web' = web
    PROVE  /\ Page' = Page /\ Near' = Near
           /\ \A u : IsPage(u)' = IsPage(u) /\ Links(u)' = Links(u)
<1>1. Page = PageIn(web) /\ Page' = PageIn(web')
  BY Zenon DEF Page, IsPage, Target, PageIn
<1>2. Page' = Page
  BY <1>1, Zenon
<1>3. Near = NearIn(web, Page) /\ Near' = NearIn(web', Page')
  BY Zenon DEF Near, Links, NearIn
<1>4. Near' = Near
  BY <1>2, <1>3, Zenon
<1> QED
  BY <1>2, <1>4 DEF IsPage, Links

-----------------------------------------------------------------------------
(* The steps on the queue and on the records. *)

\* The entries of a queue or of the records.
LEMMA EntriesOK ==
    ASSUME TypeOK
    PROVE  /\ WebOK /\ queue \in Entries
           /\ Len(queue) \in Nat /\ Len(records) \in Nat
           /\ \A j \in 1..Len(queue) :
                 queue[j] \in Urls \X Depths /\ queue[j][1] \in Urls /\ queue[j][2] \in Depths
           /\ \A j \in 1..Len(records) :
                 records[j][1] \in Urls /\ records[j][2] \in Depths
<1>1. WebOK
  BY DEF TypeOK, WebOK
<1>2. queue \in Seq(Urls \X Depths) /\ records \in Seq(Urls \X Depths)
  BY DEF TypeOK, Depths
<1>3. Len(queue) \in Nat /\ Len(records) \in Nat
  BY <1>2
<1>4. ASSUME NEW j \in 1..Len(queue) PROVE queue[j] \in Urls \X Depths
  BY <1>2
<1>5. ASSUME NEW j \in 1..Len(records) PROVE records[j] \in Urls \X Depths
  BY <1>2
<1>6. \A j \in 1..Len(queue) : queue[j] \in Urls \X Nat
  BY <1>4 DEF Depths
<1>7. queue \in Entries
  BY <1>2, <1>6, SeqDef DEF Entries
<1> QED
  BY <1>1, <1>3, <1>4, <1>5, <1>7

\* The first entry is taken.
LEMMA Taken ==
    ASSUME TypeOK, MayGoOn
    PROVE  /\ 1 \in 1..Len(queue) /\ Head(queue) = queue[1]
           /\ Tail(queue) \in Seq(Urls \X Depths)
           /\ Len(Tail(queue)) = Len(queue) - 1
           /\ \A j \in 1..Len(queue) - 1 : Tail(queue)[j] = queue[j + 1]
<1>1. queue \in Seq(Urls \X Depths) /\ queue # <<>>
  BY DEF TypeOK, Depths, MayGoOn
<1> QED
  BY <1>1, HeadTailProperties

\* A page is recorded, and its links are queued.
LEMMA Recording ==
    ASSUME TypeOK, Record
    PROVE  /\ queue' \in Seq(Urls \X Depths) /\ Len(queue') <= QueueLimit
           /\ \A j \in 1..Len(queue) : j \in 1..Len(queue') /\ queue'[j] = queue[j]
           /\ \A j \in 1..Len(queue') :
                 \/ j \in 1..Len(queue) /\ queue'[j] = queue[j]
                 \/ /\ depth < MaxDepth
                    /\ \A k \in 1..Len(queue) : k < j
                    /\ \E u \in ToSet(Links(current)) : queue'[j] = <<u, depth + 1>>
           /\ depth < MaxDepth /\ ~dropped' =>
                 \A u \in ToSet(Links(current)) :
                    u \in Seen \/ \E j \in 1..Len(queue') : queue'[j] = <<u, depth + 1>>
<1> DEFINE L == Links(current)
           q == Enqueued[Len(L)]
<1>1. CASE ~(depth < MaxDepth)
  <2>1. queue' = queue
    BY <1>1 DEF Record
  <2> QED
    BY <1>1, <2>1, EntriesOK DEF TypeOK, Depths
<1>2. CASE depth < MaxDepth
  <2>1. WebOK /\ current \in Urls /\ queue \in Entries /\ depth \in Nat /\ Len(queue) \in Nat
    BY EntriesOK DEF TypeOK
  <2>2. queue' = q /\ (dropped' <=> dropped \/ \E i \in 1..Len(L) : NoRoomFor(i))
    BY <1>2, Zenon DEF Record
  <2>3. q \in Entries /\ Extends(q, Len(L))
    <3>1. Len(L) \in Nat
      BY <2>1, SitesOK
    <3> QED
      BY <2>1, <3>1, EnqueuedDef, EnqueuedExtends
  <2>4. Len(q) \in Nat
    BY <2>3 DEF Entries
  <2>5. /\ Len(L) \in Nat
        /\ ToSet(L) = {L[k] : k \in 1..Len(L)}
        /\ \A k \in 1..Len(L) : L[k] \in ToSet(L)
        /\ ToSet(L) \subseteq Urls
    <3>1. L \in Seq(Urls)
      BY <2>1, SitesOK
    <3> QED
      BY <2>1, <3>1, SitesOK DEF ToSet
  <2>6. Len(queue) <= Len(q) /\ Len(q) <= QueueLimit
    BY <2>3 DEF Extends, TypeOK
  <2>7. \A j \in 1..Len(queue) : j \in 1..Len(q) /\ q[j] = queue[j]
    BY <2>1, <2>3, <2>4 DEF Extends
  <2>8. ASSUME NEW j \in 1..Len(q)
        PROVE  \/ j \in 1..Len(queue) /\ q[j] = queue[j]
               \/ /\ \A k \in 1..Len(queue) : k < j
                  /\ \E u \in ToSet(L) : q[j] = <<u, depth + 1>>
    <3>1. CASE j \in 1..Len(queue)
      BY <2>7, <3>1
    <3>2. CASE j \notin 1..Len(queue)
      <4>1. j \in Len(queue) + 1..Len(q) /\ \A k \in 1..Len(queue) : k < j
        BY <2>1, <2>4, <3>2
      <4>2. PICK k \in 1..Len(L) : q[j] = <<L[k], depth + 1>>
        BY <2>3, <4>1, Zenon DEF Extends
      <4> QED
        BY <2>5, <4>1, <4>2
    <3> QED
      BY <3>1, <3>2
  <2>9. ASSUME NEW j \in 1..Len(q) PROVE q[j] \in Urls \X Depths
    <3>1. depth + 1 \in Depths
      BY <1>2, <2>1 DEF Depths
    <3>2. CASE j \in 1..Len(queue) /\ q[j] = queue[j]
      BY <3>2, EntriesOK, Zenon
    <3>3. CASE \E u \in ToSet(L) : q[j] = <<u, depth + 1>>
      BY <2>5, <3>1, <3>3
    <3> QED
      BY <2>8, <3>2, <3>3
  <2>10. q \in Seq(Urls \X Depths)
    <3> HIDE DEF q
    <3> QED
      BY <2>3, <2>9 DEF Entries
  <2>11. ASSUME ~dropped', NEW u \in ToSet(L)
         PROVE  u \in Seen \/ \E j \in 1..Len(q) : q[j] = <<u, depth + 1>>
    <3>1. PICK k \in 1..Len(L) : u = L[k]
      BY <2>5
    <3>2. ~NoRoomFor(k)
      BY <2>2, <2>11
    <3> QED
      BY <2>3, <3>1, <3>2, Zenon DEF Extends
  <2> HIDE DEF q
  <2> QED
    BY <1>2, <2>2, <2>6, <2>7, <2>8, <2>10, <2>11
<1> QED
  BY <1>1, <1>2

-----------------------------------------------------------------------------
(* The invariant.  An address is covered at a depth when its page is       *)
(* recorded at most that deep, when it is queued at most that deep, or     *)
(* when the chain of redirects that is followed is the one it starts.      *)

Fetching == step = "fetch" => hops < MaxHops /\ Len(records) < MaxPages

\* Where the chain that is followed leads.
Chain == Page[MaxHops - hops][current]

Recorded(p, d) == \E i \in 1..Len(records) : records[i][1] = p /\ records[i][2] <= d
Queued(u, d) == \E i \in 1..Len(queue) : queue[i][1] = u /\ queue[i][2] <= d
Chasing(u, d) ==
    step = "fetch" /\ depth <= d /\ (IsPage(Chain) => Page[MaxHops][u] = Chain)
Covered(u, d) == Recorded(Page[MaxHops][u], d) \/ Queued(u, d) \/ Chasing(u, d)

\* Breadth first: the queue holds one depth, then the next.
OrderInv ==
    /\ \A i \in 1..Len(queue) : depth <= queue[i][2] /\ queue[i][2] <= depth + 1
    /\ \A i, j \in 1..Len(queue) : i <= j => queue[i][2] <= queue[j][2]
    /\ \A i \in 1..Len(records) : records[i][2] <= depth

\* What is recorded, queued or followed is near.
SoundInv ==
    /\ \A i \in 1..Len(records) : records[i][1] \in Near[records[i][2]]
    /\ \A i \in 1..Len(queue) : Page[MaxHops][queue[i][1]] \in Near[queue[i][2]]
    /\ step = "fetch" => Chain \in Near[depth]

\* A visited address needs no second visit: its page is recorded no deeper than
\* the crawl has come, or is about to be.
VisitedInv ==
    step # "failed" =>
        \A u \in visited, d \in Depths :
            depth <= d => Recorded(Page[MaxHops][u], d) \/ Chasing(u, d)

\* Nothing near is forgotten: the first address is covered, and so is each link
\* of a page, one deeper than the page.
RecordedAt(p, d) == \E i \in 1..Len(records) : records[i] = <<p, d>>
LinksCovered ==
    \A p \in Urls, d \in Depths :
        RecordedAt(p, d) /\ d < MaxDepth => \A u \in ToSet(Links(p)) : Covered(u, d + 1)
CompleteInv == step # "failed" => Covered(First, 0) /\ (~dropped => LinksCovered)

CrawlInv == TypeOK /\ Fetching /\ OrderInv /\ SoundInv /\ VisitedInv /\ CompleteInv

LEMMA CrawlInvInit == Init => CrawlInv
<1> SUFFICES ASSUME Init PROVE CrawlInv
  OBVIOUS
<1>1. TypeOK /\ WebOK
  <2>1. <<First, 0>> \in Urls \X (0..MaxDepth)
    OBVIOUS
  <2>2. queue \in Seq(Urls \X (0..MaxDepth)) /\ Len(queue) <= QueueLimit
    BY <2>1 DEF Init
  <2>3. records \in Seq(Urls \X (0..MaxDepth)) /\ Len(records) <= MaxPages
    BY DEF Init
  <2>4. web \in Webs /\ web \in [Urls -> Sites] /\ current \in Urls
    BY DEF Init
  <2>5. visited \subseteq Urls /\ depth \in 0..MaxDepth /\ hops \in 0..MaxHops
    BY DEF Init
  <2>6. step = "next" /\ dropped \in BOOLEAN
    BY DEF Init
  <2> QED
    BY <2>2, <2>3, <2>4, <2>5, <2>6 DEF TypeOK, WebOK
<1>2. /\ step = "next" /\ queue = <<<<First, 0>>>> /\ visited = {} /\ records = <<>>
      /\ depth = 0 /\ dropped = FALSE
  BY DEF Init
<1>3. Len(queue) = 1 /\ queue[1] = <<First, 0>> /\ Len(records) = 0
  BY <1>2
<1>4. OrderInv /\ Fetching
  BY <1>2, <1>3 DEF OrderInv, Fetching
<1>5. SoundInv
  BY <1>1, <1>2, <1>3, NearDef DEF SoundInv
<1>6. Covered(First, 0)
  BY <1>3 DEF Covered, Queued
<1>7. VisitedInv /\ LinksCovered
  BY <1>2, <1>3 DEF VisitedInv, LinksCovered, RecordedAt
<1> QED
  BY <1>1, <1>4, <1>5, <1>6, <1>7 DEF CrawlInv, CompleteInv

\* Types, and the order of the queue.
LEMMA TypeKept ==
    ASSUME TypeOK, Fetching, OrderInv, [crawl]_vars
    PROVE  TypeOK' /\ Fetching' /\ OrderInv'
<1> USE DEF Fetching, OrderInv
<1>0. /\ Len(queue) \in Nat /\ Len(records) \in Nat /\ depth \in Nat /\ MaxHops \in Nat
      /\ hops \in Nat /\ hops <= MaxHops
      /\ \A j \in 1..Len(queue) : queue[j][1] \in Urls /\ queue[j][2] \in Depths
      /\ \A j \in 1..Len(records) : records[j][2] \in Depths
  BY EntriesOK DEF TypeOK
<1>1. ASSUME MayGoOn, queue' = Tail(queue), records' = records, web' = web,
             depth' = depth \/ depth' = queue[1][2]
      PROVE  /\ queue' \in Seq(Urls \X (0..MaxDepth)) /\ Len(queue') <= QueueLimit
             /\ OrderInv'
  <2>1. /\ 1 \in 1..Len(queue) /\ queue' \in Seq(Urls \X (0..MaxDepth))
        /\ Len(queue') = Len(queue) - 1 /\ Len(queue') \in Nat
        /\ \A j \in 1..Len(queue') :
              j \in 1..Len(queue) /\ j + 1 \in 1..Len(queue) /\ queue'[j] = queue[j + 1]
    BY <1>0, <1>1, Taken DEF Depths
  <2>2. depth <= depth' /\ depth' <= depth + 1 /\ depth' \in Nat
    BY <1>0, <1>1, <2>1 DEF Depths
  <2>3. \A j \in 1..Len(queue') : depth' <= queue'[j][2] /\ queue'[j][2] <= depth' + 1
    <3> SUFFICES ASSUME NEW j \in 1..Len(queue')
                 PROVE  depth' <= queue'[j][2] /\ queue'[j][2] <= depth' + 1
      OBVIOUS
    <3>1. queue'[j][2] = queue[j + 1][2] /\ j + 1 \in 1..Len(queue) /\ 1 <= j + 1
      BY <2>1
    <3>2. /\ depth <= queue[j + 1][2] /\ queue[j + 1][2] <= depth + 1
          /\ queue[1][2] <= queue[j + 1][2]
          /\ queue[j + 1][2] \in Nat /\ queue[1][2] \in Nat
      BY <1>0, <2>1, <3>1 DEF Depths
    <3> QED
      BY <1>0, <1>1, <2>2, <3>1, <3>2
  <2>4. \A i, j \in 1..Len(queue') : i <= j => queue'[i][2] <= queue'[j][2]
    <3> SUFFICES ASSUME NEW i \in 1..Len(queue'), NEW j \in 1..Len(queue'), i <= j
                 PROVE  queue'[i][2] <= queue'[j][2]
      OBVIOUS
    <3>1. i + 1 <= j + 1
      BY <2>1
    <3> QED
      BY <2>1, <3>1
  <2>5. \A i \in 1..Len(records') : records'[i][2] <= depth'
    BY <1>0, <1>1, <2>2 DEF Depths
  <2>6. Len(queue') <= QueueLimit
    BY <1>0, <2>1 DEF TypeOK
  <2> QED
    BY <2>1, <2>3, <2>4, <2>5, <2>6
<1>2. CASE Skip
  <2>1. MayGoOn /\ queue' = Tail(queue)
    BY <1>2 DEF Skip
  <2> QED
    BY <1>1, <1>2, <2>1 DEF Skip, TypeOK
<1>3. CASE Take
  <2>1. MayGoOn /\ queue' = Tail(queue) /\ Head(queue) = queue[1] /\ 1 \in 1..Len(queue)
    BY <1>3, Taken DEF Take
  <2>2. current' \in Urls /\ depth' \in 0..MaxDepth /\ depth' = queue[1][2]
    BY <1>0, <1>3, <2>1 DEF Take, Depths
  <2>3. queue' \in Seq(Urls \X (0..MaxDepth)) /\ Len(queue') <= QueueLimit /\ OrderInv'
    BY <1>1, <1>3, <2>1, <2>2 DEF Take
  <2>4. hops' = 0 /\ Len(records') < MaxPages
    BY <1>3, <2>1 DEF Take, MayGoOn
  <2>5. TypeOK'
    BY <1>3, <2>2, <2>3, <2>4 DEF Take, TypeOK
  <2> HIDE DEF OrderInv
  <2> QED
    BY <2>3, <2>4, <2>5
<1>4. CASE Redirect
  <2>1. Target(current) \in Urls
    BY <1>4, EntriesOK, SitesOK DEF TypeOK, Redirect
  <2> QED
    BY <1>0, <1>4, <2>1 DEF Redirect, TypeOK
<1>5. CASE Record
  <2>1. /\ step = "fetch" /\ step' = "next" /\ records' = Append(records, <<current, depth>>)
        /\ current \in Urls /\ depth \in Depths /\ records \in Seq(Urls \X Depths)
        /\ web' = web /\ current' = current /\ depth' = depth /\ hops' = hops
        /\ visited' \subseteq Urls
    BY <1>5 DEF Record, TypeOK, Depths, Seen
  <2>2. /\ records' \in Seq(Urls \X Depths) /\ Len(records') = Len(records) + 1
        /\ \A i \in 1..Len(records') :
              \/ i \in 1..Len(records) /\ records'[i] = records[i]
              \/ records'[i] = <<current, depth>>
    BY <1>0, <2>1, AppendProperties
  <2>3. dropped' \in BOOLEAN
    BY <1>5 DEF Record, TypeOK
  <2>4. TypeOK' /\ Fetching'
    BY <1>0, <1>5, <2>1, <2>2, <2>3, Recording DEF TypeOK, Depths
  <2>5. \A i \in 1..Len(records') : records'[i][2] <= depth'
    BY <1>0, <2>1, <2>2
  <2>6. ASSUME NEW j \in 1..Len(queue')
        PROVE  \/ /\ j \in 1..Len(queue) /\ queue'[j] = queue[j] /\ queue[j][2] \in Nat
                  /\ depth <= queue[j][2] /\ queue[j][2] <= depth + 1
               \/ queue'[j][2] = depth + 1 /\ \A k \in 1..Len(queue) : k < j
    <3>1. CASE j \in 1..Len(queue) /\ queue'[j] = queue[j]
      BY <1>0, <3>1 DEF Depths
    <3>2. CASE /\ \A k \in 1..Len(queue) : k < j
               /\ \E u \in ToSet(Links(current)) : queue'[j] = <<u, depth + 1>>
      BY <3>2
    <3> QED
      BY <1>5, <3>1, <3>2, Recording
  <2>7. \A j \in 1..Len(queue') : depth' <= queue'[j][2] /\ queue'[j][2] <= depth' + 1
    <3> SUFFICES ASSUME NEW j \in 1..Len(queue')
                 PROVE  depth' <= queue'[j][2] /\ queue'[j][2] <= depth' + 1
      OBVIOUS
    <3> QED
      BY <1>0, <2>1, <2>6
  <2>8. \A i, j \in 1..Len(queue') : i <= j => queue'[i][2] <= queue'[j][2]
    <3> SUFFICES ASSUME NEW i \in 1..Len(queue'), NEW j \in 1..Len(queue'), i <= j
                 PROVE  queue'[i][2] <= queue'[j][2]
      OBVIOUS
    <3>1. CASE queue'[j][2] = depth + 1
      BY <1>0, <2>1, <2>7, <3>1
    <3>2. CASE queue'[j][2] # depth + 1
      <4>1. j \in 1..Len(queue) /\ queue'[j] = queue[j]
        BY <2>6, <3>2
      <4>2. i \in 1..Len(queue) /\ queue'[i] = queue[i]
        BY <1>0, <2>6, <4>1
      <4> QED
        BY <4>1, <4>2
    <3> QED
      BY <3>1, <3>2
  <2> QED
    BY <2>4, <2>5, <2>7, <2>8
<1>6. CASE Fail \/ Finish \/ UNCHANGED vars
  BY <1>6 DEF Fail, Finish, vars, TypeOK
<1> QED
  BY <1>2, <1>3, <1>4, <1>5, <1>6 DEF crawl

\* The chain of redirects.
LEMMA ChainTaken ==
    ASSUME TypeOK, Take
    PROVE  Chain' = Page[MaxHops][queue[1][1]] /\ depth' = queue[1][2]
<1>1. Page' = Page /\ Head(queue) = queue[1]
  BY SameWeb, Taken DEF Take
<1>2. current' = queue[1][1] /\ depth' = queue[1][2] /\ MaxHops - hops' = MaxHops
  BY <1>1 DEF Take
<1> QED
  BY <1>1, <1>2 DEF Chain

LEMMA ChainKept ==
    ASSUME TypeOK, Fetching, Redirect, step' = "fetch"
    PROVE  Chain' = Chain /\ (IsPage(Chain) => Page[MaxHops][current] = Chain)
<1>1. /\ step = "fetch" /\ ~IsPage(current) /\ web' = web
      /\ hops' = hops + 1 /\ hops' # MaxHops /\ current' = Target(current)
  BY DEF Redirect
<1>2. /\ WebOK /\ current \in Urls /\ MaxHops - hops \in 0..MaxHops /\ MaxHops - hops # 0
      /\ MaxHops - hops' = (MaxHops - hops) - 1
  BY <1>1, EntriesOK DEF TypeOK, Fetching
<1>3. Chain = Page[(MaxHops - hops) - 1][Target(current)]
  BY <1>1, <1>2, PageDef DEF Chain
<1>4. Chain' = Page[(MaxHops - hops) - 1][Target(current)]
  BY <1>1, <1>2, SameWeb DEF Chain
<1>5. IsPage(Chain) => Page[MaxHops][current] = Chain
  BY <1>2, PageStable DEF Chain
<1> QED
  BY <1>3, <1>4, <1>5

LEMMA ChainEnd ==
    ASSUME TypeOK, IsPage(current)
    PROVE  Chain = current /\ Page[MaxHops][current] = current
<1>1. WebOK /\ current \in Urls /\ MaxHops - hops \in 0..MaxHops /\ MaxHops \in 0..MaxHops
  BY EntriesOK DEF TypeOK
<1> QED
  BY <1>1, PageDef DEF Chain

\* The records only grow, and a page is recorded with its depth.
LEMMA RecordsGrow ==
    ASSUME TypeOK, Record
    PROVE  /\ records'[Len(records) + 1] = <<current, depth>>
           /\ Len(records') = Len(records) + 1 /\ Len(records) \in Nat
           /\ \A i \in 1..Len(records) : i \in 1..Len(records') /\ records'[i] = records[i]
<1>1. /\ records' = Append(records, <<current, depth>>) /\ records \in Seq(Urls \X Depths)
      /\ <<current, depth>> \in Urls \X Depths
  BY DEF Record, TypeOK, Depths
<1> QED
  BY <1>1, AppendProperties

LEMMA RecordedKept ==
    ASSUME TypeOK, [crawl]_vars, NEW p, NEW d \in Nat, NEW e \in Nat, d <= e, Recorded(p, d)
    PROVE  Recorded(p, e)'
<1>1. PICK i \in 1..Len(records) : records[i][1] = p /\ records[i][2] <= d
  BY DEF Recorded
<1>2. i \in 1..Len(records') /\ records'[i] = records[i]
  <2>1. CASE Record
    BY <2>1, RecordsGrow
  <2>2. CASE ~Record
    BY <2>2 DEF crawl, Skip, Take, Redirect, Fail, Finish, vars
  <2> QED
    BY <2>1, <2>2
<1>3. records[i][2] <= e
  BY <1>1, EntriesOK DEF Depths
<1> QED
  BY <1>1, <1>2, <1>3 DEF Recorded

\* What an address that is visited when the next one is taken comes to.
LEMMA VisitedRecorded ==
    ASSUME CrawlInv, step = "next", NEW u \in visited
    PROVE  Recorded(Page[MaxHops][u], depth)
<1>1. depth \in Depths /\ depth <= depth
  BY DEF CrawlInv, TypeOK, Depths
<1> QED
  BY <1>1 DEF CrawlInv, VisitedInv, Chasing

LEMMA CoveredKept ==
    ASSUME CrawlInv, [crawl]_vars, step' # "failed", NEW u \in Urls, NEW d \in Nat, Covered(u, d)
    PROVE  Covered(u, d)'
<1>0. /\ TypeOK /\ Fetching /\ OrderInv /\ WebOK /\ depth \in Nat
      /\ \A j \in 1..Len(queue) : queue[j][1] \in Urls /\ queue[j][2] \in Nat
  BY EntriesOK DEF CrawlInv, TypeOK, Depths
<1>1. Page' = Page /\ \A v : IsPage(v)' = IsPage(v)
  BY SameWeb DEF crawl, Skip, Take, Redirect, Record, Fail, Finish, vars
<1>2. CASE Recorded(Page[MaxHops][u], d)
  BY <1>0, <1>1, <1>2, RecordedKept DEF Covered
<1>3. CASE Queued(u, d)
  <2>1. PICK i \in 1..Len(queue) : queue[i][1] = u /\ queue[i][2] <= d
    BY <1>3 DEF Queued
  <2>2. ASSUME Skip \/ Take, i # 1 PROVE Queued(u, d)'
    <3>1. MayGoOn /\ queue' = Tail(queue)
      BY <2>2 DEF Skip, Take
    <3>2. i - 1 \in 1..Len(queue') /\ queue'[i - 1] = queue[i]
      BY <1>0, <2>1, <2>2, <3>1, Taken, EntriesOK
    <3> QED
      BY <2>1, <3>2 DEF Queued
  <2>3. CASE Skip /\ i = 1
    <3>1. step = "next" /\ queue[1][1] \in visited /\ depth <= d
      BY <1>0, <2>1, <2>3, Taken DEF Skip, OrderInv
    <3>2. Recorded(Page[MaxHops][u], depth)
      BY <2>1, <2>3, <3>1, VisitedRecorded
    <3> QED
      BY <1>0, <1>1, <3>1, <3>2, RecordedKept DEF Covered
  <2>4. CASE Take /\ i = 1
    <3>1. Chain' = Page[MaxHops][u] /\ depth' <= d /\ step' = "fetch"
      BY <1>0, <2>1, <2>4, ChainTaken DEF Take
    <3> QED
      BY <1>1, <3>1 DEF Covered, Chasing
  <2>5. CASE Record
    BY <1>0, <2>1, <2>5, Recording DEF Covered, Queued
  <2>6. CASE Redirect \/ Fail \/ Finish \/ UNCHANGED vars
    BY <2>1, <2>6 DEF Covered, Queued, Redirect, Fail, Finish, vars
  <2> QED
    BY <2>2, <2>3, <2>4, <2>5, <2>6 DEF crawl, Covered
<1>4. CASE Chasing(u, d)
  <2>1. step = "fetch" /\ depth <= d /\ (IsPage(Chain) => Page[MaxHops][u] = Chain)
    BY <1>4 DEF Chasing
  <2>2. CASE Redirect
    <3>1. step' = "fetch" /\ depth' = depth
      BY <2>2 DEF Redirect
    <3>2. Chain' = Chain
      BY <1>0, <2>2, <3>1, ChainKept
    <3> QED
      BY <1>1, <2>1, <3>1, <3>2 DEF Covered, Chasing
  <2>3. CASE Record
    <3>1. IsPage(current) /\ Chain = current
      BY <1>0, <2>3, ChainEnd DEF Record
    <3>2. Page[MaxHops][u] = current
      BY <2>1, <3>1
    <3>3. Recorded(Page[MaxHops][u], d)'
      <4>1. Len(records) + 1 \in 1..Len(records')
        BY <1>0, <2>3, RecordsGrow
      <4> QED
        BY <1>0, <1>1, <2>1, <2>3, <3>2, <4>1, RecordsGrow DEF Recorded
    <3> QED
      BY <3>3 DEF Covered
  <2>4. CASE UNCHANGED vars
    <3>1. Chain' = Chain
      BY <1>1, <2>4 DEF vars, Chain
    <3> QED
      BY <1>1, <2>1, <2>4, <3>1 DEF Covered, Chasing, vars
  <2> QED
    BY <2>1, <2>2, <2>3, <2>4 DEF crawl, Skip, Take, Fail, Finish
<1> QED
  BY <1>2, <1>3, <1>4 DEF Covered

\* What is found stays near, and every visit leads to a record.
LEMMA SoundKept ==
    ASSUME CrawlInv, [crawl]_vars
    PROVE  SoundInv'
<1>0. TypeOK /\ Fetching /\ WebOK /\ depth \in Depths
  BY EntriesOK DEF CrawlInv, TypeOK, Depths
<1>1. /\ \A i \in 1..Len(records) : records[i][1] \in Near[records[i][2]]
      /\ \A i \in 1..Len(queue) : Page[MaxHops][queue[i][1]] \in Near[queue[i][2]]
      /\ step = "fetch" => Chain \in Near[depth]
  BY DEF CrawlInv, SoundInv
<1>2. Page' = Page /\ Near' = Near
  BY SameWeb DEF crawl, Skip, Take, Redirect, Record, Fail, Finish, vars
<1>3. CASE Skip
  <2>1. /\ \A i \in 1..Len(queue') : i + 1 \in 1..Len(queue) /\ queue'[i] = queue[i + 1]
        /\ records' = records /\ step' = "next"
    BY <1>0, <1>3, Taken, EntriesOK DEF Skip
  <2> QED
    BY <1>1, <1>2, <2>1 DEF SoundInv
<1>4. CASE Take
  <2>1. /\ \A i \in 1..Len(queue') : i + 1 \in 1..Len(queue) /\ queue'[i] = queue[i + 1]
        /\ records' = records /\ 1 \in 1..Len(queue)
    BY <1>0, <1>4, Taken, EntriesOK DEF Take
  <2>2. Chain' = Page[MaxHops][queue[1][1]] /\ depth' = queue[1][2]
    BY <1>0, <1>4, ChainTaken
  <2>3. Chain' \in Near'[depth']
    BY <1>1, <1>2, <2>1, <2>2
  <2> QED
    BY <1>1, <1>2, <2>1, <2>3 DEF SoundInv
<1>5. CASE Redirect
  <2>1. /\ queue' = queue /\ records' = records /\ depth' = depth /\ step = "fetch"
        /\ step' = "fetch" => Chain' = Chain
    BY <1>0, <1>5, ChainKept DEF Redirect
  <2>2. step' = "fetch" => Chain' \in Near'[depth']
    BY <1>1, <1>2, <2>1
  <2> QED
    BY <1>1, <1>2, <2>1, <2>2 DEF SoundInv
<1>6. CASE Record
  <2>1. current \in Near[depth] /\ step' = "next" /\ step = "fetch"
    BY <1>0, <1>1, <1>6, ChainEnd DEF Record
  <2>2. ASSUME NEW i \in 1..Len(records') PROVE records'[i][1] \in Near[records'[i][2]]
    <3>1. i \in 1..Len(records) \/ i = Len(records) + 1
      BY <1>0, <1>6, RecordsGrow
    <3> QED
      BY <1>0, <1>1, <1>6, <2>1, <3>1, RecordsGrow
  <2>3. ASSUME NEW i \in 1..Len(queue') PROVE Page[MaxHops][queue'[i][1]] \in Near[queue'[i][2]]
    <3>1. CASE i \in 1..Len(queue) /\ queue'[i] = queue[i]
      BY <1>1, <3>1
    <3>2. ASSUME depth < MaxDepth, NEW u \in ToSet(Links(current)), queue'[i] = <<u, depth + 1>>
          PROVE  Page[MaxHops][queue'[i][1]] \in Near[queue'[i][2]]
      <4>1. Page[MaxHops][u] \in Onward(Near[depth])
        BY <2>1, <3>2 DEF Onward
      <4>2. depth + 1 \in 1..MaxDepth /\ (depth + 1) - 1 = depth
        BY <1>0, <3>2 DEF Depths
      <4>3. Near[depth + 1] = Near[depth] \cup Onward(Near[depth])
        BY <1>0, <4>2, NearDef
      <4> QED
        BY <3>2, <4>1, <4>3
    <3> QED
      BY <1>0, <1>6, <3>1, <3>2, Recording
  <2> QED
    BY <1>2, <2>1, <2>2, <2>3 DEF SoundInv
<1>7. CASE Fail \/ Finish \/ UNCHANGED vars
  <2>1. /\ queue' = queue /\ records' = records /\ depth' = depth
        /\ current' = current /\ hops' = hops /\ web' = web
        /\ (step' = "fetch" => step = "fetch")
    BY <1>7 DEF Fail, Finish, vars
  <2>2. Chain' = Chain
    BY <1>2, <2>1 DEF Chain
  <2>3. step' = "fetch" => Chain' \in Near'[depth']
    BY <1>1, <1>2, <2>1, <2>2
  <2> QED
    BY <1>1, <1>2, <2>1, <2>3 DEF SoundInv
<1> QED
  BY <1>3, <1>4, <1>5, <1>6, <1>7 DEF crawl

LEMMA VisitedKept ==
    ASSUME CrawlInv, [crawl]_vars
    PROVE  VisitedInv'
<1>0. /\ TypeOK /\ Fetching /\ OrderInv /\ WebOK /\ depth \in Nat /\ visited \subseteq Urls
      /\ \A j \in 1..Len(queue) : queue[j][2] \in Nat
  BY EntriesOK DEF CrawlInv, TypeOK, Depths
<1> SUFFICES ASSUME step' # "failed", NEW u \in visited', NEW d \in Depths, depth' <= d
             PROVE  Recorded(Page[MaxHops][u], d)' \/ Chasing(u, d)'
  BY DEF VisitedInv
<1>1. Page' = Page /\ \A v : IsPage(v)' = IsPage(v)
  BY SameWeb DEF crawl, Skip, Take, Redirect, Record, Fail, Finish, vars
<1>2. d \in Nat /\ d <= d
  BY DEF Depths
<1>3. ASSUME Recorded(Page[MaxHops][u], d) PROVE Recorded(Page[MaxHops][u], d)'
  BY <1>0, <1>1, <1>2, <1>3, RecordedKept
<1>4. depth <= d
  <2>1. CASE Take
    BY <1>0, <1>2, <2>1, ChainTaken, Taken DEF Take, OrderInv
  <2>2. CASE ~Take
    BY <2>2 DEF crawl, Skip, Redirect, Record, Fail, Finish, vars
  <2> QED
    BY <2>1, <2>2
<1>5. step # "failed"
  BY DEF crawl, Skip, Take, Redirect, Record, Fail, Finish, vars
<1>6. ASSUME u \in visited PROVE Recorded(Page[MaxHops][u], d) \/ Chasing(u, d)
  BY <1>4, <1>5, <1>6 DEF CrawlInv, VisitedInv
<1>7. CASE Skip \/ Take \/ Finish
  <2>1. step = "next" /\ u \in visited
    BY <1>7 DEF Skip, Take, Finish
  <2> QED
    BY <1>3, <1>6, <2>1 DEF Chasing
<1>8. CASE Redirect
  <2>1. /\ step' = "fetch" /\ depth' = depth /\ step = "fetch"
        /\ u \in visited \/ u = current
    BY <1>8 DEF Redirect
  <2>2. Chain' = Chain /\ (IsPage(Chain) => Page[MaxHops][current] = Chain)
    BY <1>0, <1>8, <2>1, ChainKept
  <2>3. Chasing(u, d) => Chasing(u, d)'
    BY <1>1, <2>1, <2>2 DEF Chasing
  <2>4. u = current => Chasing(u, d)
    BY <1>4, <2>1, <2>2 DEF Chasing
  <2> QED
    BY <1>3, <1>6, <2>1, <2>3, <2>4
<1>9. CASE Record
  <2>1. step = "fetch" /\ IsPage(current) /\ (u \in visited \/ u = current)
    BY <1>9 DEF Record, Seen
  <2>2. Chain = current /\ Page[MaxHops][current] = current
    BY <1>0, <2>1, ChainEnd
  <2>3. CASE Page[MaxHops][u] = current
    <3>1. Len(records) + 1 \in 1..Len(records')
      BY <1>0, <1>9, RecordsGrow
    <3> QED
      BY <1>0, <1>1, <1>4, <1>9, <2>3, <3>1, RecordsGrow DEF Recorded
  <2> QED
    BY <1>3, <1>6, <2>1, <2>2, <2>3 DEF Chasing
<1>10. CASE UNCHANGED vars
  <2>1. Chain' = Chain
    BY <1>1, <1>10 DEF vars, Chain
  <2>2. u \in visited /\ (Chasing(u, d) => Chasing(u, d)')
    BY <1>1, <1>10, <2>1 DEF Chasing, vars
  <2> QED
    BY <1>3, <1>6, <2>2
<1> QED
  BY <1>7, <1>8, <1>9, <1>10 DEF crawl, Fail

LEMMA CompleteKept ==
    ASSUME CrawlInv, [crawl]_vars
    PROVE  CompleteInv'
<1> SUFFICES ASSUME step' # "failed" PROVE CompleteInv'
  BY DEF CompleteInv
<1>0. TypeOK /\ WebOK /\ depth \in Nat /\ step # "failed"
  <2>1. step # "failed"
    BY DEF crawl, Skip, Take, Redirect, Record, Fail, Finish, vars
  <2> QED
    BY <2>1, EntriesOK DEF CrawlInv, TypeOK
<1>1. Page' = Page /\ \A v : Links(v)' = Links(v)
  BY SameWeb DEF crawl, Skip, Take, Redirect, Record, Fail, Finish, vars
<1>2. Covered(First, 0)'
  <2>1. Covered(First, 0)
    BY <1>0 DEF CrawlInv, CompleteInv
  <2> QED
    BY <2>1, CoveredKept
<1>3. ASSUME ~dropped', NEW p \in Urls, NEW d \in Depths, RecordedAt(p, d)', d < MaxDepth,
             NEW u \in ToSet(Links(p))
      PROVE  Covered(u, d + 1)'
  <2>1. ~dropped
    BY <1>0, <1>3 DEF crawl, Skip, Take, Redirect, Record, Fail, Finish, vars, TypeOK
  <2>2. u \in Urls /\ d \in Nat /\ d + 1 \in Nat /\ d + 1 \in Depths /\ d <= d + 1
    BY <1>0, <1>3, SitesOK DEF Depths
  <2>3. CASE RecordedAt(p, d)
    <3>1. Covered(u, d + 1)
      BY <1>0, <1>3, <2>1, <2>3 DEF CrawlInv, CompleteInv, LinksCovered
    <3> QED
      BY <2>2, <3>1, CoveredKept
  <2>4. CASE ~RecordedAt(p, d)
    <3>1. Record
      BY <1>3, <2>4 DEF RecordedAt, crawl, Skip, Take, Redirect, Fail, Finish, vars
    <3>2. p = current /\ d = depth
      <4>1. PICK i \in 1..Len(records') : records'[i] = <<p, d>>
        BY <1>3 DEF RecordedAt
      <4>2. i \notin 1..Len(records)
        BY <1>0, <2>4, <3>1, <4>1, RecordsGrow DEF RecordedAt
      <4>3. i = Len(records) + 1
        BY <1>0, <3>1, <4>1, <4>2, RecordsGrow
      <4> QED
        BY <1>0, <3>1, <4>1, <4>3, RecordsGrow
    <3>3. CASE u \in visited
      <4>1. Recorded(Page[MaxHops][u], d + 1) \/ Chasing(u, d + 1)
        BY <1>0, <2>2, <3>2, <3>3 DEF CrawlInv, VisitedInv
      <4>2. Covered(u, d + 1)
        BY <4>1 DEF Covered
      <4> QED
        BY <2>2, <4>2, CoveredKept
    <3>4. CASE u = current
      <4>1. Page[MaxHops][current] = current
        BY <1>0, <3>1, ChainEnd DEF Record
      <4>2. Len(records) + 1 \in 1..Len(records')
        BY <1>0, <3>1, RecordsGrow
      <4>3. Recorded(Page[MaxHops][u], d + 1)'
        BY <1>0, <1>1, <2>2, <3>1, <3>2, <3>4, <4>1, <4>2, RecordsGrow DEF Recorded
      <4> QED
        BY <4>3 DEF Covered
    <3>5. ASSUME NEW j \in 1..Len(queue'), queue'[j] = <<u, d + 1>>
          PROVE  Covered(u, d + 1)'
      <4>1. queue'[j][1] = u /\ queue'[j][2] <= d + 1
        BY <2>2, <3>5
      <4>2. Queued(u, d + 1)'
        BY <4>1 DEF Queued
      <4> QED
        BY <4>2 DEF Covered
    <3> QED
      BY <1>0, <1>3, <3>1, <3>2, <3>3, <3>4, <3>5, Recording DEF Seen
  <2> QED
    BY <2>3, <2>4
<1>4. ~dropped' => LinksCovered'
  BY <1>1, <1>3 DEF LinksCovered
<1> QED
  BY <1>2, <1>4 DEF CompleteInv

-----------------------------------------------------------------------------
(* The theorems. *)

\* CrawlInv is inductive.
THEOREM CrawlInvCorrect == Spec => []CrawlInv
<1>1. CrawlInv /\ [crawl]_vars => CrawlInv'
  BY TypeKept, SoundKept, VisitedKept, CompleteKept DEF CrawlInv
<1> QED
  BY CrawlInvInit, <1>1, PTL DEF Spec

\* The crawl has found every page that is d links away, no deeper than that.
LEMMA AllNearRecorded ==
    ASSUME CrawlInv, step = "done", queue = <<>>, ~dropped, NEW d \in Depths, NEW p \in Near[d]
    PROVE  Recorded(p, d)
<1>0. WebOK /\ Len(queue) = 0
  BY EntriesOK DEF CrawlInv
<1>1. ASSUME NEW u, NEW e, Covered(u, e) PROVE Recorded(Page[MaxHops][u], e)
  BY <1>0, <1>1 DEF Covered, Queued, Chasing
<1> DEFINE P == {n \in Nat : n \in Depths => \A q \in Near[n] : Recorded(q, n)}
<1>2. 0 \in P
  <2>1. Covered(First, 0)
    BY DEF CrawlInv, CompleteInv
  <2> QED
    BY <1>0, <1>1, <2>1, NearDef
<1>3. ASSUME NEW n \in Nat, n \in P PROVE n + 1 \in P
  <2> SUFFICES ASSUME n + 1 \in Depths, NEW q \in Near[n + 1] PROVE Recorded(q, n + 1)
    OBVIOUS
  <2>1. n + 1 \in 1..MaxDepth /\ (n + 1) - 1 = n /\ n \in Depths
    BY DEF Depths
  <2>2. ASSUME NEW r \in Near[n]
        PROVE  \E i \in 1..Len(records) :
                  records[i][1] = r /\ records[i][2] <= n /\ records[i][2] \in Nat
    <3>1. Recorded(r, n)
      BY <1>3, <2>1, <2>2
    <3> QED
      BY <3>1, EntriesOK DEF Recorded, CrawlInv, Depths
  <2>3. CASE q \in Near[n]
    BY <2>2, <2>3 DEF Recorded
  <2>4. ASSUME NEW r \in Near[n], NEW u \in ToSet(Links(r)), q = Page[MaxHops][u]
        PROVE  Recorded(q, n + 1)
    <3>1. PICK i \in 1..Len(records) :
             records[i][1] = r /\ records[i][2] <= n /\ records[i][2] \in Nat
      BY <2>2, <2>4
    <3>2. /\ records[i][2] < MaxDepth /\ r \in Urls /\ records[i][2] \in Depths
          /\ records[i] = <<r, records[i][2]>>
      <4>1. records[i] \in Urls \X Depths
        BY <3>1 DEF CrawlInv, TypeOK, Depths
      <4> QED
        BY <2>1, <3>1, <4>1
    <3>3. Covered(u, records[i][2] + 1)
      BY <2>4, <3>1, <3>2 DEF CrawlInv, CompleteInv, LinksCovered, RecordedAt
    <3>4. Recorded(q, records[i][2] + 1)
      BY <1>1, <2>4, <3>3
    <3> QED
      BY <3>1, <3>4, EntriesOK DEF Recorded, CrawlInv, Depths
  <2>5. q \in Near[n] \/ q \in Onward(Near[n])
    BY <1>0, <2>1, NearDef
  <2> QED
    BY <2>3, <2>4, <2>5 DEF Onward
<1> HIDE DEF P
<1>4. d \in P
  BY <1>2, <1>3, SetInduction DEF Depths
<1> QED
  BY <1>4 DEF P

\* A crawl finds the pages near the first one, and no others, in every web.
THEOREM FindsPagesNearCorrect == Spec => []FindsPagesNear
<1>1. CrawlInv => FindsPagesNear
  <2> SUFFICES ASSUME CrawlInv PROVE FindsPagesNear
    OBVIOUS
  <2>1. \A i \in 1..Len(records) : records[i][1] \in Near[records[i][2]]
    BY DEF CrawlInv, SoundInv
  <2>2. ASSUME step = "done", ~dropped, queue = <<>>, NEW p \in Near[MaxDepth]
        PROVE  p \in {records[i][1] : i \in 1..Len(records)}
    <3>1. MaxDepth \in Depths
      BY DEF Depths
    <3>2. Recorded(p, MaxDepth)
      BY <2>2, <3>1, AllNearRecorded
    <3> QED
      BY <3>2 DEF Recorded
  <2> QED
    BY <2>1, <2>2 DEF FindsPagesNear
<1> QED
  BY <1>1, CrawlInvCorrect, PTL

\* Every step of a crawl uses something up, in every web.
THEOREM JobRunsDownCorrect == Spec => JobRunsDown
<1> DEFINE Down == step' \in {"next", "fetch"} =>
                      \/ Requested \subseteq Requested' /\ Requested' # Requested
                      \/ Requested' = Requested /\ HopsLeft' < HopsLeft
                      \/ /\ Requested' = Requested /\ HopsLeft' = HopsLeft
                         /\ Len(queue') < Len(queue)
<1>1. ASSUME CrawlInv, crawl, step' \in {"next", "fetch"} PROVE Down
  <2>0. TypeOK /\ hops \in Nat /\ MaxHops \in Nat /\ hops <= MaxHops /\ Len(queue) \in Nat
    BY <1>1, EntriesOK DEF CrawlInv, TypeOK
  <2>1. CASE Skip
    BY <2>0, <2>1, Taken DEF Skip, Requested, HopsLeft
  <2>2. CASE Take
    <3>1. Requested = visited /\ Requested' = visited \cup {current'} /\ current' \notin visited
      BY <2>2 DEF Take, Requested
    <3> QED
      BY <3>1
  <2>3. CASE Redirect
    <3>1. /\ Requested = visited \cup {current}
          /\ Requested' = visited \cup {current} \cup {current'}
          /\ HopsLeft = 1 + MaxHops - hops /\ HopsLeft' = 1 + MaxHops - (hops + 1)
      BY <1>1, <2>3 DEF Redirect, Requested, HopsLeft
    <3>2. HopsLeft' < HopsLeft
      BY <2>0, <3>1
    <3> QED
      BY <3>1, <3>2
  <2>4. CASE Record
    <3>1. Requested' = Requested /\ HopsLeft' = 0 /\ HopsLeft = 1 + MaxHops - hops
      BY <2>4 DEF Record, Requested, HopsLeft, Seen
    <3>2. HopsLeft' < HopsLeft
      BY <2>0, <3>1
    <3> QED
      BY <3>1, <3>2
  <2> QED
    BY <1>1, <2>1, <2>2, <2>3, <2>4 DEF crawl, Fail, Finish
<1>2. CrawlInv /\ [crawl]_vars => [Down]_vars
  BY <1>1
<1> QED
  BY CrawlInvCorrect, <1>2, PTL DEF Spec, JobRunsDown

=============================================================================
