--------------------------- MODULE ChunkingProofs ---------------------------
(* Chunking: what a chunk is, for every text and all permitted settings. *)
EXTENDS Chunking, TLAPS

\* Before the end of the text there is something left to cut.
Unfinished == ~done => start < n /\ hi < n

IInv ==
    /\ TypeOK
    /\ CutsBetweenCharacters
    /\ NothingIsLost
    /\ ChunksFit
    /\ Unfinished

\* A chunk holds something, ends at a boundary, fits, and stops at most one
\* character short of the target unless the text ends.
LEMMA EndOfChunk ==
    ASSUME TypeOK, start \in boundaries, start < n,
           NEW end \in 0..n, IsEnd(end)
    PROVE  /\ end \in boundaries
           /\ start < end /\ end <= start + Target
           /\ end # n => start + Target < end + CharTokens
<1> USE ChunkingAssumption DEF TypeOK
<1>1. PICK c \in boundaries : start < c /\ c <= start + CharTokens
  BY DEF Characters
<1>2. c <= DesiredEnd
  BY <1>1 DEF DesiredEnd
<1>3. IsLastUpTo(end, DesiredEnd)
  BY <1>1, <1>2 DEF IsEnd, Between
<1>4. end \in boundaries /\ end <= DesiredEnd /\ c <= end
  BY <1>2, <1>3 DEF IsLastUpTo
<1>5. start < end /\ end <= start + Target
  BY <1>1, <1>4 DEF DesiredEnd
<1>6. ASSUME end # n PROVE start + Target < end + CharTokens
  <2>1. n \in boundaries
    BY DEF Characters
  <2>2. DesiredEnd = start + Target /\ start + Target < n
    BY <1>3, <1>6, <2>1 DEF DesiredEnd, IsLastUpTo
  <2>3. PICK d \in boundaries : end < d /\ d <= end + CharTokens
    BY <1>4, <1>6 DEF Characters
  <2>4. ~(d <= DesiredEnd)
    BY <1>3, <2>3 DEF IsLastUpTo
  <2> QED
    BY <2>2, <2>3, <2>4
<1> QED
  BY <1>4, <1>5, <1>6

\* The next chunk starts further on, without a gap, and shares at most the
\* overlap and less than one character with this one.
LEMMA StartOfNext ==
    ASSUME TypeOK, start \in boundaries,
           NEW end \in boundaries, start < end, end < n,
           NEW s \in 0..n, IsNextStart(s, end)
    PROVE  /\ s \in boundaries
           /\ start < s /\ s <= end
           /\ end <= s + Overlap + CharTokens - 1
<1> USE ChunkingAssumption DEF TypeOK
<1>1. CASE Between(start, end - Overlap)
  <2>1. s \in boundaries /\ s <= end - Overlap /\ \A c \in boundaries : c <= end - Overlap => c <= s
    BY <1>1 DEF IsNextStart, IsLastUpTo
  <2>2. PICK b \in boundaries : start < b /\ b <= end - Overlap
    BY <1>1 DEF Between
  <2>3. b <= s
    BY <2>1, <2>2
  <2>4. PICK c \in boundaries : s < c /\ c <= s + CharTokens
    BY <2>1 DEF Characters
  <2>5. ~(c <= end - Overlap)
    BY <2>1, <2>4
  <2> QED
    BY <2>1, <2>2, <2>3, <2>4, <2>5
<1>2. CASE ~Between(start, end - Overlap)
  BY <1>2 DEF IsNextStart
<1> QED
  BY <1>1, <1>2

\* The invariant holds before the first chunk.
LEMMA InvariantInit == Init => IInv
<1> SUFFICES ASSUME NEW len \in Nat, NEW bs \in SUBSET (0..len), Start(len, bs) PROVE IInv
  BY DEF Init
<1>1. n = len /\ boundaries = bs /\ start = 0 /\ lo = 0 /\ hi = 0 /\ covered = {}
  BY DEF Start
<1>2. Characters(boundaries, n) /\ 0 \in boundaries
  BY DEF Start, Characters
<1>3. done \in BOOLEAN /\ (done => n = 0) /\ (~done => 0 < n)
  <2>1. done = (len = 0)
    BY DEF Start
  <2>2. done \in BOOLEAN /\ (done <=> n = 0)
    BY <1>1, <2>1, Zenon
  <2> QED
    BY <1>1, <2>2
<1>4. TypeOK
  BY <1>1, <1>2, <1>3 DEF TypeOK
<1>5. CutsBetweenCharacters /\ NothingIsLost
  <2>1. covered = 0..hi - 1
    BY ONLY <1>1
  <2>2. done => covered = 0..n - 1
    BY ONLY <1>1, <1>3, <2>1
  <2> QED
    BY <1>1, <1>2, <2>1, <2>2 DEF CutsBetweenCharacters, NothingIsLost
<1>6. ChunksFit /\ Unfinished
  BY <1>1, <1>3, ChunkingAssumption DEF ChunksFit, Unfinished
<1> QED
  BY <1>4, <1>5, <1>6 DEF IInv

\* One turn of the loop preserves the invariant and ends further on.
LEMMA CutPreserves == IInv /\ cut => IInv' /\ hi' > hi
<1> SUFFICES ASSUME IInv, cut PROVE IInv' /\ hi' > hi
  OBVIOUS
<1> USE ChunkingAssumption DEF IInv
<1>1. PICK end \in 0..n :
        /\ IsEnd(end)
        /\ lo' = start /\ hi' = end
        /\ covered' = covered \cup (start..end - 1)
        /\ done' = (end = n)
        /\ IF end = n
           THEN UNCHANGED start
           ELSE \E s \in 0..n : IsNextStart(s, end) /\ start' = s
  BY DEF cut
<1>2. ~done /\ start < n /\ hi < n /\ n' = n /\ boundaries' = boundaries
  BY DEF cut, Unfinished
<1>3. /\ n \in Nat /\ boundaries \subseteq 0..n /\ start \in boundaries
      /\ start \in 0..n /\ hi \in 0..n /\ start <= hi
      /\ hi <= start + Overlap + CharTokens - 1
  BY <1>2 DEF TypeOK, CutsBetweenCharacters, NothingIsLost, ChunksFit
<1>4. /\ end \in boundaries
      /\ start < end /\ end <= start + Target
      /\ end # n => start + Target < end + CharTokens
  BY <1>1, <1>2, <1>3, EndOfChunk
<1>5. hi < end
  BY <1>2, <1>3, <1>4
<1>6. end # n => /\ start' \in boundaries /\ start' \in 0..n
                 /\ start' <= end
                 /\ end <= start' + Overlap + CharTokens - 1
  <2> SUFFICES ASSUME end # n
               PROVE  /\ start' \in boundaries /\ start' \in 0..n
                      /\ start' <= end
                      /\ end <= start' + Overlap + CharTokens - 1
    OBVIOUS
  <2>1. PICK s \in 0..n : IsNextStart(s, end) /\ start' = s
    BY <1>1
  <2>2. end < n
    BY <1>3
  <2> QED
    BY <1>3, <1>4, <2>1, <2>2, StartOfNext
<1>7. end = n => start' = start
  BY <1>1
<1>8. covered' = 0..end - 1
  <2>1. covered = 0..hi - 1
    BY DEF NothingIsLost
  <2> QED
    BY <1>1, <1>3, <1>5, <2>1
<1>9. done' \in BOOLEAN /\ (done' => end = n) /\ (~done' => end # n)
  BY <1>1
<1>10. TypeOK'
  BY <1>9, <1>1, <1>2, <1>3, <1>6, <1>7, <1>8 DEF TypeOK, Characters
<1>11. CutsBetweenCharacters'
  BY <1>1, <1>2, <1>3, <1>4, <1>6, <1>7 DEF CutsBetweenCharacters
<1>12. NothingIsLost'
  <2>1. hi' = end /\ n' = n /\ start' <= end
    BY <1>1, <1>2, <1>3, <1>4, <1>6, <1>7
  <2> QED
    BY <1>8, <1>9, <2>1 DEF NothingIsLost
<1>13. ChunksFit'
  BY <1>1, <1>4, <1>6, <1>9 DEF ChunksFit
<1>14. Unfinished'
  <2> SUFFICES ASSUME end # n PROVE start' < n /\ end < n
    BY <1>1, <1>2, <1>9 DEF Unfinished
  <2>1. start' \in 0..n /\ start' <= end
    BY <1>6
  <2> QED
    BY <1>3, <2>1
<1> QED
  BY <1>1, <1>5, <1>10, <1>11, <1>12, <1>13, <1>14

-----------------------------------------------------------------------------

\* The invariant holds in every state.
THEOREM InvariantCorrect == Spec => []IInv
<1>1. IInv /\ [Next]_vars => IInv'
  <2> SUFFICES ASSUME IInv, [Next]_vars PROVE IInv'
    OBVIOUS
  <2>1. CASE cut
    BY <2>1, CutPreserves
  <2>2. CASE UNCHANGED vars
    BY <2>2 DEF vars, IInv, TypeOK, CutsBetweenCharacters, NothingIsLost, ChunksFit,
                Unfinished, Characters
  <2> QED
    BY <2>1, <2>2 DEF Next, Finished
<1> QED
  BY InvariantInit, <1>1, PTL DEF Spec

\* Every variable keeps its type: chunk_text stays within the text.
THEOREM TypeCorrect == Spec => []TypeOK
<1>1. IInv => TypeOK
  BY DEF IInv
<1> QED
  BY InvariantCorrect, <1>1, PTL

\* chunk_text cuts only between characters, so every chunk can be decoded.
THEOREM CutsBetweenCharactersCorrect == Spec => []CutsBetweenCharacters
<1>1. IInv => CutsBetweenCharacters
  BY DEF IInv
<1> QED
  BY InvariantCorrect, <1>1, PTL

\* The chunks chunk_text returns hold every token of the text.
THEOREM NothingIsLostCorrect == Spec => []NothingIsLost
<1>1. IInv => NothingIsLost
  BY DEF IInv
<1> QED
  BY InvariantCorrect, <1>1, PTL

\* No chunk has more tokens than the target, and neighbours share no more than
\* the overlap and a part of a character.
THEOREM ChunksFitCorrect == Spec => []ChunksFit
<1>1. IInv => ChunksFit
  BY DEF IInv
<1> QED
  BY InvariantCorrect, <1>1, PTL

\* Every turn of the loop ends further on, so none is without effect.
THEOREM ChunksAdvanceCorrect == Spec => ChunksAdvance
<1>1. IInv /\ [Next]_vars => [hi' > hi]_<<lo, hi>>
  <2> SUFFICES ASSUME IInv, [Next]_vars PROVE [hi' > hi]_<<lo, hi>>
    OBVIOUS
  <2>1. CASE cut
    BY <2>1, CutPreserves
  <2>2. CASE UNCHANGED vars
    BY <2>2 DEF vars
  <2> QED
    BY <2>1, <2>2 DEF Next, Finished
<1> QED
  BY InvariantCorrect, <1>1, PTL DEF Spec, ChunksAdvance

=============================================================================
