------------------------------ MODULE Chunking ------------------------------
(***************************************************************************)
(* chunk_text: cuts a text into chunks of at most Target tokens that        *)
(* overlap, and only where a character ends.  A token is a few bytes, and   *)
(* a character may be spread over several tokens, so not every number of    *)
(* tokens is such a place.  The text is the set of these places; a chunk    *)
(* is the tokens from lo to hi - 1; one step is one turn of the loop.       *)
(***************************************************************************)
EXTENDS Integers

CONSTANTS
    Target,      \* target_tokens
    Overlap,     \* min(target_tokens - 1, int(target_tokens * overlap_ratio))
    CharTokens   \* the most tokens from one such place to the next

\* Target and Overlap are 750 and 90 in every call, so CharTokens may be 330; a
\* character of four bytes takes at most 4 tokens unless tokens that end one
\* character and begin the next follow each other.
ASSUME ChunkingAssumption ==
    /\ Target \in Nat /\ Overlap \in Nat /\ CharTokens \in Nat \ {0}
    /\ Target >= Overlap + 2 * CharTokens

VARIABLES
    n,           \* the number of tokens
    boundaries,  \* the numbers of tokens after which no character is open
    start,       \* where the next chunk starts
    lo, hi,      \* the last chunk
    covered,     \* auxiliary: the tokens that are in some chunk
    done

vars == <<n, boundaries, start, lo, hi, covered, done>>

\* Every character ends within CharTokens tokens.
Characters(bs, len) ==
    /\ 0 \in bs /\ len \in bs
    /\ \A b \in bs : b < len => \E c \in bs : b < c /\ c <= b + CharTokens

TypeOK ==
    /\ n \in Nat
    /\ boundaries \subseteq 0..n
    /\ Characters(boundaries, n)
    /\ start \in 0..n /\ lo \in 0..n /\ hi \in 0..n
    /\ covered \subseteq 0..n
    /\ done \in BOOLEAN

\* A text of len tokens; the text without a token has no chunks.
Start(len, bs) ==
    /\ bs \subseteq 0..len
    /\ Characters(bs, len)
    /\ n = len /\ boundaries = bs
    /\ start = 0 /\ lo = 0 /\ hi = 0
    /\ covered = {}
    /\ done = (len = 0)

Init == \E len \in Nat : \E bs \in SUBSET (0..len) : Start(len, bs)

\* bisect_right(boundaries, x) - 1, and bisect_right(boundaries, x).
IsLastUpTo(b, x) == b \in boundaries /\ b <= x /\ \A c \in boundaries : c <= x => c <= b
IsFirstAfter(b, x) == b \in boundaries /\ x < b /\ \A c \in boundaries : x < c => b <= c

\* A boundary that is more than from and at most to.
Between(from, to) == \E b \in boundaries : from < b /\ b <= to

DesiredEnd == IF start + Target <= n THEN start + Target ELSE n

\* Mutated forms of IsEnd: where the target is reached, or the first boundary
\* from there.
IsDesiredEnd(end) == end = DesiredEnd
IsEndAfter(end) == IsFirstAfter(end, DesiredEnd - 1)

\* The last boundary up to the target, or, for one long character, its end.
IsEnd(end) ==
    IF Between(start, DesiredEnd) THEN IsLastUpTo(end, DesiredEnd) ELSE IsFirstAfter(end, start)

\* Mutated forms of IsNextStart: the boundary after the end, or the one after
\* the start of this chunk.
SkipsOn(s, end) == IsFirstAfter(s, end)
OneOn(s, end) == IsFirstAfter(s, start)

\* The last boundary at which the overlap can begin, if that is further than
\* this chunk's start; otherwise the next chunk does not overlap.
IsNextStart(s, end) ==
    IF Between(start, end - Overlap) THEN IsLastUpTo(s, end - Overlap) ELSE s = end

cut ==
    /\ ~done
    /\ \E end \in 0..n :
         /\ IsEnd(end)
         /\ lo' = start /\ hi' = end
         /\ covered' = covered \cup (start..end - 1)
         /\ done' = (end = n)
         /\ IF end = n
            THEN UNCHANGED start
            ELSE \E s \in 0..n : IsNextStart(s, end) /\ start' = s
    /\ UNCHANGED <<n, boundaries>>

Finished == done /\ UNCHANGED vars

Next == cut \/ Finished

Spec == Init /\ [][Next]_vars

-----------------------------------------------------------------------------
(* Properties. *)

\* A chunk never begins or ends inside a character, so its bytes can be decoded.
CutsBetweenCharacters == lo \in boundaries /\ hi \in boundaries /\ start \in boundaries

\* No token is lost: the chunks so far hold all tokens up to the end of the
\* last one, the next one leaves no gap, and in the end they hold the whole text.
NothingIsLost ==
    /\ covered = 0..hi - 1
    /\ start <= hi
    /\ done => covered = 0..n - 1

\* No chunk is longer than the target, and what it shares with the next one is
\* the overlap and less than one more character.
ChunksFit ==
    /\ hi <= lo + Target
    /\ ~done => hi <= start + Overlap + CharTokens - 1

\* Every chunk ends further than the one before, so none lies within another
\* and the loop comes to an end, whatever the rounding at its two ends does.
ChunksAdvance == [][hi' > hi]_<<lo, hi>>

=============================================================================
