-------------------------------- MODULE Crawl -------------------------------
(***************************************************************************)
(* A job of the browser collector in its http mode: from one address it    *)
(* follows links breadth first, to a depth and up to a number of pages,    *)
(* and redirects up to a number of hops.  Any fetch may fail (an address   *)
(* that is not public, an HTTP error, the download limit, the deadline),   *)
(* and then the job does.                                                  *)
(***************************************************************************)
EXTENDS Integers, Sequences, SequencesExt

CONSTANTS
    Urls,
    First,       \* payload.url
    Webs,        \* the webs there may be: [Urls -> Sites]
    MaxPages,    \* payload.max_pages
    MaxDepth,    \* payload.max_depth
    MaxHops,     \* requests in a chain of redirects; 6
    QueueLimit   \* 100

\* A page has links, a redirect has an address.
Sites == [redirect : SUBSET Urls, links : Seq(Urls)]

ASSUME CrawlAssumption ==
    /\ First \in Urls
    /\ Webs \subseteq [Urls -> Sites]
    /\ MaxPages \in Nat \ {0} /\ MaxDepth \in Nat
    /\ MaxHops \in Nat \ {0} /\ QueueLimit \in Nat \ {0}

VARIABLES
    web,      \* what the addresses answer: a page with links, or a redirect
    step,     \* "next": the loop takes an address; "fetch": a request is out
    queue,    \* addresses with their depth
    visited,
    records,  \* the pages found, with the depth they were found at
    current,  \* the address that is requested
    depth,    \* the depth of the address that was taken
    hops,     \* requests made for it
    dropped   \* auxiliary: a link was left out because the queue was full

vars == <<web, step, queue, visited, records, current, depth, hops, dropped>>

IsPage(u) == web[u].redirect = {}
Target(u) == CHOOSE v \in web[u].redirect : TRUE  \* of a redirect
Links(u) == web[u].links

TypeOK ==
    /\ web \in Webs
    /\ step \in {"next", "fetch", "done", "failed"}
    /\ queue \in Seq(Urls \X (0..MaxDepth)) /\ Len(queue) <= QueueLimit
    /\ visited \subseteq Urls
    /\ records \in Seq(Urls \X (0..MaxDepth)) /\ Len(records) <= MaxPages
    /\ current \in Urls
    /\ depth \in 0..MaxDepth
    /\ hops \in 0..MaxHops
    /\ dropped \in BOOLEAN

Init ==
    /\ web \in Webs
    /\ step = "next"
    /\ queue = <<<<First, 0>>>>
    /\ visited = {} /\ records = <<>>
    /\ current = First /\ depth = 0 /\ hops = 0
    /\ dropped = FALSE

MayGoOn == queue # <<>> /\ Len(records) < MaxPages

\* The next address has been visited since it was queued.
Skip ==
    /\ step = "next" /\ MayGoOn
    /\ Head(queue)[1] \in visited
    /\ queue' = Tail(queue)
    /\ UNCHANGED <<web, step, visited, records, current, depth, hops, dropped>>

\* Mutated form of Take: the last address of the queue is taken.
TakeLast ==
    /\ step = "next" /\ MayGoOn
    /\ Last(queue)[1] \notin visited
    /\ step' = "fetch"
    /\ current' = Last(queue)[1] /\ depth' = Last(queue)[2] /\ hops' = 0
    /\ queue' = Front(queue)
    /\ UNCHANGED <<web, visited, records, dropped>>

Take ==
    /\ step = "next" /\ MayGoOn
    /\ Head(queue)[1] \notin visited
    /\ step' = "fetch"
    /\ current' = Head(queue)[1] /\ depth' = Head(queue)[2] /\ hops' = 0
    /\ queue' = Tail(queue)
    /\ UNCHANGED <<web, visited, records, dropped>>

\* Mutated form of Redirect: every redirect is followed.
RedirectForever ==
    /\ step = "fetch" /\ ~IsPage(current)
    /\ visited' = visited \cup {current}
    /\ current' = Target(current)
    /\ UNCHANGED <<web, step, queue, records, depth, hops, dropped>>

\* Each address on the way counts as visited; after MaxHops requests without a
\* page the job fails.
Redirect ==
    /\ step = "fetch" /\ ~IsPage(current)
    /\ visited' = visited \cup {current}
    /\ hops' = hops + 1
    /\ IF hops' = MaxHops
       THEN step' = "failed" /\ UNCHANGED current
       ELSE current' = Target(current) /\ UNCHANGED step
    /\ UNCHANGED <<web, queue, records, depth, dropped>>

Seen == visited \cup {current}

\* The queue after the first i links of the page: those not visited yet are
\* appended, as far as there is room.
Enqueued[i \in 0..Len(Links(current))] ==
    IF i = 0 THEN queue
    ELSE IF Links(current)[i] \notin Seen /\ Len(Enqueued[i - 1]) < QueueLimit
         THEN Append(Enqueued[i - 1], <<Links(current)[i], depth + 1>>)
         ELSE Enqueued[i - 1]

NoRoomFor(i) == Links(current)[i] \notin Seen /\ Len(Enqueued[i - 1]) >= QueueLimit

Record ==
    /\ step = "fetch" /\ IsPage(current)
    /\ visited' = Seen
    /\ records' = Append(records, <<current, depth>>)
    /\ IF depth < MaxDepth
       THEN /\ queue' = Enqueued[Len(Links(current))]
            /\ dropped' = (dropped \/ \E i \in 1..Len(Links(current)) : NoRoomFor(i))
       ELSE UNCHANGED <<queue, dropped>>
    /\ step' = "next"
    /\ UNCHANGED <<web, current, depth, hops>>

Fail ==
    /\ step = "fetch"
    /\ step' = "failed"
    /\ UNCHANGED <<web, queue, visited, records, current, depth, hops, dropped>>

Finish ==
    /\ step = "next" /\ ~MayGoOn
    /\ step' = "done"
    /\ UNCHANGED <<web, queue, visited, records, current, depth, hops, dropped>>

crawl == Skip \/ Take \/ Redirect \/ Record \/ Fail \/ Finish

Spec == Init /\ [][crawl]_vars

-----------------------------------------------------------------------------
(* Properties. *)

\* Where an address leads within h redirects.
Page[h \in 0..MaxHops] ==
    [u \in Urls |-> IF IsPage(u) \/ h = 0 THEN u ELSE Page[h - 1][Target(u)]]

\* The pages within d links of the first one.
Near[d \in 0..MaxDepth] ==
    IF d = 0 THEN {Page[MaxHops][First]}
    ELSE Near[d - 1] \cup {Page[MaxHops][u] : u \in UNION {ToSet(Links(p)) : p \in Near[d - 1]}}

\* No page is stored that is further away than the depth it was found at, and a
\* job that ends before a limit has found every page within its depth: none is
\* missed because it was first met at a greater depth, or on the way of a
\* redirect.
FindsPagesNear ==
    /\ \A i \in 1..Len(records) : records[i][1] \in Near[records[i][2]]
    /\ step = "done" /\ ~dropped /\ queue = <<>>
          => Near[MaxDepth] \subseteq {records[i][1] : i \in 1..Len(records)}

\* Addresses that a request was made for, or is about to be.
Requested == visited \cup (IF step = "fetch" THEN {current} ELSE {})

\* Requests left of the chain of redirects.
HopsLeft == IF step = "fetch" THEN 1 + MaxHops - hops ELSE 0

\* A crawl comes to an end in every web of cycles and redirect loops, within a
\* number of steps that the number of addresses and the limits bound: every
\* step requests an address for the first time, or uses up a request of the
\* chain of redirects, or an entry of the queue, and gives none of the former
\* back.
JobRunsDown ==
    [][step' \in {"next", "fetch"} =>
         \/ Requested \subseteq Requested' /\ Requested' # Requested
         \/ Requested' = Requested /\ HopsLeft' < HopsLeft
         \/ Requested' = Requested /\ HopsLeft' = HopsLeft /\ Len(queue') < Len(queue)]_vars

=============================================================================
