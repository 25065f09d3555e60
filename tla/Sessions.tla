------------------------------ MODULE Sessions ------------------------------
(***************************************************************************)
(* The owner's sessions: one browser whose tabs share the cookies, the     *)
(* rows of auth_session, and the token against forged writes, which is     *)
(* kept in a signed cookie, as a hash in the row, and in each tab.         *)
(*                                                                         *)
(* A write that is refused for its token asks GET /auth/session for a      *)
(* valid one, a request that all refused writes of the tab share, and is   *)
(* sent once more.  GET /auth/session keeps the token if cookie and row    *)
(* agree on it, and else puts a new one into both; it reads the row and    *)
(* updates it later, without a lock, and the cookie reaches the browser    *)
(* later still.  A browser that drops an expired cookie is like one that   *)
(* sends it: both are invalid.                                             *)
(***************************************************************************)
EXTENDS Integers

CONSTANTS
    Tabs,
    Writes,       \* the write requests, a save or a logout
    TabOf,        \* [Writes -> Tabs]
    MaxTokens,    \* bound: tokens issued
    MaxLogins     \* bound: sessions

ASSUME SessionsAssumption ==
    /\ TabOf \in [Writes -> Tabs]
    /\ MaxTokens \in Nat \ {0} /\ MaxLogins \in Nat \ {0}

VARIABLES
    owner,     \* an owner has been set up
    made,      \* tokens issued so far
    expired,   \* tokens whose ten minutes are over: the first ones
    logins,    \* sessions made so far
    row,       \* [SessionIds -> Token]: csrf_hash of the auth_session row, or None
    over,      \* sessions past their expires_at: the first ones
    jarS,      \* the session cookie
    jarT,      \* the token in the csrf cookie
    form,      \* what a login or setup page got from GET /auth/csrf: of several
               \* pages only the last one's token is the one in the cookie
    page,      \* [Tabs -> Token]: csrfToken of the tab's session query, or None
    fetch,     \* [Fetches -> FetchState]: requests for GET /auth/session
    write,     \* [Writes -> WriteState]
    applied,   \* auxiliary, [Writes -> Nat]: times it was carried out
    disturbed  \* auxiliary: writes with which somebody else's login, logout,
               \* rotation or cookie, or time, has interfered

vars == <<owner, made, expired, logins, row, over, jarS, jarT, form, page,
          fetch, write, applied, disturbed>>

None == 0
Token == 0..MaxTokens
SessionIds == 1..MaxLogins
Fetches == Tabs \X {"load", "refresh"}  \* the session query, and api.ts: sessionRefresh
Ended == {"idle", "refused"}
FetchState == [step : {"none", "sent", "rotate", "answer", "unauthorized", "error"},
               session : 0..MaxLogins, cookie : Token, token : Token, sets : BOOLEAN]
WriteState == [step : Ended \cup {"sent", "answered", "invalid", "waiting", "unauthorized"},
               kind : {"save", "logout"}, token : Token, cookie : Token,
               session : 0..MaxLogins, retried : BOOLEAN]
NoFetch == [step |-> "none", session |-> 0, cookie |-> None, token |-> None, sets |-> FALSE]
NoWrite == [step |-> "idle", kind |-> "save", token |-> None, cookie |-> None,
            session |-> 0, retried |-> FALSE]

TypeOK ==
    /\ owner \in BOOLEAN
    /\ made \in Token /\ logins \in 0..MaxLogins
    /\ expired \in 0..made
    /\ row \in [SessionIds -> Token]
    /\ over \in 0..logins
    /\ jarS \in 0..MaxLogins /\ jarT \in Token
    /\ form \in Token /\ page \in [Tabs -> Token]
    /\ fetch \in [Fetches -> FetchState]
    /\ write \in [Writes -> WriteState]
    /\ applied \in [Writes -> 0..2]
    /\ disturbed \subseteq Writes

\* Nobody has set up the system, or the browser has a session already.
Init ==
    /\ \/ /\ owner = FALSE /\ made = 0 /\ logins = 0 /\ jarS = 0 /\ jarT = None
          /\ row = [s \in SessionIds |-> None]
       \/ /\ owner = TRUE /\ made = 1 /\ logins = 1 /\ jarS = 1 /\ jarT = 1
          /\ row = [s \in SessionIds |-> IF s = 1 THEN 1 ELSE None]
    /\ expired = 0
    /\ over = 0
    /\ form = None /\ page = [t \in Tabs |-> None]
    /\ fetch = [f \in Fetches |-> NoFetch]
    /\ write = [w \in Writes |-> NoWrite]
    /\ applied = [w \in Writes |-> 0]
    /\ disturbed = {}

\* _new_csrf: a token of its own, valid for ten minutes.
NewToken ==
    /\ made < MaxTokens
    /\ made' = made + 1
    /\ UNCHANGED expired

Disturb(ws) ==
    disturbed' = {w \in disturbed \cup ws : write[w].step # "idle"}
OfOthers(t) == {w \in Writes : TabOf[w] # t}
Fresh == expired + 1..made

\* _current_session: there is a cookie, a row, and time left.
Live(s) == s > over /\ row[s] # None

-----------------------------------------------------------------------------
(* Setup and login. *)

SignInFrame == UNCHANGED <<over, page, fetch, write, applied>>

csrf ==
    /\ NewToken
    /\ jarT' = made + 1
    /\ form' = made + 1
    /\ Disturb(Writes)
    /\ SignInFrame
    /\ UNCHANGED <<owner, logins, row, jarS>>

FormIsValid == form \in Fresh /\ form = jarT

create_owner ==
    /\ FormIsValid
    /\ ~owner
    /\ owner' = TRUE
    /\ jarT' = None
    /\ form' = None
    /\ Disturb(Writes)
    /\ SignInFrame
    /\ UNCHANGED <<made, expired, logins, row, jarS>>

\* The cookies arrive, or the answer is lost.
login ==
    /\ FormIsValid
    /\ owner
    /\ logins < MaxLogins
    /\ NewToken
    /\ logins' = logins + 1
    /\ row' = [row EXCEPT ![logins + 1] = made + 1]
    /\ \/ jarS' = logins + 1 /\ jarT' = made + 1
       \/ UNCHANGED <<jarS, jarT>>
    /\ form' = None
    /\ Disturb(Writes)
    /\ SignInFrame
    /\ UNCHANGED owner

-----------------------------------------------------------------------------
(* GET /auth/session. *)

FetchFrame == UNCHANGED <<owner, logins, over, jarS, form, applied>>

Sent == [NoFetch EXCEPT !.step = "sent", !.session = jarS, !.cookie = jarT]

\* The workspace is mounted.
Load(t) ==
    /\ fetch[<<t, "load">>].step = "none"
    /\ fetch' = [fetch EXCEPT ![<<t, "load">>] = Sent]
    /\ FetchFrame
    /\ UNCHANGED <<made, expired, row, jarT, page, write, disturbed>>

SessionUnauthorized(f) ==
    /\ fetch[f].step = "sent"
    /\ ~Live(fetch[f].session)
    /\ fetch' = [fetch EXCEPT ![f] = [NoFetch EXCEPT !.step = "unauthorized"]]
    /\ FetchFrame
    /\ UNCHANGED <<made, expired, row, jarT, page, write, disturbed>>

\* Mutated form of TokenAgrees: any valid cookie will do.
CookieIsValid(f) == fetch[f].cookie \in Fresh

TokenAgrees(f) ==
    /\ fetch[f].cookie \in Fresh
    /\ fetch[f].cookie = row[fetch[f].session]

\* The token is kept.
SessionKeeps(f) ==
    /\ fetch[f].step = "sent"
    /\ Live(fetch[f].session)
    /\ TokenAgrees(f)
    /\ fetch' = [fetch EXCEPT ![f] = [NoFetch EXCEPT !.step = "answer", !.token = fetch[f].cookie]]
    /\ FetchFrame
    /\ UNCHANGED <<made, expired, row, jarT, page, write, disturbed>>

SessionRotates(f) ==
    /\ fetch[f].step = "sent"
    /\ Live(fetch[f].session)
    /\ ~TokenAgrees(f)
    /\ NewToken
    /\ fetch' = [fetch EXCEPT ![f].step = "rotate", ![f].token = made + 1,
                             ![f].cookie = None]
    /\ FetchFrame
    /\ UNCHANGED <<row, jarT, page, write, disturbed>>

\* A rotation by a tab's refresh disturbs the writes of the other tabs; one by
\* a session query, which knows nothing of the refresh, those of its own too.
Others(f) == IF f[2] = "refresh" THEN OfOthers(f[1]) ELSE Writes

Rotated(f) == [NoFetch EXCEPT !.step = "answer", !.token = fetch[f].token, !.sets = TRUE]

\* Mutated form of CommitRotation: the row is made again if it is gone.
CommitMakesRow(f) ==
    LET s == fetch[f].session IN
    /\ fetch[f].step = "rotate"
    /\ row' = [row EXCEPT ![s] = fetch[f].token]
    /\ fetch' = [fetch EXCEPT ![f] = Rotated(f)]
    /\ Disturb(Others(f))
    /\ FetchFrame
    /\ UNCHANGED <<made, expired, jarT, page, write>>

\* The update fails if the row has been deleted by now.
CommitRotation(f) ==
    LET s == fetch[f].session IN
    /\ fetch[f].step = "rotate"
    /\ IF row[s] # None
       THEN /\ row' = [row EXCEPT ![s] = fetch[f].token]
            /\ fetch' = [fetch EXCEPT ![f] = Rotated(f)]
            /\ Disturb(Others(f))
       ELSE /\ fetch' = [fetch EXCEPT ![f] = [NoFetch EXCEPT !.step = "error"]]
            /\ UNCHANGED <<row, disturbed>>
    /\ FetchFrame
    /\ UNCHANGED <<made, expired, jarT, page, write>>

Waiting(t) == {w \in Writes : TabOf[w] = t /\ write[w].step = "waiting"}

\* Cookie and token arrive; the writes that wait for a refresh are sent again.
SessionAnswered(f) ==
    LET t == f[1]
        cookie == IF fetch[f].sets THEN fetch[f].token ELSE jarT
    IN
    /\ fetch[f].step = "answer"
    /\ jarT' = cookie
    /\ page' = [page EXCEPT ![t] = fetch[f].token]
    /\ fetch' = [fetch EXCEPT ![f] = NoFetch]
    /\ write' = [w \in Writes |->
         IF f[2] = "refresh" /\ w \in Waiting(t)
         THEN [write[w] EXCEPT !.step = "sent", !.retried = TRUE, !.token = fetch[f].token,
                               !.cookie = cookie, !.session = jarS]
         ELSE write[w]]
    /\ Disturb(IF fetch[f].sets THEN Others(f) ELSE {})
    /\ FetchFrame
    /\ UNCHANGED <<made, expired, row>>

\* Mutated form of SessionFails: the waiting writes are forgotten.
FailsSilently(f) ==
    /\ fetch[f].step # "none"
    /\ fetch' = [fetch EXCEPT ![f] = NoFetch]
    /\ page' = IF fetch[f].step = "unauthorized" THEN [page EXCEPT ![f[1]] = None] ELSE page
    /\ FetchFrame
    /\ UNCHANGED <<made, expired, row, jarT, write, disturbed>>

\* An error, an answer that is lost, or a 401, after which the tab goes to the
\* login page.
SessionFails(f) ==
    /\ fetch[f].step # "none"
    /\ fetch' = [fetch EXCEPT ![f] = NoFetch]
    /\ page' = IF fetch[f].step = "unauthorized" THEN [page EXCEPT ![f[1]] = None] ELSE page
    /\ write' = [w \in Writes |->
         IF f[2] = "refresh" /\ w \in Waiting(f[1])
         THEN NoWrite ELSE write[w]]
    /\ FetchFrame
    /\ UNCHANGED <<made, expired, row, jarT, disturbed>>

auth_session(f) ==
    \/ SessionUnauthorized(f) \/ SessionKeeps(f) \/ SessionRotates(f) \/ CommitRotation(f)

-----------------------------------------------------------------------------
(* A write: api.ts: apiRequest with a token, and require_owner_write. *)

WriteFrame == UNCHANGED <<owner, made, expired, logins, over, form>>
\* The answer decides, the request is forgotten.
SetStep(w, step) ==
    write' = [write EXCEPT ![w] = [NoWrite EXCEPT !.step = step, !.kind = write[w].kind,
                                                  !.retried = write[w].retried]]
Ends(w, step) ==
    /\ write' = [write EXCEPT ![w] = [NoWrite EXCEPT !.step = step]]
    /\ applied' = [applied EXCEPT ![w] = 0]

StartWrite(w, kind) ==
    /\ write[w].step \in Ended
    /\ page[TabOf[w]] # None
    /\ write' = [write EXCEPT ![w] = [NoWrite EXCEPT
         !.step = "sent", !.kind = kind, !.token = page[TabOf[w]],
         !.cookie = jarT, !.session = jarS]]
    /\ applied' = [applied EXCEPT ![w] = 0]
    /\ disturbed' = IF Waiting(TabOf[w]) \cap disturbed = {}
                    THEN disturbed \ {w} ELSE disturbed \cup {w}
    /\ WriteFrame
    /\ UNCHANGED <<row, jarS, jarT, page, fetch>>

HasSession(w) == Live(write[w].session)
TokenIsValid(w) ==
    /\ write[w].cookie \in Fresh
    /\ write[w].cookie = write[w].token
    /\ row[write[w].session] = write[w].token

\* Carried out; a logout deletes the row.
Accept(w) ==
    /\ write[w].step = "sent"
    /\ HasSession(w) /\ TokenIsValid(w)
    /\ SetStep(w, "answered")
    /\ applied' = [applied EXCEPT ![w] = @ + 1]
    /\ IF write[w].kind = "logout"
       THEN /\ row' = [row EXCEPT ![write[w].session] = None]
            /\ Disturb(Writes \ {w})
       ELSE UNCHANGED <<row, disturbed>>
    /\ WriteFrame
    /\ UNCHANGED <<jarS, jarT, page, fetch>>

Refuse(w) ==
    /\ write[w].step = "sent"
    /\ \/ ~HasSession(w) /\ SetStep(w, "unauthorized")
       \/ HasSession(w) /\ ~TokenIsValid(w) /\ SetStep(w, "invalid")
    /\ WriteFrame
    /\ UNCHANGED <<row, jarS, jarT, page, fetch, applied, disturbed>>

\* A logout's answer takes the cookies along.
Answered(w) ==
    /\ write[w].step = "answered"
    /\ Ends(w, "idle")
    /\ IF write[w].kind = "logout"
       THEN /\ jarS' = 0 /\ jarT' = None
            /\ page' = [page EXCEPT ![TabOf[w]] = None]
            /\ Disturb(Writes)
       ELSE UNCHANGED <<jarS, jarT, page, disturbed>>
    /\ WriteFrame
    /\ UNCHANGED <<row, fetch>>

Unauthorized(w) ==
    /\ write[w].step = "unauthorized"
    /\ Ends(w, "idle")
    /\ page' = [page EXCEPT ![TabOf[w]] = None]
    /\ WriteFrame
    /\ UNCHANGED <<row, jarS, jarT, fetch, disturbed>>

\* Once per write the tab asks for a valid token, unless it is asking already.
Invalid(w) ==
    LET f == <<TabOf[w], "refresh">> IN
    /\ write[w].step = "invalid"
    /\ IF write[w].retried
       THEN Ends(w, "refused") /\ UNCHANGED fetch
       ELSE /\ SetStep(w, "waiting") /\ UNCHANGED applied
            /\ fetch' = IF fetch[f].step = "none" THEN [fetch EXCEPT ![f] = Sent] ELSE fetch
    /\ WriteFrame
    /\ UNCHANGED <<row, jarS, jarT, page, disturbed>>

\* Mutated form of Lost: a write without an answer is sent again.
LostIsRetried(w) ==
    /\ write[w].step \in {"sent", "answered", "invalid", "unauthorized"}
    /\ IF write[w].step = "answered" /\ ~write[w].retried
       THEN /\ UNCHANGED applied
            /\ write' = [write EXCEPT ![w] = [write[w] EXCEPT !.step = "sent", !.retried = TRUE,
                        !.token = page[TabOf[w]], !.cookie = jarT, !.session = jarS]]
       ELSE Ends(w, "idle")
    /\ WriteFrame
    /\ UNCHANGED <<row, jarS, jarT, page, fetch, disturbed>>

\* The request or its answer is lost.
Lost(w) ==
    /\ write[w].step \in {"sent", "answered", "invalid", "unauthorized"}
    /\ Ends(w, "idle")
    /\ WriteFrame
    /\ UNCHANGED <<row, jarS, jarT, page, fetch, disturbed>>

apiRequest(w) ==
    Accept(w) \/ Refuse(w) \/ Answered(w) \/ Unauthorized(w) \/ Invalid(w) \/ Lost(w)

-----------------------------------------------------------------------------

TimeFrame == UNCHANGED <<owner, made, logins, row, jarS, jarT, form, page, fetch, write, applied>>

TokenExpires ==
    /\ expired < made
    /\ expired' = expired + 1
    /\ Disturb(Writes)
    /\ TimeFrame
    /\ UNCHANGED over

SessionExpires ==
    /\ over < logins
    /\ over' = over + 1
    /\ Disturb(Writes)
    /\ TimeFrame
    /\ UNCHANGED expired

Next ==
    \/ csrf \/ create_owner \/ login
    \/ \E t \in Tabs : Load(t)
    \/ \E f \in Fetches : auth_session(f) \/ SessionAnswered(f) \/ SessionFails(f)
    \/ \E w \in Writes : apiRequest(w) \/ \E kind \in {"save", "logout"} : StartWrite(w, kind)
    \/ TokenExpires \/ SessionExpires

Spec == Init /\ [][Next]_vars

-----------------------------------------------------------------------------
(* Properties. *)

\* However often its token is refused and its answer lost, a write is carried
\* out at most once.
AppliedAtMostOnce == \A w \in Writes : applied[w] <= 1

\* The one retry is enough: a write is refused in the end only if another tab,
\* a query of the session, a login, a logout or an expiry came in between
\* since it, or the refresh it shares, began.  Writes of one tab never cost each other their token.
RefusedOnlyIfDisturbed == \A w \in Writes : write[w].step = "refused" => w \in disturbed

\* A session that has been logged out or has expired never comes back, also not
\* by a rotation that had read its row before.
EndedSessionsStayEnded ==
    [][\A s \in 1..logins : ~Live(s) => ~Live(s)']_vars

\* A write that waits for a refresh waits for one that is under way, so it comes
\* to an end with it: a refresh that fails, is overtaken by a login or starts
\* while another one ends leaves no write behind.
WaitersHaveRefresh ==
    \A w \in Writes : write[w].step = "waiting" => fetch[<<TabOf[w], "refresh">>].step # "none"

=============================================================================
