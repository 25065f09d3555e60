---------------------------- MODULE SessionsProofs ----------------------------
(***************************************************************************)
(* Proofs about Sessions, for any number of tabs, writes, tokens and       *)
(* sessions: a write is carried out at most once, a write that waits waits *)
(* for a refresh under way, a session that has ended never comes back, and *)
(* a write is refused for good only if somebody came in between.           *)
(*                                                                         *)
(* What makes the first of these inductive is AppliedByStep: only a write  *)
(* whose answer is on its way has been carried out, so that one that is    *)
(* sent again has not.  The last one needs RefusalInv: as long as nobody   *)
(* disturbs a write, the token that its refresh is about to bring, and     *)
(* then the one it is sent again with, is good.                            *)
(***************************************************************************)
EXTENDS Sessions, TLAPS

AppliedByStep ==
    \A w \in Writes : applied[w] = IF write[w].step = "answered" THEN 1 ELSE 0

SessionsInv == TypeOK /\ AppliedByStep /\ WaitersHaveRefresh

USE SessionsAssumption

-----------------------------------------------------------------------------
(* Types. *)

\* Nothing sent is a request's state, and so is what is sent.
LEMMA ShapesOK ==
    /\ NoFetch \in FetchState
    /\ NoWrite \in WriteState
    /\ TypeOK => Sent \in FetchState
<1>1. NoFetch \in FetchState
  BY DEF NoFetch, FetchState, None, Token
<1>2. NoWrite \in WriteState
  BY DEF NoWrite, WriteState, Ended, None, Token
<1>3. ASSUME TypeOK PROVE Sent \in FetchState
  <2>1. jarS \in 0..MaxLogins /\ jarT \in Token
    BY <1>3 DEF TypeOK
  <2> QED
    BY <1>1, <2>1 DEF Sent, FetchState
<1> QED
  BY <1>1, <1>2, <1>3

\* A token may still be issued, and the next one is a token as well.
LEMMA NewTokenOK ==
    /\ None \in Token
    /\ TypeOK /\ NewToken =>
         /\ made' \in Token /\ made + 1 \in Token
         /\ expired' \in 0..made'
BY DEF TypeOK, NewToken, Token, None

\* The initial states are of the declared types, with no write under way.
LEMMA InitSessionsInv == Init => SessionsInv
<1> SUFFICES ASSUME Init PROVE SessionsInv
  OBVIOUS
<1>1. row \in [SessionIds -> Token]
  <2>1. None \in Token /\ 1 \in Token
    BY DEF None, Token
  <2> QED
    BY <2>1 DEF Init
<1>2. /\ owner \in BOOLEAN /\ made \in Token /\ logins \in 0..MaxLogins
      /\ jarS \in 0..MaxLogins /\ jarT \in Token /\ form \in Token
      /\ page \in [Tabs -> Token]
  <2>1. 0 \in Token /\ 1 \in Token /\ 0 \in 0..MaxLogins /\ 1 \in 0..MaxLogins
    BY DEF Token
  <2> QED
    BY <2>1, NewTokenOK DEF Init, None
<1>6. expired \in 0..made /\ over \in 0..logins
  BY DEF Init
<1>3. fetch \in [Fetches -> FetchState] /\ write \in [Writes -> WriteState]
  BY ShapesOK DEF Init
<1>4. applied \in [Writes -> 0..2] /\ disturbed \subseteq Writes
  BY DEF Init
<1>5. AppliedByStep /\ WaitersHaveRefresh
  BY DEF Init, NoWrite, AppliedByStep, WaitersHaveRefresh
<1> QED
  BY <1>1, <1>2, <1>3, <1>4, <1>5, <1>6 DEF SessionsInv, TypeOK

\* The counters, the rows, the cookies and what the tabs hold.
ServerOK ==
    /\ owner \in BOOLEAN
    /\ made \in Token /\ logins \in 0..MaxLogins
    /\ expired \in 0..made
    /\ row \in [SessionIds -> Token]
    /\ over \in 0..logins
    /\ jarS \in 0..MaxLogins /\ jarT \in Token
    /\ form \in Token /\ page \in [Tabs -> Token]

LEMMA ServerKept ==
    ASSUME TypeOK, [Next]_vars
    PROVE  ServerOK'
<1>0. ServerOK /\ None \in Token
  BY NewTokenOK DEF ServerOK, TypeOK
<1> USE DEF ServerOK
<1>1. CASE csrf
  BY <1>0, <1>1, NewTokenOK DEF csrf, SignInFrame
<1>2. CASE create_owner
  BY <1>0, <1>2 DEF create_owner, SignInFrame
<1>3. CASE login
  <2>1. /\ made' \in Token /\ made + 1 \in Token /\ expired' \in 0..made'
        /\ row' \in [SessionIds -> Token]
    BY <1>0, <1>3, NewTokenOK DEF login
  <2>2. /\ logins' \in 0..MaxLogins /\ over' \in 0..logins' /\ jarS' \in 0..MaxLogins
    BY <1>0, <1>3 DEF login, SignInFrame
  <2> QED
    BY <1>0, <1>3, <2>1, <2>2 DEF login, SignInFrame
<1>4. CASE \E t \in Tabs : Load(t)
  BY <1>0, <1>4 DEF Load, FetchFrame
<1>5. ASSUME NEW f \in Fetches, SessionUnauthorized(f) \/ SessionKeeps(f)
      PROVE  ServerOK'
  BY <1>0, <1>5 DEF SessionUnauthorized, SessionKeeps, FetchFrame
<1>6. ASSUME NEW f \in Fetches, SessionRotates(f)
      PROVE  ServerOK'
  BY <1>0, <1>6, NewTokenOK DEF SessionRotates, FetchFrame
<1>7. ASSUME NEW f \in Fetches, CommitRotation(f) \/ SessionAnswered(f) \/ SessionFails(f)
      PROVE  ServerOK'
  <2>1. fetch[f].token \in Token
    BY DEF TypeOK, FetchState
  <2>2. CASE CommitRotation(f)
    BY <1>0, <2>1, <2>2 DEF CommitRotation, FetchFrame
  <2>3. CASE SessionAnswered(f)
    BY <1>0, <2>1, <2>3 DEF SessionAnswered, FetchFrame
  <2>4. CASE SessionFails(f)
    BY <1>0, <2>4 DEF SessionFails, FetchFrame
  <2> QED
    BY <1>7, <2>2, <2>3, <2>4
<1>8. ASSUME NEW w \in Writes, Accept(w)
      PROVE  ServerOK'
  BY <1>0, <1>8 DEF Accept, WriteFrame
<1>9. ASSUME NEW w \in Writes, Answered(w)
      PROVE  ServerOK'
  BY <1>0, <1>9 DEF Answered, WriteFrame, None
<1>10. ASSUME NEW w \in Writes, Unauthorized(w)
      PROVE  ServerOK'
  BY <1>0, <1>10 DEF Unauthorized, WriteFrame
<1>11. ASSUME NEW w \in Writes, Refuse(w) \/ Invalid(w) \/ Lost(w)
      PROVE  ServerOK'
  BY <1>0, <1>11 DEF Refuse, Invalid, Lost, WriteFrame
<1>12. ASSUME NEW w \in Writes, NEW kind \in {"save", "logout"}, StartWrite(w, kind)
      PROVE  ServerOK'
  BY <1>0, <1>12 DEF StartWrite, WriteFrame
<1>13. CASE TokenExpires
  BY <1>0, <1>13 DEF TokenExpires, TimeFrame, Token
<1>14. CASE SessionExpires
  BY <1>0, <1>14 DEF SessionExpires, TimeFrame
<1>15. CASE UNCHANGED vars
  BY <1>0, <1>15 DEF vars
<1> QED
  BY <1>1, <1>2, <1>3, <1>4, <1>5, <1>6, <1>7, <1>8, <1>9, <1>10, <1>11, <1>12, <1>13, <1>14,
     <1>15 DEF Next, auth_session, apiRequest

\* Everything that says which writes are disturbed says so of writes.
LEMMA DisturbedKept ==
    ASSUME TypeOK, [Next]_vars
    PROVE  disturbed' \subseteq Writes
<1> USE DEF TypeOK, Disturb, OfOthers, Others
<1>1. CASE csrf \/ create_owner \/ login
  BY <1>1 DEF csrf, create_owner, login
<1>2. CASE \E t \in Tabs : Load(t)
  BY <1>2 DEF Load
<1>3. ASSUME NEW f \in Fetches, auth_session(f) \/ SessionAnswered(f) \/ SessionFails(f)
      PROVE  disturbed' \subseteq Writes
  BY <1>3 DEF auth_session, SessionUnauthorized, SessionKeeps, SessionRotates, CommitRotation,
              SessionAnswered, SessionFails, FetchFrame
<1>4. ASSUME NEW w \in Writes, apiRequest(w)
      PROVE  disturbed' \subseteq Writes
  BY <1>4 DEF apiRequest, Accept, Refuse, Answered, Unauthorized, Invalid, Lost
<1>5. ASSUME NEW w \in Writes, NEW kind \in {"save", "logout"}, StartWrite(w, kind)
      PROVE  disturbed' \subseteq Writes
  BY <1>5 DEF StartWrite
<1>6. CASE TokenExpires \/ SessionExpires \/ UNCHANGED vars
  BY <1>6 DEF TokenExpires, SessionExpires, vars
<1> QED
  BY <1>1, <1>2, <1>3, <1>4, <1>5, <1>6 DEF Next

\* The requests for GET /auth/session.
LEMMA FetchKept ==
    ASSUME TypeOK, [Next]_vars
    PROVE  fetch' \in [Fetches -> FetchState]
<1>0. fetch \in [Fetches -> FetchState] /\ NoFetch \in FetchState /\ Sent \in FetchState
  BY ShapesOK DEF TypeOK
<1>1. CASE csrf \/ create_owner \/ login
  BY <1>0, <1>1 DEF csrf, create_owner, login, SignInFrame
<1>2. CASE \E t \in Tabs : Load(t)
  BY <1>0, <1>2 DEF Load
<1>3. ASSUME NEW f \in Fetches, auth_session(f)
      PROVE  fetch' \in [Fetches -> FetchState]
  <2>1. /\ [NoFetch EXCEPT !.step = "unauthorized"] \in FetchState
        /\ [NoFetch EXCEPT !.step = "error"] \in FetchState
        /\ [NoFetch EXCEPT !.step = "answer", !.token = fetch[f].cookie] \in FetchState
        /\ Rotated(f) \in FetchState
    BY <1>0 DEF FetchState, Rotated
  <2>2. CASE SessionRotates(f)
    <3>1. made + 1 \in Token /\ None \in Token
      BY <2>2 DEF SessionRotates, NewToken, TypeOK, Token, None
    <3>2. [fetch[f] EXCEPT !.step = "rotate", !.token = made + 1, !.cookie = None] \in FetchState
      BY <1>0, <3>1 DEF FetchState
    <3>3. fetch' = [fetch EXCEPT ![f] =
                      [fetch[f] EXCEPT !.step = "rotate", !.token = made + 1, !.cookie = None]]
      BY <1>0, <2>2 DEF SessionRotates, FetchState
    <3> QED
      BY <1>0, <3>2, <3>3
  <2>3. CASE SessionUnauthorized(f) \/ SessionKeeps(f) \/ CommitRotation(f)
    BY <1>0, <2>1, <2>3 DEF SessionUnauthorized, SessionKeeps, CommitRotation
  <2> QED
    BY <1>3, <2>2, <2>3 DEF auth_session
<1>4. ASSUME NEW f \in Fetches, SessionAnswered(f) \/ SessionFails(f)
      PROVE  fetch' \in [Fetches -> FetchState]
  BY <1>0, <1>4 DEF SessionAnswered, SessionFails
<1>5. ASSUME NEW w \in Writes, apiRequest(w)
      PROVE  fetch' \in [Fetches -> FetchState]
  BY <1>0, <1>5 DEF apiRequest, Accept, Refuse, Answered, Unauthorized, Invalid, Lost
<1>6. ASSUME NEW w \in Writes, NEW kind \in {"save", "logout"}, StartWrite(w, kind)
      PROVE  fetch' \in [Fetches -> FetchState]
  BY <1>0, <1>6 DEF StartWrite
<1>7. CASE TokenExpires \/ SessionExpires \/ UNCHANGED vars
  BY <1>0, <1>7 DEF TokenExpires, SessionExpires, TimeFrame, vars
<1> QED
  BY <1>1, <1>2, <1>3, <1>4, <1>5, <1>6, <1>7 DEF Next

\* The writes.
LEMMA WriteKept ==
    ASSUME TypeOK, [Next]_vars
    PROVE  write' \in [Writes -> WriteState]
<1>0. write \in [Writes -> WriteState] /\ NoWrite \in WriteState
  BY ShapesOK DEF TypeOK
<1>1. ASSUME NEW w \in Writes, NEW step \in Ended \cup {"answered", "invalid", "waiting", "unauthorized"}
      PROVE  /\ [NoWrite EXCEPT !.step = step] \in WriteState
             /\ [NoWrite EXCEPT !.step = step, !.kind = write[w].kind,
                                !.retried = write[w].retried] \in WriteState
  BY <1>0, <1>1 DEF WriteState
<1>2. ASSUME NEW w \in Writes, NEW step \in Ended \cup {"answered", "invalid", "waiting", "unauthorized"},
             SetStep(w, step) \/ Ends(w, step)
      PROVE  write' \in [Writes -> WriteState]
  BY <1>0, <1>1, <1>2 DEF SetStep, Ends
<1>3. CASE csrf \/ create_owner \/ login
  BY <1>0, <1>3 DEF csrf, create_owner, login, SignInFrame
<1>4. CASE \E t \in Tabs : Load(t)
  BY <1>0, <1>4 DEF Load
<1>5. ASSUME NEW f \in Fetches, auth_session(f)
      PROVE  write' \in [Writes -> WriteState]
  BY <1>0, <1>5 DEF auth_session, SessionUnauthorized, SessionKeeps, SessionRotates, CommitRotation
<1>6. ASSUME NEW f \in Fetches, SessionAnswered(f)
      PROVE  write' \in [Writes -> WriteState]
  <2> DEFINE cookie == IF fetch[f].sets THEN fetch[f].token ELSE jarT
             Again(w) == [write[w] EXCEPT !.step = "sent", !.retried = TRUE,
                            !.token = fetch[f].token, !.cookie = cookie, !.session = jarS]
  <2>1. fetch[f].token \in Token /\ jarT \in Token /\ jarS \in 0..MaxLogins
    BY DEF TypeOK, FetchState
  <2>2. ASSUME NEW w \in Writes PROVE Again(w) \in WriteState
    BY <1>0, <2>1 DEF WriteState
  <2>3. write' = [w \in Writes |-> IF f[2] = "refresh" /\ w \in Waiting(f[1])
                                   THEN Again(w) ELSE write[w]]
    BY <1>6 DEF SessionAnswered
  <2> QED
    BY <1>0, <2>2, <2>3
<1>7. ASSUME NEW f \in Fetches, SessionFails(f)
      PROVE  write' \in [Writes -> WriteState]
  BY <1>0, <1>7 DEF SessionFails
<1>8. ASSUME NEW w \in Writes, apiRequest(w)
      PROVE  write' \in [Writes -> WriteState]
  BY <1>2, <1>8 DEF apiRequest, Accept, Refuse, Answered, Unauthorized, Invalid, Lost, Ended
<1>9. ASSUME NEW w \in Writes, NEW kind \in {"save", "logout"}, StartWrite(w, kind)
      PROVE  write' \in [Writes -> WriteState]
  <2>1. page[TabOf[w]] \in Token /\ jarT \in Token /\ jarS \in 0..MaxLogins
    BY DEF TypeOK
  <2>2. [NoWrite EXCEPT !.step = "sent", !.kind = kind, !.token = page[TabOf[w]],
                        !.cookie = jarT, !.session = jarS] \in WriteState
    BY <1>0, <2>1 DEF WriteState
  <2> QED
    BY <1>0, <1>9, <2>2 DEF StartWrite
<1>10. CASE TokenExpires \/ SessionExpires \/ UNCHANGED vars
  BY <1>0, <1>10 DEF TokenExpires, SessionExpires, TimeFrame, vars
<1> QED
  BY <1>3, <1>4, <1>5, <1>6, <1>7, <1>8, <1>9, <1>10 DEF Next

-----------------------------------------------------------------------------
(* The invariant. *)

\* A refresh that ends takes the writes along that wait for it, and no other.
LEMMA WaitersAreTaken ==
    ASSUME TypeOK, NEW f \in Fetches, SessionAnswered(f) \/ SessionFails(f), NEW w \in Writes
    PROVE  IF f[2] = "refresh" /\ w \in Waiting(f[1])
           THEN write'[w].step \in {"sent", "idle"} ELSE write'[w] = write[w]
<1>0. write[w] \in WriteState /\ NoWrite.step = "idle"
  BY DEF TypeOK, NoWrite
<1>1. CASE SessionAnswered(f)
  <2> DEFINE cookie == IF fetch[f].sets THEN fetch[f].token ELSE jarT
             Again(v) == [write[v] EXCEPT !.step = "sent", !.retried = TRUE,
                            !.token = fetch[f].token, !.cookie = cookie, !.session = jarS]
  <2>1. write' = [v \in Writes |-> IF f[2] = "refresh" /\ v \in Waiting(f[1])
                                   THEN Again(v) ELSE write[v]]
    BY <1>1 DEF SessionAnswered
  <2>2. Again(w).step = "sent"
    BY <1>0 DEF WriteState
  <2> HIDE DEF Again
  <2> QED
    BY <2>1, <2>2
<1>2. CASE SessionFails(f)
  BY <1>0, <1>2 DEF SessionFails
<1> QED
  BY <1>1, <1>2

\* A step of a write changes no other write.  What the answer's step says of
\* how often it was carried out is kept by each of them.
LEMMA AppliedKept ==
    ASSUME SessionsInv, [Next]_vars
    PROVE  AppliedByStep' /\ applied' \in [Writes -> 0..2]
<1>0. /\ write \in [Writes -> WriteState] /\ applied \in [Writes -> 0..2]
      /\ NoWrite \in WriteState /\ NoWrite.step = "idle"
      /\ AppliedByStep
  BY ShapesOK DEF SessionsInv, TypeOK, NoWrite
<1> USE DEF AppliedByStep
<1>1. ASSUME NEW w \in Writes, NEW step \in {"idle", "refused"}, Ends(w, step)
      PROVE  AppliedByStep' /\ applied' \in [Writes -> 0..2]
  BY <1>0, <1>1 DEF Ends, WriteState
<1>2. ASSUME NEW w \in Writes, NEW step, SetStep(w, step)
      PROVE  /\ write'[w].step = step
             /\ \A v \in Writes \ {w} : write'[v] = write[v]
  BY <1>0, <1>2 DEF SetStep, WriteState
<1>3. CASE csrf \/ create_owner \/ login
  BY <1>0, <1>3 DEF csrf, create_owner, login, SignInFrame
<1>4. CASE \E t \in Tabs : Load(t)
  BY <1>0, <1>4 DEF Load, FetchFrame
<1>5. ASSUME NEW f \in Fetches, auth_session(f)
      PROVE  AppliedByStep' /\ applied' \in [Writes -> 0..2]
  BY <1>0, <1>5 DEF auth_session, SessionUnauthorized, SessionKeeps, SessionRotates,
                    CommitRotation, FetchFrame
<1>6. ASSUME NEW f \in Fetches, SessionAnswered(f) \/ SessionFails(f)
      PROVE  AppliedByStep' /\ applied' \in [Writes -> 0..2]
  <2>1. \A w \in Writes : \/ write'[w] = write[w]
                          \/ /\ write[w].step = "waiting"
                             /\ write'[w].step \in {"sent", "idle"}
    BY <1>6, WaitersAreTaken DEF Waiting, SessionsInv
  <2> QED
    BY <1>0, <1>6, <2>1 DEF SessionAnswered, SessionFails, FetchFrame
<1>7. ASSUME NEW w \in Writes, apiRequest(w)
      PROVE  AppliedByStep' /\ applied' \in [Writes -> 0..2]
  <2>1. CASE Accept(w)
    BY <1>0, <1>2, <2>1 DEF Accept
  <2>2. CASE Refuse(w)
    BY <1>0, <1>2, <2>2 DEF Refuse
  <2>3. CASE Answered(w) \/ Unauthorized(w) \/ Lost(w)
    BY <1>1, <2>3 DEF Answered, Unauthorized, Lost
  <2>4. CASE Invalid(w)
    BY <1>0, <1>1, <1>2, <2>4 DEF Invalid
  <2> QED
    BY <1>7, <2>1, <2>2, <2>3, <2>4 DEF apiRequest
<1>8. ASSUME NEW w \in Writes, NEW kind \in {"save", "logout"}, StartWrite(w, kind)
      PROVE  AppliedByStep' /\ applied' \in [Writes -> 0..2]
  BY <1>0, <1>8 DEF StartWrite, WriteState
<1>9. CASE TokenExpires \/ SessionExpires \/ UNCHANGED vars
  BY <1>0, <1>9 DEF TokenExpires, SessionExpires, TimeFrame, vars
<1> QED
  BY <1>3, <1>4, <1>5, <1>6, <1>7, <1>8, <1>9 DEF Next

\* A refresh ends only in the two steps that take the tab's waiting writes
\* along, and a write begins to wait only beside one that it starts or joins.
LEMMA WaitersKept ==
    ASSUME SessionsInv, [Next]_vars
    PROVE  WaitersHaveRefresh'
<1>0. /\ write \in [Writes -> WriteState] /\ fetch \in [Fetches -> FetchState]
      /\ NoWrite \in WriteState /\ NoWrite.step = "idle"
      /\ Sent.step = "sent" /\ NoFetch \in FetchState
      /\ \A w \in Writes : <<TabOf[w], "refresh">> \in Fetches
      /\ WaitersHaveRefresh
  BY ShapesOK DEF SessionsInv, TypeOK, NoWrite, Sent, NoFetch, Fetches
<1> USE DEF WaitersHaveRefresh
<1>1. ASSUME NEW w \in Writes, NEW step, step # "waiting", SetStep(w, step) \/ Ends(w, step),
             UNCHANGED fetch
      PROVE  WaitersHaveRefresh'
  <2>1. /\ [NoWrite EXCEPT !.step = step].step = step
        /\ [NoWrite EXCEPT !.step = step, !.kind = write[w].kind,
                           !.retried = write[w].retried].step = step
    BY <1>0 DEF WriteState
  <2>2. write'[w].step = step /\ \A v \in Writes \ {w} : write'[v] = write[v]
    BY <1>0, <1>1, <2>1 DEF SetStep, Ends
  <2> QED
    BY <1>0, <1>1, <2>2
<1>2. CASE csrf \/ create_owner \/ login
  BY <1>0, <1>2 DEF csrf, create_owner, login, SignInFrame
<1>3. CASE \E t \in Tabs : Load(t)
  BY <1>0, <1>3 DEF Load
<1>4. ASSUME NEW f \in Fetches, auth_session(f)
      PROVE  WaitersHaveRefresh'
  <2>1. write' = write /\ \A g \in Fetches \ {f} : fetch'[g] = fetch[g]
    BY <1>0, <1>4 DEF auth_session, SessionUnauthorized, SessionKeeps, SessionRotates,
                      CommitRotation
  <2>2. CASE SessionUnauthorized(f) \/ SessionKeeps(f)
    BY <1>0, <2>1, <2>2 DEF SessionUnauthorized, SessionKeeps, FetchState
  <2>3. CASE SessionRotates(f)
    BY <1>0, <2>1, <2>3 DEF SessionRotates, FetchState
  <2>4. CASE CommitRotation(f)
    <3>1. Rotated(f).step # "none" /\ [NoFetch EXCEPT !.step = "error"].step # "none"
      BY <1>0 DEF Rotated, FetchState
    <3> QED
      BY <1>0, <2>1, <2>4, <3>1 DEF CommitRotation
  <2> QED
    BY <1>4, <2>2, <2>3, <2>4 DEF auth_session
<1>5. ASSUME NEW f \in Fetches, SessionAnswered(f) \/ SessionFails(f)
      PROVE  WaitersHaveRefresh'
  <2>1. \A g \in Fetches \ {f} : fetch'[g] = fetch[g]
    BY <1>0, <1>5 DEF SessionAnswered, SessionFails
  <2>2. \A w \in Writes : write'[w].step = "waiting" =>
           write[w].step = "waiting" /\ ~(f[2] = "refresh" /\ TabOf[w] = f[1])
    BY <1>5, WaitersAreTaken DEF Waiting, SessionsInv
  <2>3. \A w \in Writes : <<TabOf[w], "refresh">> = f => f[2] = "refresh" /\ TabOf[w] = f[1]
    OBVIOUS
  <2> QED
    BY <1>0, <2>1, <2>2, <2>3
<1>6. ASSUME NEW w \in Writes, apiRequest(w)
      PROVE  WaitersHaveRefresh'
  <2>1. CASE Accept(w) \/ Refuse(w) \/ Answered(w) \/ Unauthorized(w) \/ Lost(w)
    BY <1>1, <2>1 DEF Accept, Refuse, Answered, Unauthorized, Lost
  <2>2. CASE Invalid(w) /\ write[w].retried
    BY <1>1, <2>2 DEF Invalid
  <2>3. CASE Invalid(w) /\ ~write[w].retried
    <3>1. \A v \in Writes \ {w} : write'[v] = write[v]
      BY <1>0, <2>3 DEF Invalid, SetStep
    <3>2. /\ fetch'[<<TabOf[w], "refresh">>].step # "none"
          /\ \A g \in Fetches : fetch[g].step # "none" => fetch'[g] = fetch[g]
      BY <1>0, <2>3 DEF Invalid
    <3> QED
      BY <1>0, <3>1, <3>2
  <2> QED
    BY <1>6, <2>1, <2>2, <2>3 DEF apiRequest
<1>7. ASSUME NEW w \in Writes, NEW kind \in {"save", "logout"}, StartWrite(w, kind)
      PROVE  WaitersHaveRefresh'
  BY <1>0, <1>7 DEF StartWrite, WriteState
<1>8. CASE TokenExpires \/ SessionExpires \/ UNCHANGED vars
  BY <1>0, <1>8 DEF TokenExpires, SessionExpires, TimeFrame, vars
<1> QED
  BY <1>2, <1>3, <1>4, <1>5, <1>6, <1>7, <1>8 DEF Next

LEMMA SessionsInvKept == SessionsInv /\ [Next]_vars => SessionsInv'
<1> SUFFICES ASSUME SessionsInv, [Next]_vars PROVE SessionsInv'
  OBVIOUS
<1>1. TypeOK
  BY DEF SessionsInv
<1>2. TypeOK'
  BY <1>1, ServerKept, FetchKept, WriteKept, AppliedKept, DisturbedKept
  DEF TypeOK, ServerOK, Token, SessionIds, Fetches, FetchState, WriteState
<1> QED
  BY <1>2, AppliedKept, WaitersKept DEF SessionsInv

-----------------------------------------------------------------------------
(* Why the one retry is enough. *)

Refresh(t) == fetch[<<t, "refresh">>]
Clean(w) == w \notin disturbed
UnderWay == {"sent", "invalid", "waiting"}

\* A token with which a write of the session in the cookie would pass, unless
\* the session has ended.
GoodToken(k) == k \in Fresh /\ (Live(jarS) => row[jarS] = k)

\* A refresh is for the writes that wait for it.
RefreshHasWaiter == \A t \in Tabs : Refresh(t).step # "none" => Waiting(t) # {}

\* The refresh of a tab knows the cookies as they are, or will, as far as a
\* write is concerned with which nobody has interfered.
RefreshGoodFor(w) ==
    Clean(w) /\ write[w].step \in UnderWay =>
      LET f == Refresh(TabOf[w]) IN
      /\ f.step \in {"sent", "rotate"} => f.session = jarS
      /\ f.step = "sent" => f.cookie = jarT
      /\ f.step = "rotate" => f.token \in Fresh
      /\ f.step = "answer" => GoodToken(f.token) /\ (f.sets \/ f.token = jarT)

\* A write that is sent again has a token that is good, and no refresh of its
\* tab is about to replace it.
RetryGoodFor(w) ==
    Clean(w) /\ write[w].step = "sent" /\ write[w].retried =>
      LET f == Refresh(TabOf[w]) IN
      /\ write[w].session = jarS /\ write[w].cookie = jarT /\ write[w].token = jarT
      /\ GoodToken(jarT)
      /\ f.step # "rotate"
      /\ f.step = "answer" => ~f.sets

RefusalForeign(w) ==
    write[w].step = "refused" \/ (write[w].step = "invalid" /\ write[w].retried)
      => w \in disturbed

RetryInv(w) == RefreshGoodFor(w) /\ RetryGoodFor(w) /\ RefusalForeign(w)

RefusalInv ==
    /\ SessionsInv
    /\ RefreshHasWaiter
    /\ \A w \in Writes : RetryInv(w)

\* What everybody has been disturbed by needs no further look.
LEMMA AllDisturbed ==
    ASSUME TypeOK, Disturb(Writes),
           \A w \in Writes : write'[w] = write[w] \/ write'[w].step = "idle"
    PROVE  \A w \in Writes : RetryInv(w)'
<1> SUFFICES ASSUME NEW w \in Writes PROVE RetryInv(w)'
  OBVIOUS
<1>1. CASE write'[w].step = "idle"
  BY <1>1 DEF RetryInv, RefreshGoodFor, RetryGoodFor, RefusalForeign, UnderWay
<1>2. CASE write'[w] = write[w] /\ write[w].step # "idle"
  <2>1. w \in disturbed'
    BY <1>2 DEF Disturb
  <2> QED
    BY <2>1 DEF RetryInv, RefreshGoodFor, RetryGoodFor, RefusalForeign, Clean
<1> QED
  BY <1>1, <1>2

\* Nothing that a clean write looks at gets worse.
Undisturbed(w) ==
    /\ jarS' = jarS /\ jarT' = jarT
    /\ Fresh \subseteq Fresh'
    /\ Live(jarS)' => Live(jarS) /\ row'[jarS] = row[jarS]
    /\ Refresh(TabOf[w])' = Refresh(TabOf[w])

LEMMA GoodTokenKept ==
    ASSUME NEW k, GoodToken(k), UNCHANGED jarS, Fresh \subseteq Fresh',
           Live(jarS)' => Live(jarS) /\ row'[jarS] = row[jarS]
    PROVE  GoodToken(k)'
BY DEF GoodToken

LEMMA UndisturbedKept ==
    ASSUME NEW w \in Writes, RetryInv(w), Undisturbed(w), write'[w] = write[w],
           w \in disturbed => w \in disturbed' \/ write[w].step = "idle"
    PROVE  RetryInv(w)'
<1> DEFINE f == Refresh(TabOf[w])
<1>1. GoodToken(f.token) => GoodToken(f.token)'
  BY GoodTokenKept DEF Undisturbed
<1>2. GoodToken(jarT) => GoodToken(jarT)'
  BY GoodTokenKept DEF Undisturbed
<1>3. RefreshGoodFor(w)'
  BY <1>1 DEF RetryInv, RefreshGoodFor, Undisturbed, Clean, UnderWay
<1>4. RetryGoodFor(w)'
  BY <1>2 DEF RetryInv, RetryGoodFor, Undisturbed, Clean
<1>5. RefusalForeign(w)'
  BY DEF RetryInv, RefusalForeign
<1> QED
  BY <1>3, <1>4, <1>5 DEF RetryInv

\* The types the steps are computed with.
LEMMA RefreshTypes ==
    ASSUME TypeOK
    PROVE  /\ write \in [Writes -> WriteState] /\ fetch \in [Fetches -> FetchState]
           /\ row \in [SessionIds -> Token] /\ jarS \in 0..MaxLogins
           /\ made \in Nat /\ expired \in 0..made /\ over \in Nat
           /\ NoWrite \in WriteState /\ NoWrite.step = "idle" /\ ~NoWrite.retried
           /\ NoFetch \in FetchState /\ NoFetch.step = "none" /\ ~NoFetch.sets
           /\ Sent \in FetchState
           /\ Sent.step = "sent" /\ Sent.session = jarS /\ Sent.cookie = jarT
           /\ \A t \in Tabs : <<t, "refresh">> \in Fetches
           /\ \A f \in Fetches : f[1] \in Tabs /\ f = <<f[1], f[2]>>
                                 /\ f[2] \in {"load", "refresh"}
           /\ \A w \in Writes : TabOf[w] \in Tabs
<1>1. NoWrite.step = "idle" /\ ~NoWrite.retried /\ NoFetch.step = "none" /\ ~NoFetch.sets
  BY DEF NoWrite, NoFetch
<1>2. Sent.step = "sent" /\ Sent.session = jarS /\ Sent.cookie = jarT
  BY DEF Sent, NoFetch
<1>3. made \in Nat /\ expired \in 0..made /\ over \in Nat
  BY DEF TypeOK, Token
<1> QED
  BY <1>1, <1>2, <1>3, ShapesOK DEF TypeOK, Fetches

\* Logins, the expiries and the csrf token of a login page disturb everybody.
LEMMA SignInKeepsRetries ==
    ASSUME RefusalInv, csrf \/ create_owner \/ login \/ TokenExpires \/ SessionExpires
    PROVE  \A w \in Writes : RetryInv(w)'
BY AllDisturbed
DEF RefusalInv, SessionsInv, csrf, create_owner, login, SignInFrame, TokenExpires, SessionExpires,
    TimeFrame

\* A request of GET /auth/session before its rotation is committed.
LEMMA RequestKeepsRetries ==
    ASSUME RefusalInv, NEW f \in Fetches,
           SessionUnauthorized(f) \/ SessionKeeps(f) \/ SessionRotates(f)
    PROVE  \A w \in Writes : RetryInv(w)'
<1> SUFFICES ASSUME NEW w \in Writes PROVE RetryInv(w)'
  OBVIOUS
<1>0. TypeOK /\ RetryInv(w)
  BY DEF RefusalInv, SessionsInv
<1>1. /\ write' = write /\ disturbed' = disturbed /\ jarS' = jarS /\ jarT' = jarT
      /\ row' = row /\ over' = over
      /\ \A g \in Fetches \ {f} : fetch'[g] = fetch[g]
      /\ Fresh \subseteq Fresh' /\ expired' = expired
  BY <1>0, RefreshTypes
  DEF SessionUnauthorized, SessionKeeps, SessionRotates, FetchFrame, NewToken, Fresh
<1>2. CASE f # <<TabOf[w], "refresh">>
  BY <1>0, <1>1, <1>2, RefreshTypes, UndisturbedKept DEF Undisturbed, Refresh, Live
<1>3. CASE f = <<TabOf[w], "refresh">>
  <2>1. \A k : GoodToken(k) => GoodToken(k)'
    BY <1>1 DEF GoodToken, Live
  <2>2. CASE SessionUnauthorized(f)
    <3>1. Refresh(TabOf[w])'.step = "unauthorized"
      BY <1>0, <1>3, <2>2, RefreshTypes DEF SessionUnauthorized, Refresh, FetchState
    <3> QED
      BY <1>0, <1>1, <2>1, <3>1
      DEF RetryInv, RefreshGoodFor, RetryGoodFor, RefusalForeign, Clean
  <2>3. CASE SessionKeeps(f)
    <3>1. /\ Refresh(TabOf[w])'.step = "answer" /\ ~Refresh(TabOf[w])'.sets
          /\ Refresh(TabOf[w])'.token = fetch[f].cookie
      BY <1>0, <1>3, <2>3, RefreshTypes DEF SessionKeeps, Refresh, FetchState
    <3>2. fetch[f].step = "sent" /\ TokenAgrees(f)
      BY <2>3 DEF SessionKeeps
    <3>3. RefreshGoodFor(w)'
      <4> SUFFICES ASSUME Clean(w), write[w].step \in UnderWay
                   PROVE  GoodToken(jarT)' /\ fetch[f].cookie = jarT
        BY <1>1, <3>1 DEF RefreshGoodFor, Clean, UnderWay
      <4>1. fetch[f].session = jarS /\ fetch[f].cookie = jarT
        BY <1>0, <1>3, <3>2 DEF RetryInv, RefreshGoodFor, Refresh
      <4>2. GoodToken(jarT)
        BY <3>2, <4>1 DEF GoodToken, TokenAgrees
      <4> QED
        BY <1>1, <4>1, <4>2 DEF GoodToken, Live
    <3> QED
      BY <1>0, <1>1, <2>1, <3>1, <3>3 DEF RetryInv, RetryGoodFor, RefusalForeign, Clean
  <2>4. CASE SessionRotates(f)
    <3>1. /\ Refresh(TabOf[w])'.step = "rotate" /\ Refresh(TabOf[w])'.token = made + 1
          /\ Refresh(TabOf[w])'.session = fetch[f].session
      BY <1>0, <1>3, <2>4, RefreshTypes DEF SessionRotates, Refresh, FetchState
    <3>2. made + 1 \in Fresh'
      BY <1>0, <2>4, RefreshTypes DEF SessionRotates, NewToken, Fresh
    <3>3. RefreshGoodFor(w)'
      BY <1>0, <1>1, <1>3, <2>4, <3>1, <3>2
      DEF RetryInv, RefreshGoodFor, SessionRotates, Refresh, Clean, UnderWay
    <3>4. ~(Clean(w) /\ write[w].step = "sent" /\ write[w].retried)
      <4> SUFFICES ASSUME Clean(w), write[w].step = "sent", write[w].retried PROVE FALSE
        OBVIOUS
      <4>1. GoodToken(jarT)
        BY <1>0 DEF RetryInv, RetryGoodFor
      <4>2. fetch[f].session = jarS /\ fetch[f].cookie = jarT
        BY <1>0, <1>3, <2>4 DEF RetryInv, RefreshGoodFor, SessionRotates, Refresh, UnderWay
      <4> QED
        BY <2>4, <4>1, <4>2 DEF SessionRotates, GoodToken, TokenAgrees
    <3> QED
      BY <1>0, <1>1, <3>3, <3>4 DEF RetryInv, RetryGoodFor, RefusalForeign, Clean
  <2> QED
    BY <2>2, <2>3, <2>4
<1> QED
  BY <1>2, <1>3

\* A rotation that is committed: the writes of the tab get the token with the
\* answer, and the others are disturbed.
LEMMA RotationKeepsRetries ==
    ASSUME RefusalInv, NEW f \in Fetches, CommitRotation(f)
    PROVE  \A w \in Writes : RetryInv(w)'
<1>0. TypeOK /\ \A w \in Writes : RetryInv(w)
  BY DEF RefusalInv, SessionsInv
<1>1. /\ write' = write /\ jarS' = jarS /\ jarT' = jarT /\ over' = over /\ Fresh' = Fresh
      /\ \A g \in Fetches \ {f} : fetch'[g] = fetch[g]
      /\ fetch[f].step = "rotate"
  BY <1>0, RefreshTypes DEF CommitRotation, FetchFrame, Fresh
<1>2. CASE row[fetch[f].session] = None
  <2> SUFFICES ASSUME NEW w \in Writes PROVE RetryInv(w)'
    OBVIOUS
  <2>1. row' = row /\ disturbed' = disturbed /\ fetch'[f].step = "error"
    BY <1>0, <1>2, RefreshTypes DEF CommitRotation, FetchState
  <2>2. \A k : GoodToken(k) => GoodToken(k)'
    BY <1>1, <2>1 DEF GoodToken, Live
  <2>3. CASE f # <<TabOf[w], "refresh">>
    BY <1>0, <1>1, <2>1, <2>3, RefreshTypes, UndisturbedKept DEF Undisturbed, Refresh, Live
  <2>4. CASE f = <<TabOf[w], "refresh">>
    BY <1>0, <1>1, <2>1, <2>2, <2>4
    DEF RetryInv, RefreshGoodFor, RetryGoodFor, RefusalForeign, Clean, Refresh
  <2> QED
    BY <2>3, <2>4
<1>3. CASE row[fetch[f].session] # None /\ f[2] = "load"
  <2>1. Disturb(Writes)
    BY <1>3 DEF CommitRotation, Others
  <2> QED
    BY <1>0, <1>1, <2>1, AllDisturbed
<1>4. CASE row[fetch[f].session] # None /\ f[2] = "refresh"
  <2> SUFFICES ASSUME NEW w \in Writes PROVE RetryInv(w)'
    OBVIOUS
  <2>1. /\ disturbed' = {v \in disturbed \cup OfOthers(f[1]) : write[v].step # "idle"}
        /\ row' = [row EXCEPT ![fetch[f].session] = fetch[f].token]
        /\ fetch'[f].step = "answer" /\ fetch'[f].token = fetch[f].token /\ fetch'[f].sets
    <3>1. fetch'[f] = Rotated(f)
      BY <1>0, <1>4, RefreshTypes DEF CommitRotation
    <3>2. Rotated(f).step = "answer" /\ Rotated(f).token = fetch[f].token /\ Rotated(f).sets
      BY <1>0, RefreshTypes DEF Rotated, FetchState
    <3>3. Disturb(OfOthers(f[1])) /\ row' = [row EXCEPT ![fetch[f].session] = fetch[f].token]
      BY <1>4 DEF CommitRotation, Others
    <3> QED
      BY <3>1, <3>2, <3>3 DEF Disturb
  <2>2. CASE TabOf[w] # f[1]
    <3>1. write[w].step = "idle" \/ ~Clean(w)'
      BY <2>1, <2>2 DEF OfOthers, Clean
    <3> QED
      BY <1>1, <3>1 DEF RetryInv, RefreshGoodFor, RetryGoodFor, RefusalForeign, Clean, UnderWay
  <2>3. CASE f = <<TabOf[w], "refresh">>
    <3>1. ASSUME write[w].step # "idle" PROVE Clean(w)' <=> Clean(w)
      BY <2>1, <2>3, <3>1 DEF OfOthers, Clean
    <3>2. ~(Clean(w) /\ write[w].step = "sent" /\ write[w].retried)
      BY <1>0, <1>1, <2>3 DEF RetryInv, RetryGoodFor, Refresh
    <3>3. RefreshGoodFor(w)'
      <4> SUFFICES ASSUME Clean(w), write[w].step \in UnderWay
                   PROVE  GoodToken(fetch[f].token)'
        BY <1>1, <2>1, <2>3, <3>1 DEF RefreshGoodFor, UnderWay, Refresh, GoodToken
      <4>1. fetch[f].session = jarS /\ fetch[f].token \in Fresh
        BY <1>0, <1>1, <2>3 DEF RetryInv, RefreshGoodFor, Refresh
      <4>2. Live(jarS)' => jarS \in SessionIds
        BY <1>0, <1>1, RefreshTypes DEF Live, SessionIds
      <4> QED
        BY <1>0, <1>1, <2>1, <4>1, <4>2, RefreshTypes DEF GoodToken
    <3> QED
      BY <1>0, <1>1, <3>1, <3>2, <3>3 DEF RetryInv, RetryGoodFor, RefusalForeign, Clean
  <2>4. f = <<f[1], "refresh">>
    BY <1>0, <1>4, RefreshTypes
  <2> QED
    BY <2>2, <2>3, <2>4
<1> QED
  BY <1>0, <1>2, <1>3, <1>4, RefreshTypes

\* An answer of GET /auth/session: what waits is sent again.
LEMMA AnswerKeepsRetries ==
    ASSUME RefusalInv, NEW f \in Fetches, SessionAnswered(f)
    PROVE  \A w \in Writes : RetryInv(w)'
<1> DEFINE cookie == IF fetch[f].sets THEN fetch[f].token ELSE jarT
           Again(v) == [write[v] EXCEPT !.step = "sent", !.retried = TRUE,
                          !.token = fetch[f].token, !.cookie = cookie, !.session = jarS]
<1>0. TypeOK /\ \A w \in Writes : RetryInv(w)
  BY DEF RefusalInv, SessionsInv
<1>1. /\ jarS' = jarS /\ jarT' = cookie /\ over' = over /\ row' = row /\ Fresh' = Fresh
      /\ fetch' = [fetch EXCEPT ![f] = NoFetch] /\ fetch[f].step = "answer"
      /\ Disturb(IF fetch[f].sets THEN Others(f) ELSE {})
      /\ write' = [w \in Writes |-> IF f[2] = "refresh" /\ w \in Waiting(f[1])
                                    THEN Again(w) ELSE write[w]]
  BY DEF SessionAnswered, FetchFrame, Fresh
<1>2. CASE fetch[f].sets /\ f[2] = "load"
  <2>1. Disturb(Writes)
    BY <1>1, <1>2 DEF Others
  <2>2. \A w \in Writes : write'[w] = write[w]
    BY <1>1, <1>2
  <2> QED
    BY <1>0, <2>1, <2>2, AllDisturbed
<1>3. ASSUME NEW w \in Writes, f # <<TabOf[w], "refresh">>, ~fetch[f].sets \/ f[2] = "refresh"
      PROVE  RetryInv(w)'
  <2>1. write'[w] = write[w]
    BY <1>0, <1>1, <1>3, RefreshTypes DEF Waiting
  <2>2. CASE fetch[f].sets
    <3>1. w \in OfOthers(f[1])
      BY <1>0, <1>3, <2>2, RefreshTypes DEF OfOthers
    <3>2. write[w].step = "idle" \/ ~Clean(w)'
      BY <1>1, <1>3, <2>2, <3>1 DEF Disturb, Others, Clean
    <3> QED
      BY <2>1, <3>2 DEF RetryInv, RefreshGoodFor, RetryGoodFor, RefusalForeign, Clean, UnderWay
  <2>3. CASE ~fetch[f].sets
    <3>1. Undisturbed(w)
      BY <1>0, <1>1, <1>3, <2>3, RefreshTypes DEF Undisturbed, Refresh, Live
    <3>2. w \in disturbed => w \in disturbed' \/ write[w].step = "idle"
      BY <1>1, <2>3 DEF Disturb
    <3> QED
      BY <1>0, <2>1, <3>1, <3>2, UndisturbedKept
  <2> QED
    BY <2>2, <2>3
<1>4. ASSUME NEW w \in Writes, f = <<TabOf[w], "refresh">>
      PROVE  RetryInv(w)'
  <2>1. Refresh(TabOf[w])'.step = "none" /\ Refresh(TabOf[w])' = NoFetch
    BY <1>0, <1>1, <1>4, RefreshTypes DEF Refresh
  <2>2. RefreshGoodFor(w)'
    BY <2>1 DEF RefreshGoodFor
  <2>3. ASSUME Clean(w)', write[w].step # "idle" PROVE Clean(w)
    BY <1>1, <2>3 DEF Disturb, Clean
  <2>4. \A k : GoodToken(k) => GoodToken(k)'
    BY <1>1 DEF GoodToken, Live
  <2>5. CASE write[w].step = "waiting"
    <3>1. write'[w] = Again(w)
      BY <1>1, <1>4, <2>5 DEF Waiting
    <3>2. /\ Again(w).step = "sent" /\ Again(w).session = jarS
          /\ Again(w).cookie = cookie /\ Again(w).token = fetch[f].token
      BY <1>0, RefreshTypes DEF WriteState
    <3>3. Clean(w)' => GoodToken(fetch[f].token) /\ cookie = fetch[f].token
      BY <1>0, <1>1, <1>4, <2>3, <2>5 DEF RetryInv, RefreshGoodFor, Refresh, UnderWay
    <3>4. Clean(w)' => GoodToken(jarT)'
      <4> SUFFICES ASSUME Clean(w)' PROVE GoodToken(jarT)'
        OBVIOUS
      <4>1. GoodToken(fetch[f].token) /\ jarT' = fetch[f].token
        BY <1>1, <3>3
      <4> QED
        BY <1>1, <4>1 DEF GoodToken, Live
    <3> HIDE DEF Again
    <3>5. RetryGoodFor(w)'
      BY <1>1, <2>1, <3>1, <3>2, <3>3, <3>4 DEF RetryGoodFor
    <3>6. RefusalForeign(w)'
      BY <3>1, <3>2 DEF RefusalForeign
    <3> QED
      BY <2>2, <3>5, <3>6 DEF RetryInv
  <2>6. CASE write[w].step # "waiting"
    <3>1. write'[w] = write[w]
      BY <1>1, <2>6 DEF Waiting
    <3>2. RetryGoodFor(w)'
      <4> SUFFICES ASSUME Clean(w)', write[w].step = "sent", write[w].retried
                   PROVE  /\ write[w].session = jarS /\ write[w].cookie = jarT
                          /\ write[w].token = jarT /\ cookie = jarT /\ GoodToken(jarT)
        BY <1>1, <2>1, <3>1 DEF RetryGoodFor, GoodToken, Live
      <4> QED
        BY <1>0, <1>1, <1>4, <2>3 DEF RetryInv, RetryGoodFor, Refresh
    <3>3. RefusalForeign(w)'
      BY <1>0, <1>1, <3>1 DEF RetryInv, RefusalForeign, Disturb
    <3> QED
      BY <2>2, <3>2, <3>3 DEF RetryInv
  <2> QED
    BY <2>5, <2>6
<1> QED
  BY <1>0, <1>2, <1>3, <1>4, RefreshTypes

\* A request of GET /auth/session that fails: what waits is given up.
LEMMA FailureKeepsRetries ==
    ASSUME RefusalInv, NEW f \in Fetches, SessionFails(f)
    PROVE  \A w \in Writes : RetryInv(w)'
<1> SUFFICES ASSUME NEW w \in Writes PROVE RetryInv(w)'
  OBVIOUS
<1>0. TypeOK /\ RetryInv(w)
  BY DEF RefusalInv, SessionsInv
<1>1. /\ jarS' = jarS /\ jarT' = jarT /\ over' = over /\ row' = row /\ Fresh' = Fresh
      /\ disturbed' = disturbed
      /\ fetch' = [fetch EXCEPT ![f] = NoFetch]
      /\ write'[w] = IF f[2] = "refresh" /\ w \in Waiting(f[1]) THEN NoWrite ELSE write[w]
  BY DEF SessionFails, FetchFrame, Fresh
<1>2. CASE write'[w] = NoWrite
  BY <1>0, <1>2, RefreshTypes DEF RetryInv, RefreshGoodFor, RetryGoodFor, RefusalForeign, UnderWay
<1>3. CASE write'[w] = write[w] /\ f # <<TabOf[w], "refresh">>
  BY <1>0, <1>1, <1>3, RefreshTypes, UndisturbedKept DEF Undisturbed, Refresh, Live
<1>4. CASE write'[w] = write[w] /\ f = <<TabOf[w], "refresh">>
  <2>1. Refresh(TabOf[w])'.step = "none"
    BY <1>0, <1>1, <1>4, RefreshTypes DEF Refresh
  <2>2. GoodToken(jarT) => GoodToken(jarT)'
    BY <1>1 DEF GoodToken, Live
  <2> QED
    BY <1>0, <1>1, <1>4, <2>1, <2>2
    DEF RetryInv, RefreshGoodFor, RetryGoodFor, RefusalForeign, Clean
<1> QED
  BY <1>1, <1>2, <1>3, <1>4

\* A step of one write says what becomes of it and nothing of the others.
LEMMA StepOfOne ==
    ASSUME TypeOK, NEW w \in Writes, NEW step, SetStep(w, step) \/ Ends(w, step)
    PROVE  /\ write'[w].step = step
           /\ SetStep(w, step) => write'[w].retried = write[w].retried
           /\ \A v \in Writes \ {w} : write'[v] = write[v]
<1> DEFINE New == [NoWrite EXCEPT !.step = step, !.kind = write[w].kind,
                                  !.retried = write[w].retried]
<1>1. write \in [Writes -> WriteState] /\ NoWrite \in WriteState
  BY RefreshTypes
<1>2. New.step = step /\ New.retried = write[w].retried
  BY <1>1 DEF WriteState
<1>3. CASE SetStep(w, step)
  <2>1. write' = [write EXCEPT ![w] = New]
    BY <1>3 DEF SetStep
  <2> HIDE DEF New
  <2> QED
    BY <1>1, <1>2, <2>1
<1>4. CASE Ends(w, step) /\ ~SetStep(w, step)
  BY <1>1, <1>4 DEF Ends, WriteState
<1> QED
  BY <1>3, <1>4

\* The other writes, in a step of a write that leaves cookies and refreshes
\* alone; a logout disturbs them.
LEMMA OthersKeepRetries ==
    ASSUME RefusalInv, NEW w \in Writes,
           \A v \in Writes \ {w} : write'[v] = write[v],
           UNCHANGED <<made, expired, over, jarS, jarT, fetch>>,
           \/ UNCHANGED <<row, disturbed>>
           \/ Disturb(Writes \ {w})
    PROVE  \A v \in Writes \ {w} : RetryInv(v)'
<1> SUFFICES ASSUME NEW v \in Writes \ {w} PROVE RetryInv(v)'
  OBVIOUS
<1>1. CASE Disturb(Writes \ {w})
  <2>1. write[v].step = "idle" \/ ~Clean(v)'
    BY <1>1 DEF Disturb, Clean
  <2> QED
    BY <2>1 DEF RetryInv, RefreshGoodFor, RetryGoodFor, RefusalForeign, Clean, UnderWay
<1>2. CASE UNCHANGED <<row, disturbed>>
  BY <1>2, UndisturbedKept DEF RefusalInv, Undisturbed, Fresh, Live, Refresh
<1> QED
  BY <1>1, <1>2

\* The steps of a write that has been sent.
LEMMA WriteKeepsRetries ==
    ASSUME RefusalInv, NEW w \in Writes, apiRequest(w)
    PROVE  \A v \in Writes : RetryInv(v)'
<1>0. TypeOK /\ \A v \in Writes : RetryInv(v)
  BY DEF RefusalInv, SessionsInv
<1>1. CASE Accept(w)
  <2>1. write'[w].step = "answered" /\ \A v \in Writes \ {w} : write'[v] = write[v]
    BY <1>0, <1>1, StepOfOne DEF Accept
  <2>2. RetryInv(w)'
    BY <2>1 DEF RetryInv, RefreshGoodFor, RetryGoodFor, RefusalForeign, UnderWay
  <2>3. \A v \in Writes \ {w} : RetryInv(v)'
    BY <1>1, <2>1, OthersKeepRetries DEF Accept, WriteFrame
  <2> QED
    BY <2>2, <2>3
<1>2. CASE Refuse(w)
  <2>1. /\ write'[w].step \in {"unauthorized", "invalid"}
        /\ write'[w].retried = write[w].retried
        /\ \A v \in Writes \ {w} : write'[v] = write[v]
        /\ write'[w].step = "invalid" => HasSession(w) /\ ~TokenIsValid(w)
    BY <1>0, <1>2, StepOfOne DEF Refuse
  <2>2. UNCHANGED <<made, expired, over, jarS, jarT, fetch, row, disturbed>>
    BY <1>2 DEF Refuse, WriteFrame
  <2>3. write[w].step = "sent" /\ \A k : GoodToken(k)' <=> GoodToken(k)
    BY <1>2, <2>2 DEF Refuse, GoodToken, Fresh, Live
  <2>4. RefreshGoodFor(w)'
    BY <1>0, <2>2, <2>3 DEF RetryInv, RefreshGoodFor, Clean, Refresh, UnderWay, GoodToken, Fresh, Live
  <2>5. RefusalForeign(w)'
    <3> SUFFICES ASSUME write'[w].step = "invalid", write[w].retried, Clean(w) PROVE FALSE
      BY <2>1, <2>2 DEF RefusalForeign, Clean
    <3>1. /\ write[w].session = jarS /\ write[w].cookie = jarT /\ write[w].token = jarT
          /\ GoodToken(jarT)
      BY <1>0, <2>3 DEF RetryInv, RetryGoodFor
    <3> QED
      BY <2>1, <3>1 DEF GoodToken, HasSession, TokenIsValid
  <2>6. RetryGoodFor(w)'
    BY <2>1 DEF RetryGoodFor
  <2>7. \A v \in Writes \ {w} : RetryInv(v)'
    BY <2>1, <2>2, OthersKeepRetries
  <2> QED
    BY <2>4, <2>5, <2>6, <2>7 DEF RetryInv
<1>3. CASE Answered(w) \/ Unauthorized(w) \/ Lost(w)
  <2>1. write'[w].step = "idle" /\ \A v \in Writes \ {w} : write'[v] = write[v]
    BY <1>0, <1>3, StepOfOne DEF Answered, Unauthorized, Lost
  <2>2. CASE Disturb(Writes)
    BY <1>0, <2>1, <2>2, AllDisturbed
  <2>3. CASE ~Disturb(Writes)
    <3>1. RetryInv(w)'
      BY <2>1 DEF RetryInv, RefreshGoodFor, RetryGoodFor, RefusalForeign, UnderWay
    <3>2. \A v \in Writes \ {w} : RetryInv(v)'
      BY <1>3, <2>1, <2>3, OthersKeepRetries DEF Answered, Unauthorized, Lost, WriteFrame
    <3> QED
      BY <3>1, <3>2
  <2> QED
    BY <2>2, <2>3
<1>4. CASE Invalid(w) /\ write[w].retried
  <2>1. write'[w].step = "refused" /\ \A v \in Writes \ {w} : write'[v] = write[v]
    BY <1>0, <1>4, StepOfOne DEF Invalid
  <2>2. UNCHANGED <<made, expired, over, jarS, jarT, fetch, row, disturbed>>
    BY <1>4 DEF Invalid, WriteFrame
  <2>3. w \in disturbed
    BY <1>0, <1>4 DEF Invalid, RetryInv, RefusalForeign
  <2>4. RetryInv(w)'
    BY <2>1, <2>2, <2>3 DEF RetryInv, RefreshGoodFor, RetryGoodFor, RefusalForeign, UnderWay
  <2>5. \A v \in Writes \ {w} : RetryInv(v)'
    BY <2>1, <2>2, OthersKeepRetries
  <2> QED
    BY <2>4, <2>5
<1>5. CASE Invalid(w) /\ ~write[w].retried
  <2>1. write'[w].step = "waiting" /\ \A v \in Writes \ {w} : write'[v] = write[v]
    BY <1>0, <1>5, StepOfOne DEF Invalid
  <2>2. UNCHANGED <<made, expired, over, jarS, jarT, row, disturbed>>
    BY <1>5 DEF Invalid, WriteFrame
  <2>3. \A k : GoodToken(k)' <=> GoodToken(k)
    BY <2>2 DEF GoodToken, Fresh, Live
  <2>4. \A t \in Tabs : \/ Refresh(t)' = Refresh(t)
                        \/ Refresh(t)' = Sent
    BY <1>0, <1>5, RefreshTypes DEF Invalid, Refresh
  <2>5. ASSUME NEW v \in Writes PROVE RefreshGoodFor(v)'
    <3>1. CASE Refresh(TabOf[v])' = Sent
      BY <1>0, <2>2, <3>1, RefreshTypes DEF RefreshGoodFor
    <3>2. CASE Refresh(TabOf[v])' = Refresh(TabOf[v])
      <4>1. write'[v].step \in UnderWay => write[v].step \in UnderWay
        BY <1>5, <2>1 DEF Invalid, UnderWay
      <4> QED
        BY <1>0, <2>2, <2>3, <3>2, <4>1
        DEF RetryInv, RefreshGoodFor, Clean, UnderWay, GoodToken, Fresh, Live
    <3> QED
      BY <1>0, <2>4, <3>1, <3>2, RefreshTypes
  <2>6. ASSUME NEW v \in Writes PROVE RetryGoodFor(v)'
    <3>1. CASE v = w
      BY <2>1, <3>1 DEF RetryGoodFor
    <3>2. CASE v # w
      <4>1. GoodToken(jarT) => GoodToken(jarT)'
        BY <2>2 DEF GoodToken, Fresh, Live
      <4>2. \/ Refresh(TabOf[v])' = Refresh(TabOf[v])
            \/ Refresh(TabOf[v])'.step = "sent"
        BY <1>0, <2>4, RefreshTypes
      <4> QED
        BY <1>0, <2>1, <2>2, <3>2, <4>1, <4>2 DEF RetryInv, RetryGoodFor, Clean
    <3> QED
      BY <3>1, <3>2
  <2>7. ASSUME NEW v \in Writes PROVE RefusalForeign(v)'
    BY <1>0, <2>1, <2>2 DEF RetryInv, RefusalForeign
  <2> QED
    BY <2>5, <2>6, <2>7 DEF RetryInv
<1> QED
  BY <1>1, <1>2, <1>3, <1>4, <1>5 DEF apiRequest

\* A write that begins beside a refresh is as good as those that wait for it.
LEMMA StartKeepsRetries ==
    ASSUME RefusalInv, NEW w \in Writes, NEW kind \in {"save", "logout"}, StartWrite(w, kind)
    PROVE  \A v \in Writes : RetryInv(v)'
<1>0. TypeOK /\ (\A v \in Writes : RetryInv(v)) /\ RefreshHasWaiter
  BY DEF RefusalInv, SessionsInv
<1>1. /\ write'[w].step = "sent" /\ ~write'[w].retried
      /\ \A v \in Writes \ {w} : write'[v] = write[v]
      /\ write[w].step \in Ended
  BY <1>0, RefreshTypes DEF StartWrite, WriteState
<1>2. /\ UNCHANGED <<made, expired, over, jarS, jarT, fetch, row>>
      /\ disturbed' = IF Waiting(TabOf[w]) \cap disturbed = {}
                      THEN disturbed \ {w} ELSE disturbed \cup {w}
  BY DEF StartWrite, WriteFrame
<1>3. ASSUME NEW v \in Writes \ {w} PROVE RetryInv(v)'
  BY <1>0, <1>1, <1>2, UndisturbedKept DEF Undisturbed, Fresh, Live, Refresh
<1>4. RefreshGoodFor(w)'
  <2>1. CASE Refresh(TabOf[w]).step = "none"
    BY <1>2, <2>1 DEF RefreshGoodFor, Refresh
  <2>2. CASE ~Clean(w)'
    BY <2>2 DEF RefreshGoodFor
  <2>3. CASE Refresh(TabOf[w]).step # "none" /\ Clean(w)'
    <3>1. PICK u \in Waiting(TabOf[w]) : TRUE
      BY <1>0, <2>3, RefreshTypes DEF RefreshHasWaiter
    <3>2. Clean(u) /\ TabOf[u] = TabOf[w] /\ write[u].step \in UnderWay /\ u \in Writes
      BY <1>2, <2>3, <3>1 DEF Clean, Waiting, UnderWay
    <3>3. RefreshGoodFor(u)
      BY <1>0, <3>2 DEF RetryInv
    <3> QED
      BY <1>2, <3>2, <3>3 DEF RefreshGoodFor, GoodToken, Fresh, Live, Refresh
  <2> QED
    BY <2>1, <2>2, <2>3
<1>5. RetryGoodFor(w)' /\ RefusalForeign(w)'
  BY <1>1 DEF RetryGoodFor, RefusalForeign
<1> QED
  BY <1>3, <1>4, <1>5 DEF RetryInv

\* A refresh begins with a write that waits, and ends with all that do.
LEMMA RefreshHasWaiterKept ==
    ASSUME RefusalInv, [Next]_vars
    PROVE  RefreshHasWaiter'
<1> SUFFICES ASSUME NEW t \in Tabs, Refresh(t)'.step # "none"
             PROVE  Waiting(t)' # {}
  BY DEF RefreshHasWaiter
<1>0. TypeOK /\ SessionsInv /\ (Refresh(t).step # "none" => Waiting(t) # {})
  BY DEF RefusalInv, SessionsInv, RefreshHasWaiter
<1>1. ASSUME \A u \in Waiting(t) : write'[u].step = "waiting", Refresh(t).step # "none"
      PROVE  Waiting(t)' # {}
  BY <1>0, <1>1 DEF Waiting
<1>2. CASE csrf \/ create_owner \/ login \/ TokenExpires \/ SessionExpires \/ UNCHANGED vars
  BY <1>1, <1>2 DEF csrf, create_owner, login, SignInFrame, TokenExpires, SessionExpires,
                    TimeFrame, vars, Refresh, Waiting
<1>3. ASSUME NEW s \in Tabs, Load(s)
      PROVE  Waiting(t)' # {}
  BY <1>0, <1>1, <1>3, RefreshTypes DEF Load, Refresh, Waiting
<1>4. ASSUME NEW f \in Fetches, auth_session(f)
      PROVE  Waiting(t)' # {}
  <2>1. write' = write /\ fetch[f].step # "none"
        /\ \A g \in Fetches \ {f} : fetch'[g] = fetch[g]
    BY <1>0, <1>4, RefreshTypes
    DEF auth_session, SessionUnauthorized, SessionKeeps, SessionRotates, CommitRotation
  <2> QED
    BY <1>0, <1>1, <2>1, RefreshTypes DEF Refresh, Waiting
<1>5. ASSUME NEW f \in Fetches, SessionAnswered(f) \/ SessionFails(f)
      PROVE  Waiting(t)' # {}
  <2>1. /\ fetch' = [fetch EXCEPT ![f] = NoFetch]
        /\ \A w \in Writes : ~(f[2] = "refresh" /\ w \in Waiting(f[1])) => write'[w] = write[w]
    BY <1>5 DEF SessionAnswered, SessionFails
  <2>2. f # <<t, "refresh">>
    BY <1>0, <2>1, RefreshTypes DEF Refresh
  <2>3. \A w \in Waiting(t) : write'[w] = write[w]
    BY <1>0, <2>1, <2>2, RefreshTypes DEF Waiting
  <2>4. Refresh(t)' = Refresh(t)
    BY <1>0, <2>1, <2>2, RefreshTypes DEF Refresh
  <2> QED
    BY <1>1, <2>3, <2>4 DEF Waiting
<1>6. ASSUME NEW w \in Writes, apiRequest(w)
      PROVE  Waiting(t)' # {}
  <2>1. CASE Accept(w) \/ Refuse(w) \/ Answered(w) \/ Unauthorized(w) \/ Lost(w)
    <3>1. /\ write[w].step # "waiting" /\ fetch' = fetch
          /\ \A v \in Writes \ {w} : write'[v] = write[v]
      BY <1>0, <2>1, StepOfOne DEF Accept, Refuse, Answered, Unauthorized, Lost
    <3> QED
      BY <1>1, <3>1 DEF Waiting, Refresh
  <2>2. CASE Invalid(w) /\ write[w].retried
    <3>1. /\ write[w].step # "waiting" /\ fetch' = fetch
          /\ \A v \in Writes \ {w} : write'[v] = write[v]
      BY <1>0, <2>2, StepOfOne DEF Invalid
    <3> QED
      BY <1>1, <3>1 DEF Waiting, Refresh
  <2>3. CASE Invalid(w) /\ ~write[w].retried
    <3>1. /\ write'[w].step = "waiting"
          /\ \A v \in Writes \ {w} : write'[v] = write[v]
      BY <1>0, <2>3, StepOfOne DEF Invalid
    <3>2. CASE TabOf[w] = t
      BY <3>1, <3>2 DEF Waiting
    <3>3. CASE TabOf[w] # t
      <4>1. Refresh(t)' = Refresh(t)
        BY <1>0, <2>3, <3>3, RefreshTypes DEF Invalid, Refresh
      <4> QED
        BY <1>1, <3>1, <4>1 DEF Waiting
    <3> QED
      BY <3>2, <3>3
  <2> QED
    BY <1>6, <2>1, <2>2, <2>3 DEF apiRequest
<1>7. ASSUME NEW w \in Writes, NEW kind \in {"save", "logout"}, StartWrite(w, kind)
      PROVE  Waiting(t)' # {}
  <2>1. /\ write[w].step # "waiting" /\ fetch' = fetch
        /\ \A v \in Writes \ {w} : write'[v] = write[v]
    BY <1>0, <1>7, RefreshTypes DEF StartWrite, Ended
  <2> QED
    BY <1>1, <2>1 DEF Waiting, Refresh
<1> QED
  BY <1>2, <1>3, <1>4, <1>5, <1>6, <1>7 DEF Next

LEMMA RefusalInvKept == RefusalInv /\ [Next]_vars => RefusalInv'
<1> SUFFICES ASSUME RefusalInv, [Next]_vars PROVE RefusalInv'
  OBVIOUS
<1>0. TypeOK /\ \A w \in Writes : RetryInv(w)
  BY DEF RefusalInv, SessionsInv
<1>1. SessionsInv' /\ RefreshHasWaiter'
  BY SessionsInvKept, RefreshHasWaiterKept DEF RefusalInv
<1>2. ASSUME NEW t \in Tabs, Load(t)
      PROVE  \A w \in Writes : RetryInv(w)'
  <2>1. /\ UNCHANGED <<made, expired, over, jarS, jarT, row, write, disturbed>>
        /\ \A w \in Writes : Refresh(TabOf[w])' = Refresh(TabOf[w])
    BY <1>0, <1>2, RefreshTypes DEF Load, FetchFrame, Refresh
  <2> QED
    BY <1>0, <2>1, UndisturbedKept DEF Undisturbed, Fresh, Live
<1>3. ASSUME UNCHANGED vars
      PROVE  \A w \in Writes : RetryInv(w)'
  <2>1. /\ UNCHANGED <<made, expired, over, jarS, jarT, row, write, disturbed>>
        /\ \A w \in Writes : Refresh(TabOf[w])' = Refresh(TabOf[w])
    BY <1>3 DEF vars, Refresh
  <2> QED
    BY <1>0, <2>1, UndisturbedKept DEF Undisturbed, Fresh, Live
<1>4. \A w \in Writes : RetryInv(w)'
  BY <1>2, <1>3, SignInKeepsRetries, RequestKeepsRetries, RotationKeepsRetries,
     AnswerKeepsRetries, FailureKeepsRetries, WriteKeepsRetries, StartKeepsRetries
  DEF Next, auth_session
<1> QED
  BY <1>1, <1>4 DEF RefusalInv

-----------------------------------------------------------------------------
(* Theorems. *)

\* The invariant holds of every reachable state: requests, tokens and cookies
\* have the values the code gives them.
THEOREM SessionsCorrect == Spec => []SessionsInv
<1>1. Init => SessionsInv
  BY InitSessionsInv
<1>2. SessionsInv /\ [Next]_vars => SessionsInv'
  BY SessionsInvKept
<1> QED
  BY <1>1, <1>2, PTL DEF Spec

\* apiRequest sends a write again only after a 403, so that a write is carried
\* out at most once however the refreshes, logins and lost answers fall.
THEOREM AppliedAtMostOnceCorrect == Spec => []AppliedAtMostOnce
<1>1. SessionsInv => AppliedAtMostOnce
  BY DEF SessionsInv, AppliedByStep, AppliedAtMostOnce
<1> QED
  BY <1>1, SessionsCorrect, PTL

\* A write that waits on sessionRefresh waits on a request that is under way.
THEOREM WaitersHaveRefreshCorrect == Spec => []WaitersHaveRefresh
<1>1. SessionsInv => WaitersHaveRefresh
  BY DEF SessionsInv
<1> QED
  BY <1>1, SessionsCorrect, PTL

\* The one retry of api.ts is enough: unless another tab, a session query, a
\* login, a logout or time comes in between, the token that a refresh brings is
\* the one in the cookie and in the row when the write is sent again.
THEOREM RefusedOnlyIfDisturbedCorrect == Spec => []RefusedOnlyIfDisturbed
<1>1. Init => RefusalInv
  <2> SUFFICES ASSUME Init PROVE RefusalInv
    OBVIOUS
  <2>1. \A w \in Writes : write[w].step = "idle"
    BY DEF Init, NoWrite
  <2>2. \A w \in Writes : RetryInv(w)
    BY <2>1 DEF RetryInv, RefreshGoodFor, RetryGoodFor, RefusalForeign, UnderWay
  <2>3. RefreshHasWaiter
    BY DEF Init, NoFetch, RefreshHasWaiter, Refresh, Fetches
  <2> QED
    BY <2>2, <2>3, InitSessionsInv DEF RefusalInv
<1>2. RefusalInv => RefusedOnlyIfDisturbed
  BY DEF RefusalInv, RetryInv, RefusalForeign, RefusedOnlyIfDisturbed
<1> QED
  BY <1>1, <1>2, RefusalInvKept, PTL DEF Spec

\* A session that was logged out or is past its end stays so, although a
\* rotation reads the row and updates it later without a lock.
THEOREM EndedSessionsStayEndedCorrect == Spec => EndedSessionsStayEnded
<1> DEFINE StayEnded == \A s \in 1..logins : ~Live(s) => ~Live(s)'
<1>1. ASSUME SessionsInv, [Next]_vars PROVE [StayEnded]_vars
  <2>0. /\ row \in [SessionIds -> Token] /\ logins \in 0..MaxLogins /\ over \in 0..logins
        /\ None \in Token
    BY <1>1, NewTokenOK DEF SessionsInv, TypeOK
  <2>1. over' \in Int /\ over <= over'
    <3>1. CASE SessionExpires
      BY <2>0, <3>1 DEF SessionExpires
    <3>2. CASE UNCHANGED over
      BY <2>0, <3>2
    <3> QED
      BY <1>1, <3>1, <3>2
      DEF Next, csrf, create_owner, login, SignInFrame, Load, auth_session, SessionUnauthorized,
          SessionKeeps, SessionRotates, CommitRotation, SessionAnswered, SessionFails, FetchFrame,
          apiRequest, Accept, Refuse, Answered, Unauthorized, Invalid, Lost, StartWrite, WriteFrame,
          TokenExpires, vars
  <2>2. \A s \in 1..logins : row[s] = None => row'[s] = None
    <3>1. CASE login
      BY <2>0, <3>1 DEF login, SessionIds
    <3>2. ASSUME NEW f \in Fetches, CommitRotation(f)
          PROVE  \A s \in 1..logins : row[s] = None => row'[s] = None
      BY <2>0, <3>2 DEF CommitRotation, SessionIds
    <3>3. ASSUME NEW w \in Writes, Accept(w)
          PROVE  \A s \in 1..logins : row[s] = None => row'[s] = None
      BY <2>0, <3>3 DEF Accept, SessionIds
    <3>4. CASE UNCHANGED row
      BY <3>4
    <3> QED
      BY <1>1, <3>1, <3>2, <3>3, <3>4
      DEF Next, csrf, create_owner, SignInFrame, Load, auth_session, SessionUnauthorized,
          SessionKeeps, SessionRotates, SessionAnswered, SessionFails, apiRequest, Refuse,
          Answered, Unauthorized, Invalid, Lost, StartWrite, TokenExpires, SessionExpires,
          TimeFrame, vars
  <2> QED
    BY <2>0, <2>1, <2>2 DEF Live
<1> QED
  BY <1>1, SessionsCorrect, PTL DEF Spec, EndedSessionsStayEnded

=============================================================================
