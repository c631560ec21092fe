-------------------------------- MODULE Session --------------------------------
(***************************************************************************)
(* Signing in and out: Login.vue, stores/auth.js, the guard of              *)
(* router/index.js, the interceptors of api/index.js and the handlers       *)
(* behind them (handler.go, auth.go).  Sessions are counted, and a session   *)
(* has the token of its own number; what the server finds for a request is  *)
(* its argument when it has been served, and its answer arrives later.      *)
(***************************************************************************)
EXTENDS Browser

CONSTANT MaxChecks      \* bound: sign-ins and checks of the session under way at once

Session == "Session"

\* What the server found: nothing yet, no session (or no right to one), or the session.
Waiting == None
Refused == 0

\* Who asks for a check of the session: the guard of a navigation, or the login form,
\* by the number of times it has been shown.
Guard == 0

\* session: the server's session of the browser's cookie (0: none, or expired); last: the
\* newest one; user, token: what the page believes; loading: of the login form shown now;
\* guarded: a navigation waits for a check.  unfetched observes that no token was fetched
\* since the last sign-in of a page that was signed in, or that the last fetch failed; late
\* that the last sign-in found a token of an earlier session on its way to the page.
SessionInit ==
    \E session \in 0..1 :
        /\ Opens([view |-> Session, session |-> session, last |-> session, route |-> "login",
                  form |-> 1, user |-> FALSE, token |-> 0, loading |-> FALSE, guarded |-> FALSE,
                  unfetched |-> FALSE, late |-> FALSE])
        /\ calls = EmptyBag

Check(asker) == Request("config", asker, Waiting)

CanCheck == BagCardinality(Copies({"login", "config", "csrf"})) < MaxChecks

\* The login form is shown: it is a new one when another page was there before.
ShowsLogin(p) ==
    IF p.route = "login" THEN p ELSE [p EXCEPT !.route = "login", !.form = @ + 1, !.loading = FALSE]

\* router.push or a typed address: the guard lets a user in, and asks about the others.
Enters(p) == IF p.user THEN [p EXCEPT !.route = "home"] ELSE [p EXCEPT !.guarded = TRUE]
EnterChecks(p) == IF p.user THEN {} ELSE {Check(Guard)}

SessionNavigate ==
    /\ Click(Session) /\ page.route = "login" /\ ~page.guarded /\ CanCheck
    /\ page' = Enters(page)
    /\ Sends(EnterChecks(page))

SessionLogin ==
    /\ Click(Session) /\ page.route = "login" /\ ~page.loading /\ CanCheck
    /\ page' = [page EXCEPT !.loading = TRUE]
    /\ Sends({Request("login", page.form, Waiting)})

\* The server has read a token for r, which is not settled yet.
TokenRead(r) == r.arg \notin {Waiting, Refused}

SessionBegun(p, session) ==
    [p EXCEPT !.session = session, !.last = session, !.unfetched = @ \/ p.user,
              !.late = \E r \in InFlight("csrf") : TokenRead(r)]

\* handleLogin: a new session, or a refusal.
SessionLoginServed(granted) == \E r \in InFlight("login") :
    LET answer == IF granted THEN page.last + 1 ELSE Refused
    IN  /\ r.arg = Waiting
        /\ SettledBy(Session, r, {[r EXCEPT !.arg = answer]})
        /\ page' = IF granted THEN SessionBegun(page, answer) ELSE page

FormDone(p, form) == [p EXCEPT !.loading = @ /\ form # p.form]

\* A refusal, or a failure without a message in JSON, ends in an error of handleLogin
\* itself (t.value is not a function there): the form's loading flag stays on.
SessionLoginAnswered(lost, json) == \E r \in InFlight("login") :
    LET granted == r.arg # Refused /\ ~lost
    IN  /\ r.arg # Waiting
        /\ SettledBy(Session, r, IF granted THEN {Check(r.key)} ELSE {})
        /\ page' = IF lost /\ json THEN FormDone(page, r.key) ELSE page

\* The page is loaded again: everything the browser held is gone but the cookie.
SessionReload ==
    /\ Click(Session) /\ calls = EmptyBag
    /\ page' = [ShowsLogin(page) EXCEPT !.user = FALSE, !.token = 0, !.loading = FALSE,
                                        !.guarded = FALSE, !.unfetched = FALSE, !.late = FALSE]
    /\ SendsNothing

SessionConfigServed == \E r \in InFlight("config") :
    /\ r.arg = Waiting
    /\ SettledBy(Session, r, {[r EXCEPT !.arg = page.session]})
    /\ page' = page

\* The end of a check, for the one who asked: the form pushes the way home in any case
\* (doLogin does not look at the result), the guard shows the login form on failure.
SessionChecked(p, asker, ok) ==
    CASE asker # Guard -> FormDone(Enters(p), asker)
      [] asker = Guard /\ ok -> [p EXCEPT !.guarded = FALSE, !.route = "home"]
      [] asker = Guard /\ ~ok -> [ShowsLogin(p) EXCEPT !.guarded = FALSE]

\* checkSession: a request that fails, after its retries, counts as no session.
SessionConfigAnswered(lost) == \E r \in InFlight("config") :
    LET ok == r.arg # Refused /\ ~lost
        out == [page EXCEPT !.user = FALSE, !.token = 0]
    IN  /\ r.arg # Waiting
        /\ SettledBy(Session, r,
              IF ok THEN {Request("csrf", r.key, Waiting)}
              ELSE IF r.key = Guard THEN {} ELSE EnterChecks(out))
        /\ page' = IF ok THEN [page EXCEPT !.user = TRUE]
                   ELSE SessionChecked(IF r.arg = Refused THEN ShowsLogin(out) ELSE out, r.key, FALSE)

SessionTokenServed == \E r \in InFlight("csrf") :
    /\ r.arg = Waiting
    /\ SettledBy(Session, r, {[r EXCEPT !.arg = page.session]})
    /\ page' = page

\* Mutation of TokenSet, used only to test the properties.
TokenSet_Once(p, token) ==
    [p EXCEPT !.token = IF @ = 0 THEN token ELSE @, !.unfetched = FALSE]

TokenSet(p, token) == [p EXCEPT !.token = token, !.unfetched = FALSE]

\* The inner try of checkSession: without a token the page goes on all the same.
SessionTokenAnswered(lost) == \E r \in InFlight("csrf") :
    LET none == lost \/ r.arg = Refused
        p == IF none THEN [page EXCEPT !.unfetched = TRUE] ELSE TokenSet(page, r.arg)
        q == IF r.arg = Refused THEN ShowsLogin(p) ELSE p
    IN  /\ r.arg # Waiting
        /\ SettledBy(Session, r, IF r.key = Guard THEN {} ELSE EnterChecks(q))
        /\ page' = SessionChecked(q, r.key, TRUE)

\* Any request that changes something, sent with the token there is.
SessionWrite ==
    /\ Click(Session) /\ page.route = "home" /\ InFlight("write") = {}
    /\ page' = page
    /\ Sends({Request("write", None, page.token)})

\* withAuth: 401 without a session, 403 when the token is not its own.
SessionWritten == \E r \in InFlight("write") :
    /\ SettledBy(Session, r, {})
    /\ page' = IF page.session = 0 THEN ShowsLogin(page) ELSE page

\* The session runs out, or the server is restarted with a new key.
SessionExpires ==
    /\ Click(Session) /\ page.session # 0
    /\ page' = [page EXCEPT !.session = 0]
    /\ SendsNothing

SessionLogout ==
    /\ Click(Session) /\ page.route = "home" /\ InFlight("logout") = {}
    /\ page' = page
    /\ Sends({Request("logout", None, page.token)})

\* The session is revoked only when the token is its own; the page signs out whatever
\* the answer is, and keeps its token.
SessionLoggedOut(lost) == \E r \in InFlight("logout") :
    /\ SettledBy(Session, r, {})
    /\ page' = [ShowsLogin(page) EXCEPT !.session = IF ~lost /\ r.arg = @ THEN 0 ELSE @,
                                        !.user = FALSE]

SessionAnswers ==
    \/ \E lost \in BOOLEAN :
          \/ SessionConfigAnswered(lost) \/ SessionTokenAnswered(lost) \/ SessionLoggedOut(lost)
          \/ SessionLoginServed(lost) \/ \E json \in BOOLEAN : SessionLoginAnswered(lost, json)
    \/ SessionConfigServed \/ SessionTokenServed \/ SessionWritten

SessionNext ==
    \/ SessionNavigate \/ SessionLogin \/ SessionReload \/ SessionWrite
    \/ SessionExpires \/ SessionLogout
    \/ SessionAnswers

-----------------------------------------------------------------------------

\* A page that is signed in and waits for no token sends the one of the session it is in
\* (checkSession: "Fetch CSRF token after session is validated"): a token kept from before
\* a logout is replaced, however checks, sign-ins and expiries follow each other.  Two
\* cases are excepted: a fetch that failed, or was not made since another sign-in of a page
\* already signed in; and a token read before the last sign-in, which may arrive after
\* the new one and take its place.
TokenOfSession ==
    At(Session) /\ page.user /\ page.session # 0 /\ InFlight("csrf") = {}
        /\ ~page.unfetched /\ ~page.late => page.token = page.session
=============================================================================
