------------------------------ MODULE PagesProofs ------------------------------
(***************************************************************************)
(* Proofs about single pages of the frontend and the handlers behind them:  *)
(* the token of the session, the last administrator, the save of the        *)
(* automatic sync, the dialogs and conversations that must not receive what *)
(* an earlier one asked for, the map of Home and the polling of the         *)
(* measurements.                                                            *)
(***************************************************************************)
EXTENDS BrowserProofs, Frontend, FiniteSetTheorems

-----------------------------------------------------------------------------
(* Login.vue, stores/auth.js: the token                                     *)

SessionSpec == SessionInit /\ [][SessionNext]_vars

SessionFields ==
    {"view", "session", "last", "route", "form", "user", "token", "unfetched", "late"}

\* Unless a sign-in found an earlier token on its way, what the server has read for a
\* request in flight is the token of the session that the page is in now.
TokensCurrent ==
    ~page.late /\ page.session # 0
        => \A r \in InFlight("csrf") : TokenRead(r) => r.arg = page.session

\* The token is fetched after the user is set, so it may differ only while that request
\* is in flight: with TokensCurrent, this is what TokenOfSession needs to be inductive.
TokenSound ==
    /\ CallsSound
    /\ page.view = Session /\ SessionFields \subseteq DOMAIN page
    /\ page.user \in BOOLEAN /\ page.unfetched \in BOOLEAN /\ page.late \in BOOLEAN
    /\ TokensCurrent
    /\ TokenOfSession

\* The fields the token depends on.
SameToken(p, q) ==
    /\ DOMAIN q = DOMAIN p /\ q.view = p.view /\ q.session = p.session
    /\ q.user = p.user /\ q.token = p.token
    /\ q.unfetched = p.unfetched /\ q.late = p.late

LEMMA FormsSameToken ==
    ASSUME NEW p, SessionFields \subseteq DOMAIN p
    PROVE  /\ SameToken(p, ShowsLogin(p)) /\ SameToken(p, Enters(p))
           /\ \A form : SameToken(p, FormDone(p, form))
BY DEF SessionFields, SameToken, ShowsLogin, Enters, FormDone

LEMMA CheckedSameToken ==
    ASSUME NEW p, SessionFields \subseteq DOMAIN p, NEW asker, NEW ok \in BOOLEAN
    PROVE  SameToken(p, SessionChecked(p, asker, ok))
<1>1. CASE asker # Guard
  <2>1. SameToken(p, Enters(p)) /\ SessionFields \subseteq DOMAIN Enters(p)
    BY FormsSameToken DEF SameToken
  <2>2. SameToken(Enters(p), FormDone(Enters(p), asker))
    BY <2>1, FormsSameToken
  <2> QED
    BY <1>1, <2>1, <2>2 DEF SessionChecked, SameToken
<1>2. CASE asker = Guard /\ ok
  BY <1>2 DEF SessionChecked, SameToken, SessionFields
<1>3. CASE asker = Guard /\ ~ok
  <2>1. SameToken(p, ShowsLogin(p)) /\ SessionFields \subseteq DOMAIN ShowsLogin(p)
    BY FormsSameToken DEF SameToken
  <2> QED
    BY <1>3, <2>1 DEF SessionChecked, SameToken, SessionFields
<1> QED
  BY <1>1, <1>2, <1>3

\* What a check sends next are requests, and none for a token.
LEMMA EnterChecksRequests == \A p : \A q \in EnterChecks(p) : IsRequest(q) /\ q.op # "csrf"
BY RequestFields DEF EnterChecks, Check

\* The requests for a token are not touched.
SameCsrf == CallsSound' /\ InFlight("csrf")' = InFlight("csrf")

LEMMA CsrfKept ==
    ASSUME CallsSound,
           \/ SendsNothing
           \/ \E rs : Sends(rs) /\ \A q \in rs : IsRequest(q) /\ q.op # "csrf"
           \/ \E r, rs : /\ SettledBy(Session, r, rs) /\ r.op # "csrf"
                         /\ \A q \in rs : IsRequest(q) /\ q.op # "csrf"
    PROVE  SameCsrf
<1>1. CASE SendsNothing
  BY <1>1 DEF SendsNothing, SameCsrf, CallsSound, InFlight
<1>2. ASSUME NEW rs, Sends(rs), \A q \in rs : IsRequest(q) /\ q.op # "csrf"
      PROVE  SameCsrf
  BY <1>2, SentSound, SentCalls DEF SameCsrf, CallsSound, InFlight, BagToSet
<1>3. ASSUME NEW r, NEW rs, SettledBy(Session, r, rs), r.op # "csrf",
             \A q \in rs : IsRequest(q) /\ q.op # "csrf"
      PROVE  SameCsrf
  BY <1>3, SettledSound, SettledCalls DEF SameCsrf, CallsSound, InFlight, BagToSet
<1> QED
  BY <1>1, <1>2, <1>3

\* A step that leaves the requests for the token alone must leave what it is about alone,
\* or sign out.
LEMMA TokenKept ==
    ASSUME TokenSound, SameCsrf,
           \/ SameToken(page, page')
           \/ /\ page'.view = Session /\ DOMAIN page' = DOMAIN page
              /\ page'.user \in BOOLEAN /\ page'.unfetched \in BOOLEAN /\ page'.late \in BOOLEAN
              /\ ~page'.user \/ page'.session = 0
              /\ page'.session \in {0, page.session}
              /\ page'.late = page.late \/ InFlight("csrf") = {}
    PROVE  TokenSound'
<1>1. CASE SameToken(page, page')
  BY <1>1 DEF TokenSound, SameToken, SameCsrf, TokensCurrent, TokenOfSession, At
<1>2. CASE ~SameToken(page, page')
  <2>1. TokensCurrent'
    BY <1>2 DEF TokenSound, SameCsrf, TokensCurrent
  <2> QED
    BY <1>2, <2>1 DEF TokenSound, SameCsrf, TokenOfSession
<1> QED
  BY <1>1, <1>2

LEMMA SessionUserSteps ==
    ASSUME TokenSound,
           \/ SessionNavigate \/ SessionLogin \/ SessionReload \/ SessionWrite
           \/ SessionExpires \/ SessionLogout
    PROVE  TokenSound'
<1>f. /\ SessionFields \subseteq DOMAIN page /\ CallsSound /\ page.view = Session
      /\ page.user \in BOOLEAN /\ page.unfetched \in BOOLEAN /\ page.late \in BOOLEAN
  BY DEF TokenSound
<1>1. CASE SessionNavigate
  <2>1. SameToken(page, page') /\ Sends(EnterChecks(page))
    BY <1>1, <1>f, FormsSameToken DEF SessionNavigate
  <2>2. SameCsrf
    BY <1>f, <2>1, EnterChecksRequests, CsrfKept
  <2> QED
    BY <2>1, <2>2, TokenKept
<1>2. CASE SessionLogin
  <2>1. SameToken(page, page') /\ Sends({Request("login", page.form, Waiting)})
    BY <1>2, <1>f DEF SessionLogin, SameToken, SessionFields
  <2>2. SameCsrf
    BY <1>f, <2>1, RequestFields, CsrfKept
  <2> QED
    BY <2>1, <2>2, TokenKept
<1>3. CASE SessionReload
  <2> DEFINE p == ShowsLogin(page)
  <2>1. SameToken(page, p) /\ SessionFields \subseteq DOMAIN p
    BY <1>f, FormsSameToken DEF SameToken
  <2>2. page' = [p EXCEPT !.user = FALSE, !.token = 0, !.loading = FALSE,
                          !.guarded = FALSE, !.unfetched = FALSE, !.late = FALSE]
    BY <1>3 DEF SessionReload
  <2> HIDE DEF p
  <2>3. /\ page'.view = Session /\ DOMAIN page' = DOMAIN page /\ page'.user = FALSE
        /\ page'.unfetched = FALSE /\ page'.late = FALSE /\ page'.session = page.session
    BY <1>f, <2>1, <2>2 DEF SameToken, SessionFields
  <2>4. SameCsrf
    BY <1>3, <1>f, CsrfKept DEF SessionReload
  <2>5. InFlight("csrf") = {}
    BY <1>3 DEF SessionReload, InFlight, BagToSet, EmptyBag, SetToBag
  <2> QED
    BY <2>3, <2>4, <2>5, TokenKept
<1>4. CASE SessionWrite \/ SessionLogout
  <2>1. PICK op \in {"write", "logout"} : page' = page /\ Sends({Request(op, None, page.token)})
    BY <1>4 DEF SessionWrite, SessionLogout
  <2>2. SameCsrf
    BY <1>f, <2>1, RequestFields, CsrfKept
  <2> QED
    BY <2>1, <2>2, TokenKept DEF SameToken
<1>5. CASE SessionExpires
  <2>1. /\ page'.view = Session /\ DOMAIN page' = DOMAIN page /\ page'.session = 0
        /\ page'.user = page.user /\ page'.unfetched = page.unfetched /\ page'.late = page.late
    BY <1>5, <1>f DEF SessionExpires, SessionFields
  <2>2. SameCsrf
    BY <1>5, <1>f, CsrfKept DEF SessionExpires
  <2> QED
    BY <1>f, <2>1, <2>2, TokenKept
<1> QED
  BY <1>1, <1>2, <1>3, <1>4, <1>5

\* A sign-in that succeeds beside a page that is signed in is noted in unfetched; one that
\* finds a token on its way, in late: after any other, no token has been read.
LEMMA SessionLoginSteps ==
    ASSUME TokenSound, NEW granted \in BOOLEAN, NEW lost \in BOOLEAN, NEW json \in BOOLEAN,
           SessionLoginServed(granted) \/ SessionLoginAnswered(lost, json)
    PROVE  TokenSound'
<1>f. /\ SessionFields \subseteq DOMAIN page /\ CallsSound /\ page.view = Session
      /\ page.user \in BOOLEAN /\ page.unfetched \in BOOLEAN /\ page.late \in BOOLEAN
  BY DEF TokenSound
<1>1. CASE SessionLoginServed(granted)
  <2> DEFINE answer == IF granted THEN page.last + 1 ELSE Refused
  <2>1. PICK r \in InFlight("login") :
          /\ SettledBy(Session, r, {[r EXCEPT !.arg = answer]})
          /\ page' = IF granted THEN SessionBegun(page, answer) ELSE page
    BY <1>1 DEF SessionLoginServed
  <2>2. r.op = "login" /\ IsRequest(r)
    BY <1>f DEF InFlight, BagToSet, CallsSound
  <2>3. SameCsrf
    BY <1>f, <2>1, <2>2, ServedRequest, RequestFields, CsrfKept
  <2>4. CASE ~granted
    BY <2>1, <2>3, <2>4, TokenKept DEF SameToken
  <2>5. CASE granted
    <3>1. /\ page'.view = Session /\ DOMAIN page' = DOMAIN page /\ page'.user = page.user
          /\ page'.unfetched = (page.unfetched \/ page.user)
          /\ page'.late = (\E q \in InFlight("csrf") : TokenRead(q))
      BY <1>f, <2>1, <2>5 DEF SessionBegun, SessionFields
    <3>2. TokensCurrent'
      BY <2>3, <3>1 DEF TokensCurrent, SameCsrf, TokenRead
    <3>3. TokenOfSession'
      BY <1>f, <3>1 DEF TokenOfSession
    <3> QED
      BY <1>f, <2>3, <3>1, <3>2, <3>3 DEF TokenSound, SameCsrf
  <2> QED
    BY <2>4, <2>5
<1>2. CASE SessionLoginAnswered(lost, json)
  <2>1. PICK r \in InFlight("login") : \E rs \in {{}, {Check(r.key)}} :
          /\ SettledBy(Session, r, rs)
          /\ page' \in {page, FormDone(page, r.key)}
    BY <1>2 DEF SessionLoginAnswered
  <2>2. r.op = "login"
    BY DEF InFlight
  <2>3. SameCsrf
    BY <1>f, <2>1, <2>2, RequestFields, CsrfKept DEF Check
  <2>4. SameToken(page, page')
    BY <1>f, <2>1, FormsSameToken DEF SameToken
  <2> QED
    BY <2>3, <2>4, TokenKept
<1> QED
  BY <1>1, <1>2

\* A check that succeeds asks for the token; one that fails signs the page out.
LEMMA SessionConfigSteps ==
    ASSUME TokenSound, NEW lost \in BOOLEAN,
           SessionConfigServed \/ SessionConfigAnswered(lost)
    PROVE  TokenSound'
<1>f. /\ SessionFields \subseteq DOMAIN page /\ CallsSound /\ IsABag(calls) /\ page.view = Session
      /\ page.user \in BOOLEAN /\ page.unfetched \in BOOLEAN /\ page.late \in BOOLEAN
  BY DEF TokenSound, CallsSound
<1>1. CASE SessionConfigServed
  <2>1. PICK r \in InFlight("config") :
          SettledBy(Session, r, {[r EXCEPT !.arg = page.session]}) /\ page' = page
    BY <1>1 DEF SessionConfigServed
  <2>2. r.op = "config" /\ IsRequest(r)
    BY <1>f DEF InFlight, BagToSet, CallsSound
  <2>3. SameCsrf
    BY <1>f, <2>1, <2>2, ServedRequest, RequestFields, CsrfKept
  <2> QED
    BY <2>1, <2>3, TokenKept DEF SameToken
<1>2. CASE SessionConfigAnswered(lost)
  <2> DEFINE out == [page EXCEPT !.user = FALSE, !.token = 0]
             ok(r) == r.arg # Refused /\ ~lost
  <2>1. PICK r \in InFlight("config") :
          /\ SettledBy(Session, r,
                IF ok(r) THEN {Request("csrf", r.key, Waiting)}
                ELSE IF r.key = Guard THEN {} ELSE EnterChecks(out))
          /\ page' = IF ok(r) THEN [page EXCEPT !.user = TRUE]
                     ELSE SessionChecked(IF r.arg = Refused THEN ShowsLogin(out) ELSE out, r.key, FALSE)
    BY <1>2 DEF SessionConfigAnswered
  <2>2. r.op = "config"
    BY DEF InFlight
  <2>3. CASE ok(r)
    <3> DEFINE c == Request("csrf", r.key, Waiting)
    <3>1. SettledBy(Session, r, {c}) /\ page' = [page EXCEPT !.user = TRUE]
      BY <2>1, <2>3
    <3>2. IsRequest(c) /\ c.op = "csrf" /\ c.arg = Waiting
      BY RequestFields
    <3> HIDE DEF c
    <3>3. CallsSound' /\ InFlight("csrf")' = InFlight("csrf") \cup {c}
      BY <1>f, <2>2, <3>1, <3>2, SettledSound, SettledCalls DEF InFlight, BagToSet
    <3>4. /\ page'.view = Session /\ DOMAIN page' = DOMAIN page /\ page'.user = TRUE
          /\ page'.unfetched = page.unfetched /\ page'.late = page.late
          /\ page'.session = page.session
      BY <1>f, <3>1 DEF SessionFields
    <3>5. TokensCurrent'
      BY <3>2, <3>3, <3>4 DEF TokenSound, TokensCurrent, TokenRead
    <3> QED
      BY <1>f, <3>3, <3>4, <3>5 DEF TokenSound, TokenOfSession
  <2>4. CASE ~ok(r)
    <3> DEFINE p == IF r.arg = Refused THEN ShowsLogin(out) ELSE out
    <3>1. PICK rs \in {{}, EnterChecks(out)} : SettledBy(Session, r, rs)
      BY <2>1, <2>4
    <3>2. SameCsrf
      BY <1>f, <2>2, <3>1, EnterChecksRequests, CsrfKept
    <3>3. /\ SessionFields \subseteq DOMAIN out /\ DOMAIN out = DOMAIN page /\ out.view = page.view
          /\ out.user = FALSE /\ out.unfetched = page.unfetched /\ out.late = page.late
          /\ out.session = page.session
      BY <1>f DEF SessionFields
    <3> HIDE DEF out
    <3>4. SameToken(out, p)
      BY <3>3, FormsSameToken DEF SameToken
    <3>5. SessionFields \subseteq DOMAIN p
      BY <3>3, <3>4 DEF SameToken
    <3>6. SameToken(p, page')
      <4>1. page' = SessionChecked(p, r.key, FALSE)
        BY <2>1, <2>4
      <4> HIDE DEF p
      <4> QED
        BY <3>5, <4>1, CheckedSameToken
    <3>7. /\ page'.view = Session /\ DOMAIN page' = DOMAIN page /\ page'.session = page.session
          /\ page'.user = FALSE /\ page'.unfetched = page.unfetched /\ page'.late = page.late
      BY <1>f, <3>3, <3>4, <3>6 DEF SameToken
    <3> QED
      BY <1>f, <3>2, <3>7, TokenKept
  <2> QED
    BY <2>3, <2>4
<1> QED
  BY <1>1, <1>2

\* The token that is read is that of the session; the one that arrives still is, or late
\* says that it may not be.
LEMMA SessionTokenSteps ==
    ASSUME TokenSound, NEW lost \in BOOLEAN,
           SessionTokenServed \/ SessionTokenAnswered(lost)
    PROVE  TokenSound'
<1>f. /\ SessionFields \subseteq DOMAIN page /\ CallsSound /\ IsABag(calls) /\ page.view = Session
      /\ page.user \in BOOLEAN /\ page.unfetched \in BOOLEAN /\ page.late \in BOOLEAN
  BY DEF TokenSound, CallsSound
<1>1. CASE SessionTokenServed
  <2>1. PICK r \in InFlight("csrf") :
          SettledBy(Session, r, {[r EXCEPT !.arg = page.session]}) /\ page' = page
    BY <1>1 DEF SessionTokenServed
  <2> DEFINE c == [r EXCEPT !.arg = page.session]
  <2>2. r.op = "csrf" /\ IsRequest(r)
    BY <1>f DEF InFlight, BagToSet, CallsSound
  <2>3. IsRequest(c) /\ c.op = "csrf" /\ c.arg = page.session
    BY <2>2, ServedRequest, RequestFields
  <2>4. SettledBy(Session, r, {c})
    BY <2>1
  <2> HIDE DEF c
  <2>5. /\ CallsSound' /\ c \in InFlight("csrf")'
        /\ InFlight("csrf")' \subseteq InFlight("csrf") \cup {c}
    BY <1>f, <2>3, <2>4, SettledSound, SettledCalls DEF InFlight, BagToSet
  <2>6. TokensCurrent'
    BY <2>1, <2>3, <2>5 DEF TokenSound, TokensCurrent
  <2> QED
    BY <1>f, <2>1, <2>5, <2>6 DEF TokenSound, TokenOfSession
<1>2. CASE SessionTokenAnswered(lost)
  <2> DEFINE none(r) == lost \/ r.arg = Refused
             p(r) == IF none(r) THEN [page EXCEPT !.unfetched = TRUE] ELSE TokenSet(page, r.arg)
             q(r) == IF r.arg = Refused THEN ShowsLogin(p(r)) ELSE p(r)
  <2>1. PICK r \in InFlight("csrf") :
          /\ r.arg # Waiting
          /\ SettledBy(Session, r, IF r.key = Guard THEN {} ELSE EnterChecks(q(r)))
          /\ page' = SessionChecked(q(r), r.key, TRUE)
    BY <1>2 DEF SessionTokenAnswered
  <2>2. /\ SessionFields \subseteq DOMAIN p(r) /\ DOMAIN p(r) = DOMAIN page /\ p(r).view = page.view
        /\ p(r).user = page.user /\ p(r).session = page.session /\ p(r).late = page.late
        /\ p(r).unfetched = none(r) /\ (~none(r) => p(r).token = r.arg)
    BY <1>f DEF SessionFields, TokenSet
  <2>3. PICK rs \in {{}, EnterChecks(q(r))} : SettledBy(Session, r, rs)
    BY <2>1
  <2>4. CallsSound' /\ InFlight("csrf")' \subseteq InFlight("csrf")
    BY <1>f, <2>3, EnterChecksRequests, SettledSound, SettledCalls DEF InFlight, BagToSet
  <2>5. ~page.late /\ page.session # 0 /\ ~none(r) => r.arg = page.session
    BY <2>1 DEF TokenSound, TokensCurrent, TokenRead
  <2> HIDE DEF p
  <2>6. SameToken(p(r), q(r))
    BY <2>2, FormsSameToken DEF SameToken
  <2>7. SessionFields \subseteq DOMAIN q(r)
    BY <2>2, <2>6 DEF SameToken
  <2> HIDE DEF q
  <2>8. SameToken(q(r), page')
    BY <2>1, <2>7, CheckedSameToken
  <2>9. /\ DOMAIN page' = DOMAIN page /\ page'.view = Session /\ page'.user = page.user
        /\ page'.session = page.session /\ page'.late = page.late
        /\ page'.unfetched = none(r) /\ (~none(r) => page'.token = r.arg)
    BY <1>f, <2>2, <2>6, <2>8 DEF SameToken
  <2>10. TokensCurrent'
    BY <2>4, <2>9 DEF TokenSound, TokensCurrent
  <2>11. TokenOfSession'
    BY <2>5, <2>9 DEF TokenOfSession
  <2>12. page'.unfetched \in BOOLEAN
    BY <2>9
  <2> QED
    BY <1>f, <2>4, <2>9, <2>10, <2>11, <2>12 DEF TokenSound
<1> QED
  BY <1>1, <1>2

LEMMA SessionWriteSteps ==
    ASSUME TokenSound, NEW lost \in BOOLEAN,
           SessionWritten \/ SessionLoggedOut(lost)
    PROVE  TokenSound'
<1>f. /\ SessionFields \subseteq DOMAIN page /\ CallsSound /\ page.view = Session
      /\ page.user \in BOOLEAN /\ page.unfetched \in BOOLEAN /\ page.late \in BOOLEAN
  BY DEF TokenSound
<1>1. CASE SessionWritten
  <2>1. PICK r \in InFlight("write") : SettledBy(Session, r, {})
    BY <1>1 DEF SessionWritten
  <2>2. r.op = "write"
    BY DEF InFlight
  <2>3. SameCsrf
    BY <1>f, <2>1, <2>2, CsrfKept
  <2>4. SameToken(page, page')
    BY <1>1, <1>f, FormsSameToken DEF SessionWritten, SameToken
  <2> QED
    BY <2>3, <2>4, TokenKept
<1>2. CASE SessionLoggedOut(lost)
  <2>1. PICK r \in InFlight("logout") :
          /\ SettledBy(Session, r, {})
          /\ page' = [ShowsLogin(page) EXCEPT !.session = IF ~lost /\ r.arg = @ THEN 0 ELSE @,
                                              !.user = FALSE]
    BY <1>2 DEF SessionLoggedOut
  <2>2. r.op = "logout"
    BY DEF InFlight
  <2>3. SameCsrf
    BY <1>f, <2>1, <2>2, CsrfKept
  <2>4. SameToken(page, ShowsLogin(page)) /\ SessionFields \subseteq DOMAIN ShowsLogin(page)
    BY <1>f, FormsSameToken DEF SameToken
  <2>5. /\ page'.view = Session /\ DOMAIN page' = DOMAIN page
        /\ page'.user = FALSE /\ page'.unfetched = page.unfetched /\ page'.late = page.late
        /\ page'.session \in {0, page.session}
    BY <1>f, <2>1, <2>4 DEF SameToken, SessionFields
  <2> QED
    BY <1>f, <2>3, <2>5, TokenKept
<1> QED
  BY <1>1, <1>2

LEMMA SessionInitSound == SessionInit => TokenSound
<1> SUFFICES ASSUME SessionInit PROVE TokenSound
  OBVIOUS
<1>1. CallsSound /\ InFlight("csrf") = {}
  BY DEF SessionInit, CallsSound, EmptyBag, SetToBag, IsABag, InFlight, BagToSet
<1> QED
  BY <1>1 DEF SessionInit, Opens, TokenSound, SessionFields, TokensCurrent, TokenOfSession

\* A page that is signed in and waits for no token sends the token of the session it is
\* in: checkSession() asks for it after it has set the user, and a fetched token replaces
\* the one before.  It holds for any number of checks, sign-ins, expiries and logouts that
\* are under way together; but for a failed fetch, a second sign-in of a signed-in page,
\* and a token that had been read before the last sign-in.
THEOREM TokenMatches == SessionSpec => []TokenOfSession
<1>1. SessionInit => TokenSound
  BY SessionInitSound
<1>2. TokenSound /\ [SessionNext]_vars => TokenSound'
  <2> SUFFICES ASSUME TokenSound, [SessionNext]_vars PROVE TokenSound'
    OBVIOUS
  <2>1. CASE UNCHANGED vars
    BY <2>1 DEF vars, TokenSound, CallsSound, InFlight, TokensCurrent, TokenOfSession, At
  <2>2. CASE SessionNext
    BY <2>2, SessionUserSteps, SessionLoginSteps, SessionConfigSteps, SessionTokenSteps,
       SessionWriteSteps DEF SessionNext, SessionAnswers
  <2> QED
    BY <2>1, <2>2
<1>3. TokenSound => TokenOfSession
  BY DEF TokenSound
<1> QED
  BY <1>1, <1>2, <1>3, PTL DEF SessionSpec

-----------------------------------------------------------------------------
(* Users.vue and handleUserByID: the last administrator                     *)

UsersSpec == UsersInit /\ [][UsersNext]_vars

UsersFields == {"view", "admins", "overlapped", "unread"}

\* The deletions that were counted and found allowed, and are still to be carried out.
Allowed == {r \in DOMAIN calls : r.op = "deleteUser" /\ r.arg = "allowed"}

\* Unless two overlapped or the list could not be read, there is one such deletion at most,
\* and it leaves somebody.
AdminSound ==
    /\ CallsSound
    /\ page.view = Users /\ UsersFields \subseteq DOMAIN page
    /\ page.overlapped \in BOOLEAN /\ page.unread \in BOOLEAN
    /\ \/ page.overlapped \/ page.unread
       \/ /\ page.admins # {}
          /\ \A r \in Allowed : /\ calls[r] = 1 /\ page.admins \ {r.key} # {}
                              /\ \A q \in Allowed : q = r

\* The count that handleUserByID makes: whom it lets go is not the last one.
LEMMA CountLeavesOne ==
    ASSUME NEW admins, NEW u, admins # {}, ~LastAdmin(admins, u)
    PROVE  admins \ {u} # {}
<1> SUFFICES ASSUME admins \ {u} = {} PROVE FALSE
  OBVIOUS
<1>1. admins = {u}
  OBVIOUS
<1>2. Cardinality(admins) = 1
  BY <1>1, FS_Singleton
<1> QED
  BY <1>1, <1>2 DEF LastAdmin

\* Steps that neither count nor carry out a deletion.
LEMMA AdminKept ==
    ASSUME AdminSound, CallsSound',
           Allowed' \subseteq Allowed, \A r \in Allowed' : calls'[r] = calls[r],
           DOMAIN page' = DOMAIN page, page'.view = page.view,
           page'.admins = page.admins, page'.overlapped = page.overlapped, page'.unread = page.unread
    PROVE  AdminSound'
BY DEF AdminSound

LEMMA AdminSent ==
    ASSUME AdminSound, NEW rs, Sends(rs),
           \A q \in rs : IsRequest(q) /\ ~(q.op = "deleteUser" /\ q.arg = "allowed")
    PROVE  /\ CallsSound' /\ Allowed' \subseteq Allowed
           /\ \A r \in Allowed' : calls'[r] = calls[r]
<1>1. CallsSound /\ IsABag(calls)
  BY DEF AdminSound, CallsSound
<1>2. CallsSound'
  BY <1>1, SentSound
<1> QED
  BY <1>1, <1>2, SentCalls DEF Allowed

LEMMA AdminSettled ==
    ASSUME AdminSound, NEW r, NEW rs, SettledBy(Users, r, rs),
           ~(r.op = "deleteUser" /\ r.arg = "allowed"),
           \A q \in rs : IsRequest(q) /\ ~(q.op = "deleteUser" /\ q.arg = "allowed")
    PROVE  /\ CallsSound' /\ Allowed' \subseteq Allowed
           /\ \A q \in Allowed' : calls'[q] = calls[q]
<1>1. CallsSound /\ IsABag(calls)
  BY DEF AdminSound, CallsSound
<1>2. CallsSound'
  BY <1>1, SettledSound
<1> QED
  BY <1>1, <1>2, SettledCalls DEF Allowed

LEMMA UsersInitSound ==
    ASSUME Keys # {}, UsersInit
    PROVE  AdminSound
<1>1. CallsSound /\ Allowed = {}
  BY RequestFields DEF UsersInit, CallsSound, SetToBag, IsABag, Allowed
<1> QED
  BY <1>1 DEF UsersInit, Opens, AdminSound, UsersFields

LEMMA UsersUserSteps ==
    ASSUME AdminSound,
           \/ \E u \in Keys : UsersAskDelete(u) \/ UsersOpenReset(u) \/ UsersClearMFA(u)
           \/ \E b \in BOOLEAN : UsersDialog(b) \/ UsersDelete(b)
           \/ UsersSave \/ UsersCloseReset \/ UsersReset
    PROVE  AdminSound'
<1>f. UsersFields \subseteq DOMAIN page /\ CallsSound
  BY DEF AdminSound
<1>1. /\ DOMAIN page' = DOMAIN page /\ page'.view = page.view
      /\ page'.admins = page.admins /\ page'.overlapped = page.overlapped
      /\ page'.unread = page.unread
  BY <1>f DEF UsersFields, UsersAskDelete, UsersOpenReset, UsersClearMFA, UsersDialog, UsersDelete,
              UsersSave, UsersCloseReset, UsersReset
<1>2. CASE SendsNothing
  <2>1. calls' = calls
    BY <1>2 DEF SendsNothing
  <2> QED
    BY <1>f, <1>1, <2>1, AdminKept DEF CallsSound, Allowed
<1>3. CASE \E rs : /\ Sends(rs)
                   /\ \A q \in rs : IsRequest(q) /\ ~(q.op = "deleteUser" /\ q.arg = "allowed")
  BY <1>1, <1>3, AdminSent, AdminKept
<1>4. CASE \E u \in Keys : UsersAskDelete(u) \/ UsersOpenReset(u)
  BY <1>2, <1>4 DEF UsersAskDelete, UsersOpenReset
<1>5. ASSUME NEW u \in Keys, UsersClearMFA(u)
      PROVE  AdminSound'
  <2>1. Sends({Request("clearMFA", u, None)})
    BY <1>5 DEF UsersClearMFA
  <2> QED
    BY <1>3, <2>1, RequestFields
<1>6. ASSUME NEW b \in BOOLEAN, UsersDialog(b)
      PROVE  AdminSound'
  BY <1>2, <1>6 DEF UsersDialog
<1>7. ASSUME NEW b \in BOOLEAN, UsersDelete(b)
      PROVE  AdminSound'
  <2> DEFINE rs == IF b THEN {Request("deleteUser", page.box, "sent")} ELSE {}
  <2>1. Sends(rs)
    BY <1>7 DEF UsersDelete
  <2>2. \A q \in rs : IsRequest(q) /\ ~(q.op = "deleteUser" /\ q.arg = "allowed")
    BY RequestFields
  <2> QED
    BY <1>3, <2>1, <2>2
<1>8. CASE UsersSave
  BY <1>3, <1>8, RequestFields DEF UsersSave
<1>9. CASE UsersCloseReset
  BY <1>2, <1>9 DEF UsersCloseReset
<1>10. CASE UsersReset
  BY <1>3, <1>10, RequestFields DEF UsersReset
<1> QED
  BY <1>4, <1>5, <1>6, <1>7, <1>8, <1>9, <1>10

LEMMA UsersAnswerSteps ==
    ASSUME AdminSound,
           \/ \E ok \in BOOLEAN : UsersLoaded(ok) \/ UsersSaved(ok) \/ UsersResetDone(ok)
           \/ \E ok \in BOOLEAN : UsersDeleteAnswered(ok)
           \/ UsersRead \/ UsersMFACleared
    PROVE  AdminSound'
<1>f. UsersFields \subseteq DOMAIN page /\ CallsSound
  BY DEF AdminSound
<1>1. /\ DOMAIN page' = DOMAIN page /\ page'.view = page.view
      /\ page'.admins = page.admins /\ page'.overlapped = page.overlapped
      /\ page'.unread = page.unread
  BY <1>f DEF UsersFields, UsersLoaded, UsersSaved, UsersResetDone,
              UsersDeleteAnswered, UsersRead, UsersMFACleared
<1> DEFINE again == Request("users", None, None)
<1>2. ASSUME NEW r, ~(r.op = "deleteUser" /\ r.arg = "allowed"),
             NEW rs, rs \in {{}, {again}}, SettledBy(Users, r, rs)
      PROVE  AdminSound'
  <2>1. IsRequest(again) /\ again.op = "users"
    BY RequestFields
  <2> HIDE DEF again
  <2> QED
    BY <1>1, <1>2, <2>1, AdminSettled, AdminKept
<1>3. ASSUME NEW ok \in BOOLEAN, UsersLoaded(ok) \/ UsersResetDone(ok)
      PROVE  AdminSound'
  <2>1. PICK r \in InFlight("usersRead") \cup InFlight("resetPassword") : SettledBy(Users, r, {})
    BY <1>3 DEF UsersLoaded, UsersResetDone
  <2>2. r.op \in {"usersRead", "resetPassword"}
    BY DEF InFlight
  <2> QED
    BY <1>2, <2>1, <2>2
<1>4. ASSUME NEW ok \in BOOLEAN, UsersSaved(ok)
      PROVE  AdminSound'
  <2>1. PICK r \in InFlight("createUser") : SettledBy(Users, r, IF ok THEN {again} ELSE {})
    BY <1>4 DEF UsersSaved
  <2>2. r.op = "createUser"
    BY DEF InFlight
  <2> QED
    BY <1>2, <2>1, <2>2
<1>5. CASE UsersMFACleared
  <2>1. PICK r \in InFlight("clearMFA") : SettledBy(Users, r, {})
    BY <1>5 DEF UsersMFACleared
  <2>2. r.op = "clearMFA"
    BY DEF InFlight
  <2> QED
    BY <1>2, <2>1, <2>2
<1>6. ASSUME NEW ok \in BOOLEAN, UsersDeleteAnswered(ok)
      PROVE  AdminSound'
  <2>1. PICK r \in InFlight("deleteUser") :
          /\ r.arg \in IF ok THEN {"deleted"} ELSE {"deleted", "refused"}
          /\ SettledBy(Users, r, IF ok THEN {again} ELSE {})
    BY <1>6 DEF UsersDeleteAnswered
  <2>2. r.arg # "allowed"
    BY <2>1
  <2> QED
    BY <1>2, <2>1, <2>2
<1>7. CASE UsersRead
  <2> DEFINE c == Request("usersRead", page.admins, None)
  <2>1. PICK r \in InFlight("users") : SettledBy(Users, r, {c})
    BY <1>7 DEF UsersRead
  <2>2. r.op = "users"
    BY DEF InFlight
  <2>3. IsRequest(c) /\ c.op = "usersRead"
    BY RequestFields
  <2> HIDE DEF c
  <2> QED
    BY <1>1, <2>1, <2>2, <2>3, AdminSettled, AdminKept
<1> QED
  BY <1>3, <1>4, <1>5, <1>6, <1>7

\* The count: what it allows leaves an administrator, and if nothing else was allowed
\* before, it is the only deletion that is.
LEMMA UsersCountedStep ==
    ASSUME AdminSound, NEW listed \in BOOLEAN, UsersCounted(listed)
    PROVE  AdminSound'
<1>f. UsersFields \subseteq DOMAIN page /\ CallsSound /\ IsABag(calls)
  BY DEF AdminSound, CallsSound
<1> DEFINE answer(r) == IF listed /\ LastAdmin(page.admins, r.key) THEN "refused" ELSE "allowed"
           before == \E o \in InFlight("deleteUser") : o.arg = "allowed"
<1>1. PICK r \in InFlight("deleteUser") :
        /\ r.arg = "sent"
        /\ SettledBy(Users, r, {[r EXCEPT !.arg = answer(r)]})
        /\ page' = [page EXCEPT !.overlapped = @ \/ before, !.unread = @ \/ ~listed]
  BY DEF UsersCounted
<1> DEFINE c == Request("deleteUser", r.key, answer(r))
<1>2. r.op = "deleteUser" /\ IsRequest(r) /\ [r EXCEPT !.arg = answer(r)] = c
  BY <1>f, ServedRequest DEF InFlight, BagToSet, CallsSound
<1>3. SettledBy(Users, r, {c})
  BY <1>1, <1>2
<1>4. IsRequest(c) /\ c.op = "deleteUser" /\ c.key = r.key /\ c.arg = answer(r)
  BY RequestFields
<1>5. before <=> Allowed # {}
  BY DEF Allowed, InFlight, BagToSet
<1>6. /\ DOMAIN page' = DOMAIN page /\ page'.view = page.view /\ page'.admins = page.admins
      /\ page'.overlapped = (page.overlapped \/ before)
      /\ page'.unread = (page.unread \/ ~listed)
  BY <1>f, <1>1 DEF UsersFields
<1> HIDE DEF c, before
<1>7. CallsSound'
  BY <1>f, <1>3, <1>4, SettledSound
<1>8. page'.overlapped \in BOOLEAN /\ page'.unread \in BOOLEAN
  BY <1>6 DEF AdminSound, before
<1>9. CASE page.overlapped \/ before \/ page.unread \/ ~listed
  BY <1>6, <1>7, <1>8, <1>9 DEF AdminSound
<1>10. CASE ~page.overlapped /\ ~before /\ ~page.unread /\ listed
  <2>1. Allowed = {} /\ page.admins # {}
    BY <1>5, <1>10 DEF AdminSound
  <2>2. Allowed' \subseteq {c}
    BY <1>f, <1>3, <2>1, SettledCalls DEF Allowed
  <2>3. c \in Allowed' => c \notin DOMAIN calls
    BY <1>4, <2>1 DEF Allowed
  <2>4. c \in Allowed' => calls'[c] = 1
    BY <1>f, <1>3, <2>3, SettledCalls
  <2>5. c \in Allowed' => page.admins \ {c.key} # {}
    <3>1. c \in Allowed' => ~LastAdmin(page.admins, r.key)
      BY <1>4, <1>10 DEF Allowed
    <3> QED
      BY <1>4, <2>1, <3>1, CountLeavesOne
  <2> QED
    BY <1>6, <1>7, <1>8, <2>1, <2>2, <2>4, <2>5 DEF AdminSound
<1> QED
  BY <1>9, <1>10

\* The DELETE of the one deletion that was allowed.
LEMMA UsersDeletedStep ==
    ASSUME AdminSound, NEW done \in BOOLEAN, UsersDeleted(done)
    PROVE  AdminSound'
<1>f. UsersFields \subseteq DOMAIN page /\ CallsSound /\ IsABag(calls)
  BY DEF AdminSound, CallsSound
<1> DEFINE end == IF done THEN "deleted" ELSE "refused"
<1>1. PICK r \in InFlight("deleteUser") :
        /\ r.arg = "allowed"
        /\ SettledBy(Users, r, {[r EXCEPT !.arg = end]})
        /\ page' = IF done THEN [page EXCEPT !.admins = @ \ {r.key}] ELSE page
  BY DEF UsersDeleted
<1>0. PICK c : c = Request("deleteUser", r.key, end)
  OBVIOUS
<1>2. r \in Allowed /\ [r EXCEPT !.arg = end] = c
  BY <1>0, <1>1, <1>f, ServedRequest DEF Allowed, InFlight, BagToSet, CallsSound
<1>3. IsRequest(c) /\ c.arg # "allowed" /\ SettledBy(Users, r, {c})
  BY <1>0, <1>1, <1>2, RequestFields
<1>4. /\ DOMAIN page' = DOMAIN page /\ page'.view = page.view
      /\ page'.admins = (IF done THEN page.admins \ {r.key} ELSE page.admins)
      /\ page'.overlapped = page.overlapped /\ page'.unread = page.unread
  BY <1>f, <1>1 DEF UsersFields
<1>5. CallsSound'
  BY <1>f, <1>3, SettledSound
<1>6. CASE page.overlapped \/ page.unread
  BY <1>4, <1>5, <1>6 DEF AdminSound
<1>7. CASE ~page.overlapped /\ ~page.unread
  <2>1. calls[r] = 1 /\ page.admins # {} /\ page.admins \ {r.key} # {} /\ \A q \in Allowed : q = r
    BY <1>2, <1>7 DEF AdminSound
  <2>2. Allowed' = {}
    BY <1>f, <1>3, <2>1, SettledCalls DEF Allowed
  <2> QED
    BY <1>4, <1>5, <1>7, <2>1, <2>2 DEF AdminSound
<1> QED
  BY <1>6, <1>7

\* handleUserByID keeps an administrator, for any number of users, pages with outdated
\* lists, repeated and failed requests, as long as the administrators can be listed and no
\* deletion is counted between the count and the DELETE of another.
THEOREM AdministratorRemains ==
    ASSUME Keys # {}
    PROVE  UsersSpec => []AdminRemains
<1>1. UsersInit => AdminSound
  BY UsersInitSound
<1>2. AdminSound /\ [UsersNext]_vars => AdminSound'
  <2>1. AdminSound /\ UNCHANGED vars => AdminSound'
    BY DEF vars, AdminSound, CallsSound, Allowed
  <2> QED
    BY <2>1, UsersUserSteps, UsersAnswerSteps, UsersCountedStep, UsersDeletedStep
       DEF UsersNext, UsersAnswers
<1>3. AdminSound => AdminRemains
  BY DEF AdminSound, AdminRemains
<1> QED
  BY <1>1, <1>2, <1>3, PTL DEF UsersSpec

-----------------------------------------------------------------------------
(* Cloudflare.vue: the save of the automatic sync                           *)

AutoSyncSpec == AutoSyncInit /\ [][AutoSyncNext]_vars

AutoSyncPage == {"view", "sync", "server", "savingSync", "sent", "edited", "landed", "told"}

\* The requests of a save, on their way to the server or back from it: one at a time.
SaveOps == {"syncField", "syncStored"}
Saves == {r \in DOMAIN calls : r.op \in SaveOps}

\* r is the only request of its save; the server has what was sent before it, and what r
\* itself carries once it is on its way back.
InOrder(r) ==
    /\ calls[r] = 1 /\ \A q \in Saves : q = r
    /\ r.arg \in SyncFields
    /\ ~page.edited => page.sync = page.sent /\ r.key = page.sent[r.arg]
    /\ ~page.edited /\ ~page.landed =>
          /\ \A f \in SyncFields : f < r.arg => page.server[f] = page.sent[f]
          /\ r.op = "syncStored" => page.server[r.arg] = page.sent[r.arg]

SyncSound ==
    /\ CallsSound
    /\ page.view = AutoSync /\ AutoSyncPage \subseteq DOMAIN page
    /\ page.savingSync \in BOOLEAN /\ page.edited \in BOOLEAN
    /\ page.landed \in BOOLEAN /\ page.told \in BOOLEAN
    /\ page.sync = [f \in SyncFields |-> page.sync[f]]
    /\ page.server = [f \in SyncFields |-> page.server[f]]
    /\ page.sent = [f \in SyncFields |-> page.sent[f]]
    /\ page.told => ~page.savingSync
    /\ ~page.savingSync => Saves = {}
    /\ \A r \in Saves : InOrder(r)
    /\ page.told /\ ~page.edited /\ ~page.landed => page.server = page.sent

LEMMA AutoSyncInitSound == AutoSyncInit => SyncSound
<1> SUFFICES ASSUME AutoSyncInit PROVE SyncSound
  OBVIOUS
<1>1. CallsSound /\ Saves = {}
  BY RequestFields DEF AutoSyncInit, LoadsAutoSync, CallsSound, SetToBag, IsABag, Saves, SaveOps
<1> QED
  BY <1>1 DEF AutoSyncInit, Opens, SyncSound, AutoSyncPage

\* The requests of the save are not touched.
SameSaves == CallsSound' /\ Saves' = Saves /\ \A r \in Saves : calls'[r] = calls[r]

LEMMA SavesKept ==
    ASSUME CallsSound,
           \/ SendsNothing
           \/ \E rs : Sends(rs) /\ \A q \in rs : IsRequest(q) /\ q.op \notin SaveOps
           \/ \E r, rs : /\ SettledBy(AutoSync, r, rs) /\ r.op \notin SaveOps
                         /\ \A q \in rs : IsRequest(q) /\ q.op \notin SaveOps
    PROVE  SameSaves
<1>1. CASE SendsNothing
  BY <1>1 DEF SendsNothing, SameSaves, CallsSound, Saves
<1>2. ASSUME NEW rs, Sends(rs), \A q \in rs : IsRequest(q) /\ q.op \notin SaveOps
      PROVE  SameSaves
  BY <1>2, SentSound, SentCalls DEF SameSaves, CallsSound, Saves
<1>3. ASSUME NEW r, NEW rs, SettledBy(AutoSync, r, rs), r.op \notin SaveOps,
             \A q \in rs : IsRequest(q) /\ q.op \notin SaveOps
      PROVE  SameSaves
  BY <1>3, SettledSound, SettledCalls DEF SameSaves, CallsSound, Saves
<1> QED
  BY <1>1, <1>2, <1>3

\* Steps that leave the form, the server and the save alone.
LEMMA SyncKept ==
    ASSUME SyncSound, SameSaves, DOMAIN page' = DOMAIN page,
           \A f \in AutoSyncPage : page'[f] = page[f]
    PROVE  SyncSound'
<1>1. /\ page'.view = page.view /\ page'.sync = page.sync /\ page'.server = page.server
      /\ page'.savingSync = page.savingSync /\ page'.sent = page.sent
      /\ page'.edited = page.edited /\ page'.landed = page.landed /\ page'.told = page.told
  BY DEF AutoSyncPage
<1>2. \A r \in Saves' : InOrder(r)'
  BY <1>1 DEF SyncSound, SameSaves, InOrder
<1> QED
  BY <1>1, <1>2 DEF SyncSound, SameSaves

\* Steps that replace the form: a save that is under way is noted as edited.
LEMMA SyncReplaced ==
    ASSUME SyncSound, SameSaves, DOMAIN page' = DOMAIN page, page'.view = page.view,
           page'.sync = [f \in SyncFields |-> page'.sync[f]], page'.server = page.server,
           page'.savingSync = page.savingSync, page'.sent = page.sent,
           page'.edited = (page.edited \/ page.savingSync),
           page'.landed = page.landed, page'.told = page.told
    PROVE  SyncSound'
<1>1. /\ page.savingSync \in BOOLEAN /\ page.edited \in BOOLEAN
      /\ (~page.savingSync => Saves = {}) /\ AutoSyncPage \subseteq DOMAIN page
      /\ page.view = AutoSync
  BY DEF SyncSound
<1>2. \A r \in Saves' : InOrder(r)'
  <2> SUFFICES ASSUME NEW r \in Saves' PROVE InOrder(r)'
    OBVIOUS
  <2>1. r \in Saves /\ InOrder(r) /\ calls'[r] = calls[r]
    BY DEF SyncSound, SameSaves
  <2>2. page'.edited
    BY <1>1, <2>1
  <2> QED
    BY <2>1, <2>2 DEF InOrder, SameSaves
<1> QED
  BY <1>1, <1>2 DEF SyncSound, SameSaves

LEMMA AutoSyncFrame ==
    ASSUME SyncSound,
           \/ ToggleAutoSync \/ TriggerAutoSync \/ AutoSyncReloadTimer
           \/ \E ok \in BOOLEAN : AutoSyncToggled(ok) \/ AutoSyncTriggered(ok)
    PROVE  SyncSound'
<1>f. AutoSyncPage \subseteq DOMAIN page /\ CallsSound
  BY DEF SyncSound
<1>0. IsRequest(LoadsAutoSync) /\ LoadsAutoSync.op = "autoSync"
  BY RequestFields DEF LoadsAutoSync
<1>1. CASE ToggleAutoSync \/ TriggerAutoSync \/ AutoSyncReloadTimer
  <2>1. PICK q : IsRequest(q) /\ q.op \notin SaveOps /\ Sends({q})
    <3>1. \/ Sends({LoadsAutoSync})
          \/ \E op \in {"toggle", "trigger"} : Sends({Request(op, None, None)})
      BY <1>1 DEF ToggleAutoSync, TriggerAutoSync, AutoSyncReloadTimer
    <3> QED
      BY <1>0, <3>1, RequestFields DEF SaveOps
  <2>2. SameSaves
    BY <1>f, <2>1, SavesKept
  <2>3. DOMAIN page' = DOMAIN page /\ \A f \in AutoSyncPage : page'[f] = page[f]
    BY <1>1, <1>f DEF ToggleAutoSync, TriggerAutoSync, AutoSyncReloadTimer, AutoSyncPage
  <2> QED
    BY <2>2, <2>3, SyncKept
<1>2. ASSUME NEW ok \in BOOLEAN, AutoSyncToggled(ok)
      PROVE  SyncSound'
  <2>1. PICK r \in InFlight("toggle") : SettledBy(AutoSync, r, IF ok THEN {} ELSE {LoadsAutoSync})
    BY <1>2 DEF AutoSyncToggled
  <2>2. r.op = "toggle"
    BY DEF InFlight
  <2>3. SameSaves
    BY <1>f, <1>0, <2>1, <2>2, SavesKept DEF SaveOps
  <2> QED
    BY <1>2, <2>3, SyncKept DEF AutoSyncToggled
<1>3. ASSUME NEW ok \in BOOLEAN, AutoSyncTriggered(ok)
      PROVE  SyncSound'
  <2>1. PICK r \in InFlight("trigger") : SettledBy(AutoSync, r, {})
    BY <1>3 DEF AutoSyncTriggered
  <2>2. r.op = "trigger"
    BY DEF InFlight
  <2>3. SameSaves
    BY <1>f, <2>1, <2>2, SavesKept DEF SaveOps
  <2>4. DOMAIN page' = DOMAIN page /\ \A f \in AutoSyncPage : page'[f] = page[f]
    BY <1>3, <1>f DEF AutoSyncTriggered, AutoSyncPage
  <2> QED
    BY <2>3, <2>4, SyncKept
<1> QED
  BY <1>1, <1>2, <1>3

LEMMA AutoSyncForm ==
    ASSUME SyncSound,
           \/ \E k \in Keys : EnterSync(k)
           \/ \E ok \in BOOLEAN : LoadAutoSync(ok)
    PROVE  SyncSound'
<1>f. AutoSyncPage \subseteq DOMAIN page /\ CallsSound
  BY DEF SyncSound
<1>1. ASSUME NEW k \in Keys, EnterSync(k)
      PROVE  SyncSound'
  <2>1. SameSaves
    BY <1>1, <1>f, SavesKept DEF EnterSync
  <2>2. /\ DOMAIN page' = DOMAIN page /\ page'.view = page.view
        /\ page'.sync = [f \in SyncFields |-> k] /\ page'.server = page.server
        /\ page'.savingSync = page.savingSync /\ page'.sent = page.sent
        /\ page'.edited = (page.edited \/ page.savingSync)
        /\ page'.landed = page.landed /\ page'.told = page.told
    BY <1>1, <1>f DEF EnterSync, AutoSyncPage
  <2>3. page'.sync = [f \in SyncFields |-> page'.sync[f]]
    BY <2>2
  <2> QED
    BY <2>1, <2>2, <2>3, SyncReplaced
<1>2. ASSUME NEW ok \in BOOLEAN, LoadAutoSync(ok)
      PROVE  SyncSound'
  <2>1. PICK r \in InFlight("autoSync"), on \in BOOLEAN :
          /\ SettledBy(AutoSync, r, {})
          /\ page' = IF ok THEN [page EXCEPT !.sync = FormRead(r.key), !.enabled = on,
                                             !.edited = @ \/ page.savingSync]
                     ELSE page
    BY <1>2 DEF LoadAutoSync
  <2>2. r.op = "autoSync"
    BY DEF InFlight
  <2>3. SameSaves
    BY <1>f, <2>1, <2>2, SavesKept DEF SaveOps
  <2>4. CASE ~ok
    BY <2>1, <2>3, <2>4, SyncKept
  <2>5. CASE ok
    <3>1. /\ DOMAIN page' = DOMAIN page /\ page'.view = page.view
          /\ page'.sync = FormRead(r.key) /\ page'.server = page.server
          /\ page'.savingSync = page.savingSync /\ page'.sent = page.sent
          /\ page'.edited = (page.edited \/ page.savingSync)
          /\ page'.landed = page.landed /\ page'.told = page.told
      BY <1>f, <2>1, <2>5 DEF AutoSyncPage
    <3>2. FormRead(r.key) = [f \in SyncFields |-> FormRead(r.key)[f]]
      BY DEF FormRead
    <3> QED
      BY <2>3, <3>1, <3>2, SyncReplaced
  <2> QED
    BY <2>4, <2>5
<1> QED
  BY <1>1, <1>2

\* The status is read statement by statement, without the page.
LEMMA AutoSyncReads ==
    ASSUME NEW ok \in BOOLEAN, SyncSound, AutoSyncRead(ok)
    PROVE  SyncSound'
<1>f. CallsSound
  BY DEF SyncSound
<1>1. PICK r \in InFlight("autoSync") :
        SettledBy(AutoSync, r,
          {[r EXCEPT !.key = Append(@, IF ok THEN page.server[StatusReads[Len(@) + 1]] ELSE None)]})
  BY DEF AutoSyncRead
<1>2. r.op = "autoSync" /\ IsRequest(r)
  BY <1>f DEF InFlight, BagToSet, CallsSound
<1>3. PICK read :
        read = Append(r.key, IF ok THEN page.server[StatusReads[Len(r.key) + 1]] ELSE None)
  OBVIOUS
<1>4. [r EXCEPT !.key = Append(@, IF ok THEN page.server[StatusReads[Len(@) + 1]] ELSE None)]
        = Request(r.op, read, r.arg)
  BY <1>2, <1>3 DEF IsRequest, Request
<1>5. SameSaves
  BY <1>f, <1>1, <1>2, <1>4, RequestFields, SavesKept DEF SaveOps
<1> QED
  BY <1>5, SyncKept DEF AutoSyncRead

LEMMA AutoSyncStarts ==
    ASSUME SyncSound, SaveAutoSync
    PROVE  SyncSound'
<1>f. AutoSyncPage \subseteq DOMAIN page /\ CallsSound /\ IsABag(calls)
  BY DEF SyncSound, CallsSound
<1>0. PICK c : c = SyncField(page, 1)
  OBVIOUS
<1>1. ~page.savingSync /\ Saves = {} /\ Sends({c})
  BY <1>0 DEF SaveAutoSync, SyncSound
<1>2. IsRequest(c) /\ c.op = "syncField" /\ c.key = page.sync[1] /\ c.arg = 1
  BY <1>0, RequestFields DEF SyncField
<1>3. CallsSound' /\ Saves' = {c} /\ calls'[c] = 1
  BY <1>f, <1>1, <1>2, SentSound, SentCalls DEF Saves, SaveOps
<1>4. /\ DOMAIN page' = DOMAIN page /\ page'.view = page.view /\ page'.sync = page.sync
      /\ page'.server = page.server /\ page'.savingSync = TRUE /\ page'.sent = page.sync
      /\ page'.edited = FALSE /\ page'.landed = FALSE /\ page'.told = FALSE
  BY <1>f DEF SaveAutoSync, AutoSyncPage
<1>5. InOrder(c)'
  BY <1>2, <1>3, <1>4 DEF InOrder, SyncFields
<1> QED
  BY <1>3, <1>4, <1>5 DEF SyncSound

\* The server stores the field: it has everything up to it.
LEMMA AutoSyncFieldStored ==
    ASSUME SyncSound, SyncFieldStored
    PROVE  SyncSound'
<1>f. /\ AutoSyncPage \subseteq DOMAIN page /\ CallsSound /\ IsABag(calls)
      /\ page.server = [f \in SyncFields |-> page.server[f]]
  BY DEF SyncSound, CallsSound
<1>1. PICK r \in InFlight("syncField") :
        /\ SettledBy(AutoSync, r, {[r EXCEPT !.op = "syncStored"]})
        /\ page' = [page EXCEPT !.server[r.arg] = r.key]
  BY DEF SyncFieldStored
<1>0. PICK c : c = Request("syncStored", r.key, r.arg)
  OBVIOUS
<1>2. r \in Saves /\ InOrder(r) /\ r.op = "syncField" /\ IsRequest(r)
  BY <1>f DEF InFlight, BagToSet, Saves, SaveOps, SyncSound, CallsSound
<1>3. r.arg \in SyncFields /\ calls[r] = 1 /\ Saves = {r} /\ page.savingSync /\ ~page.told
  BY <1>2 DEF InOrder, SyncSound
<1>4. [r EXCEPT !.op = "syncStored"] = c
  BY <1>0, <1>2 DEF IsRequest, Request
<1>5. IsRequest(c) /\ c.op = "syncStored" /\ c.key = r.key /\ c.arg = r.arg
  BY <1>0, RequestFields
<1>6. SettledBy(AutoSync, r, {c}) /\ c # r /\ c \notin DOMAIN calls
  BY <1>1, <1>2, <1>3, <1>4, <1>5 DEF Saves, SaveOps
<1>7. CallsSound' /\ Saves' = {c} /\ calls'[c] = 1
  BY <1>f, <1>3, <1>5, <1>6, SettledSound, SettledCalls DEF Saves, SaveOps
<1>8. /\ DOMAIN page' = DOMAIN page /\ page'.view = page.view /\ page'.sync = page.sync
      /\ page'.server = [page.server EXCEPT ![r.arg] = r.key]
      /\ page'.savingSync = page.savingSync /\ page'.sent = page.sent
      /\ page'.edited = page.edited /\ page'.landed = page.landed /\ page'.told = page.told
  BY <1>f, <1>1 DEF AutoSyncPage
<1>9. /\ page'.server = [f \in SyncFields |-> page'.server[f]]
      /\ page'.server[r.arg] = r.key
      /\ \A f \in SyncFields : f # r.arg => page'.server[f] = page.server[f]
  BY <1>f, <1>3, <1>8
<1>10. InOrder(c)'
  <2>1. ~page.edited /\ ~page.landed =>
          \A f \in SyncFields : f < r.arg => page'.server[f] = page.sent[f]
    BY <1>2, <1>3, <1>9 DEF InOrder, SyncFields
  <2> QED
    BY <1>2, <1>5, <1>7, <1>8, <1>9, <2>1 DEF InOrder
<1> QED
  BY <1>3, <1>7, <1>8, <1>9, <1>10 DEF SyncSound

\* The answer for one field: the next one is sent, or the save is done.
LEMMA AutoSyncFieldSaved ==
    ASSUME SyncSound, SyncFieldSaved
    PROVE  SyncSound'
<1>f. /\ AutoSyncPage \subseteq DOMAIN page /\ CallsSound /\ IsABag(calls)
      /\ page.server = [f \in SyncFields |-> page.server[f]]
      /\ page.sent = [f \in SyncFields |-> page.sent[f]]
  BY DEF SyncSound, CallsSound
<1> DEFINE p(r) == SyncSaved(page, r.arg, TRUE)
<1>1. PICK r \in InFlight("syncStored") :
        /\ SettledBy(AutoSync, r, IF p(r).savingSync THEN {SyncField(page, r.arg + 1)} ELSE {})
        /\ page' = p(r)
  BY DEF SyncFieldSaved
<1>0. PICK c : c = SyncField(page, r.arg + 1)
  OBVIOUS
<1>2. r \in Saves /\ InOrder(r) /\ r.op = "syncStored"
  BY DEF InFlight, BagToSet, Saves, SaveOps, SyncSound
<1>3. r.arg \in SyncFields /\ calls[r] = 1 /\ Saves = {r}
  BY <1>2 DEF InOrder
<1>4. /\ DOMAIN p(r) = DOMAIN page /\ p(r).view = page.view /\ p(r).sync = page.sync
      /\ p(r).server = page.server /\ p(r).sent = page.sent
      /\ p(r).savingSync = (r.arg # 3) /\ p(r).told = (r.arg = 3)
      /\ p(r).edited = page.edited /\ p(r).landed = page.landed
  BY <1>f DEF SyncSaved, AutoSyncPage
<1>5. page' = p(r) /\ SettledBy(AutoSync, r, IF r.arg # 3 THEN {c} ELSE {})
  BY <1>0, <1>1, <1>4
<1>6. /\ IsRequest(c) /\ c.op = "syncField" /\ c.key = page.sync[r.arg + 1]
      /\ c.arg = r.arg + 1
  BY <1>0, RequestFields DEF SyncField
<1> HIDE DEF p
<1>7. ~page.edited /\ ~page.landed => \A f \in SyncFields : f <= r.arg => page.server[f] = page.sent[f]
  BY <1>2, <1>3 DEF InOrder, SyncFields
<1>8. CASE r.arg # 3
  <2>1. SettledBy(AutoSync, r, {c})
    BY <1>5, <1>8
  <2>2. c # r /\ c \notin DOMAIN calls
    BY <1>2, <1>3, <1>6 DEF Saves, SaveOps
  <2>3. CallsSound' /\ Saves' = {c} /\ calls'[c] = 1
    BY <1>f, <1>3, <1>6, <2>1, <2>2, SettledSound, SettledCalls DEF Saves, SaveOps
  <2>4. InOrder(c)'
    <3>1. r.arg + 1 \in SyncFields
      BY <1>3, <1>8 DEF SyncFields
    <3>2. ~page.edited /\ ~page.landed =>
            \A f \in SyncFields : f < r.arg + 1 => page.server[f] = page.sent[f]
      BY <1>3, <1>7 DEF SyncFields
    <3>3. ~page.edited => page.sync = page.sent /\ c.key = page.sent[r.arg + 1]
      BY <1>2, <1>6 DEF InOrder
    <3> QED
      BY <1>4, <1>5, <1>6, <2>3, <3>1, <3>2, <3>3 DEF InOrder
  <2> QED
    BY <1>4, <1>5, <1>8, <2>3, <2>4 DEF SyncSound
<1>9. CASE r.arg = 3
  <2>1. SettledBy(AutoSync, r, {})
    BY <1>5, <1>9
  <2>2. CallsSound' /\ Saves' = {}
    BY <1>f, <1>3, <2>1, SettledSound, SettledCalls DEF Saves
  <2>3. ~page.edited /\ ~page.landed => page.server = page.sent
    <3>1. ~page.edited /\ ~page.landed => \A f \in SyncFields : page.server[f] = page.sent[f]
      BY <1>7, <1>9 DEF SyncFields
    <3> QED
      BY <1>f, <3>1
  <2> QED
    BY <1>4, <1>5, <1>9, <2>2, <2>3 DEF SyncSound
<1> QED
  BY <1>8, <1>9

\* A failure ends the save; what it leaves behind is no request of a save any more.
LEMMA AutoSyncFieldFailed ==
    ASSUME SyncSound, NEW late \in BOOLEAN, SyncFieldFailed(late)
    PROVE  SyncSound'
<1>f. AutoSyncPage \subseteq DOMAIN page /\ CallsSound /\ IsABag(calls)
  BY DEF SyncSound, CallsSound
<1> DEFINE p(r) == SyncSaved(page, r.arg, FALSE)
           left(r) == IF late THEN {[r EXCEPT !.op = "syncLate"]} ELSE {}
<1>1. PICK r \in InFlight("syncField") \cup InFlight("syncStored") :
        /\ SettledBy(AutoSync, r, left(r) \cup IF p(r).savingSync THEN {SyncField(page, r.arg + 1)} ELSE {})
        /\ page' = p(r)
  BY DEF SyncFieldFailed
<1>0. PICK c : c = Request("syncLate", r.key, r.arg)
  OBVIOUS
<1>2. r \in Saves /\ InOrder(r) /\ IsRequest(r)
  BY <1>f DEF InFlight, BagToSet, Saves, SaveOps, SyncSound, CallsSound
<1>3. calls[r] = 1 /\ Saves = {r}
  BY <1>2 DEF InOrder
<1>4. [r EXCEPT !.op = "syncLate"] = c
  BY <1>0, <1>2 DEF IsRequest, Request
<1>5. IsRequest(c) /\ c.op = "syncLate"
  BY <1>0, RequestFields
<1>6. /\ DOMAIN p(r) = DOMAIN page /\ p(r).view = page.view /\ p(r).sync = page.sync
      /\ p(r).server = page.server /\ p(r).sent = page.sent
      /\ p(r).savingSync = FALSE /\ p(r).told = FALSE
      /\ p(r).edited = page.edited /\ p(r).landed = page.landed
  BY <1>f DEF SyncSaved, AutoSyncPage
<1>7. PICK rs \in {{}, {c}} : SettledBy(AutoSync, r, rs)
  BY <1>1, <1>4, <1>6
<1>8. CallsSound' /\ Saves' = {}
  BY <1>f, <1>3, <1>5, <1>7, SettledSound, SettledCalls DEF Saves, SaveOps
<1> HIDE DEF p
<1> QED
  BY <1>1, <1>6, <1>8 DEF SyncSound

\* A request that had been given up is stored after all, and noted as landed.
LEMMA AutoSyncFieldLands ==
    ASSUME SyncSound, SyncFieldLands
    PROVE  SyncSound'
<1>f. /\ AutoSyncPage \subseteq DOMAIN page /\ CallsSound
      /\ page.server = [f \in SyncFields |-> page.server[f]]
  BY DEF SyncSound
<1>1. PICK r \in InFlight("syncLate") :
        /\ SettledBy(AutoSync, r, {})
        /\ page' = [page EXCEPT !.server[r.arg] = r.key, !.landed = TRUE]
  BY DEF SyncFieldLands
<1>2. r.op = "syncLate"
  BY DEF InFlight
<1>3. SameSaves
  BY <1>f, <1>1, <1>2, SavesKept DEF SaveOps
<1>4. /\ DOMAIN page' = DOMAIN page /\ page'.view = page.view /\ page'.sync = page.sync
      /\ page'.server = [page.server EXCEPT ![r.arg] = r.key]
      /\ page'.savingSync = page.savingSync /\ page'.sent = page.sent
      /\ page'.edited = page.edited /\ page'.landed = TRUE /\ page'.told = page.told
  BY <1>f, <1>1 DEF AutoSyncPage
<1>5. page'.server = [f \in SyncFields |-> page'.server[f]]
  BY <1>f, <1>4
<1>6. \A q \in Saves' : InOrder(q)'
  BY <1>3, <1>4 DEF SyncSound, SameSaves, InOrder
<1> QED
  BY <1>3, <1>4, <1>5, <1>6 DEF SyncSound, SameSaves

\* saveAutoSync() reports done only what has been stored whole: the three requests are
\* sent one after the other and the first that fails ends the save, whatever else is
\* loaded, switched or triggered meanwhile; unless the form changed on the way, or a
\* request given up before was stored since the save began.
THEOREM SyncWhole == AutoSyncSpec => []SyncSavedWhole
<1>1. AutoSyncInit => SyncSound
  BY AutoSyncInitSound
<1>2. SyncSound /\ [AutoSyncNext]_vars => SyncSound'
  <2>1. SyncSound /\ UNCHANGED vars => SyncSound'
    BY DEF vars, SyncSound, CallsSound, Saves, InOrder
  <2> QED
    BY <2>1, AutoSyncFrame, AutoSyncForm, AutoSyncReads, AutoSyncStarts, AutoSyncFieldStored,
       AutoSyncFieldSaved, AutoSyncFieldFailed, AutoSyncFieldLands
       DEF AutoSyncNext, AutoSyncAnswers
<1>3. SyncSound => SyncSavedWhole
  BY DEF SyncSound, SyncSavedWhole
<1> QED
  BY <1>1, <1>2, <1>3, PTL DEF AutoSyncSpec

-----------------------------------------------------------------------------
(* Tenants.vue, SshKeys.vue and AiChat.vue: one opening, one conversation   *)

\* An upload under way is of this opening or an earlier one; of this one, it was picked.
KeySound ==
    /\ CallsSound
    /\ page.view = TenantForm
    /\ {"view", "dialog", "opening", "keyFile", "picked", "late"} \subseteq DOMAIN page
    /\ page.opening \in Nat /\ page.late \in BOOLEAN
    /\ \A r \in DOMAIN calls : r.op = "upload" =>
          /\ r.arg \in Nat /\ r.arg <= page.opening
          /\ r.arg = page.opening => r.key \in page.picked
    /\ page.late \/ page.keyFile \in page.picked \cup {None}

LEMMA KeyKept ==
    ASSUME KeySound, NEW rs,
           \A q \in rs : /\ IsRequest(q)
                         /\ q.op = "upload" => q.arg = page.opening /\ q.key \in page'.picked,
           Sends(rs) \/ SendsNothing \/ \E view, r : SettledBy(view, r, rs),
           DOMAIN page' = DOMAIN page, page'.view = page.view, page'.opening = page.opening,
           page.picked \subseteq page'.picked, page'.late \in BOOLEAN,
           page'.late \/ page'.keyFile \in page'.picked \cup {None}
    PROVE  KeySound'
<1>1. CallsSound' /\ \A r \in DOMAIN calls' : r \in rs \/ r \in DOMAIN calls
  <2>1. CASE Sends(rs)
    BY <2>1, SentCalls DEF KeySound, CallsSound
  <2>2. CASE \E view, q : SettledBy(view, q, rs)
    BY <2>2, SettledCalls DEF KeySound, CallsSound
  <2>3. CASE SendsNothing
    BY <2>3 DEF SendsNothing, KeySound, CallsSound
  <2> QED
    BY <2>1, <2>2, <2>3
<1>2. \A r \in DOMAIN calls' : r.op = "upload" =>
          /\ r.arg \in Nat /\ r.arg <= page'.opening
          /\ r.arg = page'.opening => r.key \in page'.picked
  BY <1>1 DEF KeySound
<1> QED
  BY <1>1, <1>2 DEF KeySound

LEMMA TenantFormClicks ==
    ASSUME KeySound,
           \/ \E k \in Keys : TenantFormSelect(k) \/ TenantFormPick(k)
           \/ \E open \in BOOLEAN : TenantFormBatch(open)
           \/ TenantFormAdd \/ TenantFormClose \/ TenantFormParse \/ TenantFormPickBatch
           \/ TenantFormSave \/ TenantFormSubmitBatch
    PROVE  KeySound'
<1>f. /\ {"view", "dialog", "opening", "keyFile", "picked", "late"} \subseteq DOMAIN page
      /\ page.late \in BOOLEAN /\ (page.late \/ page.keyFile \in page.picked \cup {None})
  BY DEF KeySound
<1>s. ASSUME NEW op, op # "upload", NEW key, NEW arg, Sends({Request(op, key, arg)}),
             DOMAIN page' = DOMAIN page, page'.view = page.view, page'.opening = page.opening,
             page'.picked = page.picked, page'.keyFile = page.keyFile, page'.late = page.late
      PROVE  KeySound'
  <2>1. PICK rs : rs = {Request(op, key, arg)}
    OBVIOUS
  <2>2. \A q \in rs : IsRequest(q) /\ q.op # "upload"
    BY <1>s, <2>1, RequestFields
  <2> QED
    BY <1>f, <1>s, <2>1, <2>2, KeyKept
<1>n. PICK none : none = {}
  OBVIOUS
<1>1. ASSUME NEW k \in Keys, TenantFormSelect(k)
      PROVE  KeySound'
  <2>1. SendsNothing /\ page' = [page EXCEPT !.keyFile = k, !.picked = @ \cup {k}]
    BY <1>1 DEF TenantFormSelect
  <2> QED
    BY <1>f, <1>n, <2>1, KeyKept
<1>2. ASSUME NEW k \in Keys, TenantFormPick(k)
      PROVE  KeySound'
  <2>1. PICK q : q = Request("upload", k, page.opening)
    OBVIOUS
  <2>2. IsRequest(q) /\ q.arg = page.opening /\ q.key = k
    BY <2>1, RequestFields
  <2>3. Sends({q}) /\ page' = [page EXCEPT !.picked = @ \cup {k}]
    BY <1>2, <2>1 DEF TenantFormPick
  <2>4. PICK rs : rs = {q}
    OBVIOUS
  <2> QED
    BY <1>f, <2>2, <2>3, <2>4, KeyKept
<1>3. ASSUME NEW open \in BOOLEAN, TenantFormBatch(open)
      PROVE  KeySound'
  <2>1. SendsNothing /\ page' = [page EXCEPT !.batch = open]
    BY <1>3 DEF TenantFormBatch
  <2> QED
    BY <1>f, <1>n, <2>1, KeyKept
<1>4. CASE TenantFormAdd
  <2>1. PICK q : q = Request("keys", None, None)
    OBVIOUS
  <2>2. IsRequest(q) /\ q.op = "keys"
    BY <2>1, RequestFields
  <2>3. CallsSound' /\ \A r \in DOMAIN calls' : r = q \/ r \in DOMAIN calls
    BY <1>4, <2>1, <2>2, SentCalls DEF TenantFormAdd, KeySound, CallsSound
  <2>4. /\ DOMAIN page' = DOMAIN page /\ page'.view = page.view
        /\ page'.opening = page.opening + 1 /\ page'.keyFile = None /\ page'.picked = {}
        /\ page'.late = FALSE
    BY <1>f, <1>4 DEF TenantFormAdd, TenantFormOpened
  <2>5. \A r \in DOMAIN calls' : r.op = "upload" => r \in DOMAIN calls
    BY <2>2, <2>3
  <2>6. page'.opening \in Nat /\ page'.opening > page.opening
    BY <2>4 DEF KeySound
  <2>7. \A r \in DOMAIN calls' : r.op = "upload" =>
            /\ r.arg \in Nat /\ r.arg <= page'.opening
            /\ r.arg # page'.opening
    BY <2>5, <2>6 DEF KeySound
  <2>8. page'.late \in BOOLEAN /\ page'.keyFile \in page'.picked \cup {None}
    BY <2>4
  <2> QED
    BY <2>3, <2>4, <2>6, <2>7, <2>8 DEF KeySound
<1>5. CASE TenantFormClose
  <2>1. SendsNothing /\ page' = [page EXCEPT !.dialog = FALSE]
    BY <1>5 DEF TenantFormClose
  <2> QED
    BY <1>f, <1>n, <2>1, KeyKept
<1>9. CASE TenantFormParse
  <2>1. SendsNothing /\ page' = [page EXCEPT !.keyFile = None]
    BY <1>9 DEF TenantFormParse
  <2> QED
    BY <1>f, <1>n, <2>1, KeyKept
<1>6. CASE TenantFormPickBatch
  BY <1>s, <1>6 DEF TenantFormPickBatch
<1>7. CASE TenantFormSave
  BY <1>f, <1>s, <1>7 DEF TenantFormSave
<1>8. CASE TenantFormSubmitBatch
  BY <1>f, <1>s, <1>8 DEF TenantFormSubmitBatch
<1> QED
  BY <1>1, <1>2, <1>3, <1>4, <1>5, <1>6, <1>7, <1>8, <1>9

LEMMA TenantFormAnswered ==
    ASSUME KeySound, TenantFormAnswers
    PROVE  KeySound'
<1>f. /\ {"view", "dialog", "opening", "keyFile", "picked", "late"} \subseteq DOMAIN page
      /\ page.late \in BOOLEAN /\ (page.late \/ page.keyFile \in page.picked \cup {None})
  BY DEF KeySound
<1>n. PICK none : none = {}
  OBVIOUS
<1>k. ASSUME NEW b \in BOOLEAN, NEW rs, rs = IF b THEN {Request("keys", None, None)} ELSE {}
      PROVE  \A q \in rs : IsRequest(q) /\ q.op # "upload"
  BY <1>k, RequestFields
<1>1. ASSUME NEW ok \in BOOLEAN, TenantFormKeys(ok)
      PROVE  KeySound'
  <2>1. PICK k : k = IF ok THEN page.stored ELSE {}
    OBVIOUS
  <2>2. page' = [page EXCEPT !.keys = k] /\ \E r : SettledBy(TenantForm, r, none)
    BY <1>n, <1>1, <2>1 DEF TenantFormKeys
  <2> QED
    BY <1>f, <1>n, <2>2, KeyKept
<1>5. ASSUME NEW ok \in BOOLEAN, TenantFormSaved(ok)
      PROVE  KeySound'
  <2>1. PICK d : d = (page.dialog /\ ~ok)
    OBVIOUS
  <2>2. /\ page' = [page EXCEPT !.saving = FALSE, !.dialog = d]
        /\ \E r : SettledBy(TenantForm, r, none)
    BY <1>n, <1>5, <2>1 DEF TenantFormSaved
  <2> QED
    BY <1>f, <1>n, <2>2, KeyKept
<1>2. CASE TenantFormImported
  <2>1. PICK r : SettledBy(TenantForm, r, none) /\ page' = [page EXCEPT !.batchSaving = FALSE]
    BY <1>n, <1>2 DEF TenantFormImported
  <2> QED
    BY <1>f, <1>n, <2>1, KeyKept
<1>3. ASSUME NEW ok \in BOOLEAN, TenantFormBatchUploaded(ok)
      PROVE  KeySound'
  <2>1. PICK rs : rs = IF ok THEN {Request("keys", None, None)} ELSE {}
    OBVIOUS
  <2>2. PICK r : SettledBy(TenantForm, r, rs)
    BY <1>3, <2>1 DEF TenantFormBatchUploaded
  <2>3. page' = page \/ page' = [page EXCEPT !.stored = Keys]
    BY <1>3 DEF TenantFormBatchUploaded
  <2> QED
    BY <1>f, <1>k, <2>1, <2>2, <2>3, KeyKept
<1>4. ASSUME NEW ok \in BOOLEAN, NEW saved \in BOOLEAN, TenantFormUploaded(ok, saved)
      PROVE  KeySound'
  <2>1. PICK b \in BOOLEAN : b <=> ok /\ ~saved
    OBVIOUS
  <2>2. PICK rs : rs = IF b THEN {Request("keys", None, None)} ELSE {}
    OBVIOUS
  <2>3. PICK r \in InFlight("upload") :
            /\ SettledBy(TenantForm, r, rs)
            /\ page' = IF ~saved THEN page
                       ELSE [page EXCEPT !.stored = @ \union {r.key}, !.keyFile = r.key,
                                         !.late = @ \/ r.arg # page.opening]
    BY <1>4, <2>1, <2>2 DEF TenantFormUploaded
  <2>4. CASE ~saved
    BY <1>f, <1>k, <2>2, <2>3, <2>4, KeyKept
  <2>5. CASE saved
    <3>1. PICK l \in BOOLEAN : l <=> (page.late \/ r.arg # page.opening)
      OBVIOUS
    <3>2. PICK s : page' = [page EXCEPT !.stored = s, !.keyFile = r.key, !.late = l]
      <4>1. l = (page.late \/ r.arg # page.opening)
        BY <1>f, <3>1
      <4> QED
        BY <2>3, <2>5, <4>1
    <3>3. r.arg = page.opening => r.key \in page.picked
      BY <2>3 DEF KeySound, InFlight, BagToSet
    <3>4. /\ DOMAIN page' = DOMAIN page /\ page'.view = page.view /\ page'.opening = page.opening
          /\ page'.picked = page.picked /\ page'.keyFile = r.key /\ page'.late = l
      BY <1>f, <3>2
    <3>5. page'.late \/ page'.keyFile \in page'.picked \cup {None}
      BY <3>1, <3>3, <3>4
    <3> QED
      BY <1>k, <2>2, <2>3, <3>4, <3>5, KeyKept
  <2> QED
    BY <2>4, <2>5
<1> QED
  BY <1>1, <1>2, <1>3, <1>4, <1>5 DEF TenantFormAnswers

LEMMA KeyInitSound == TenantFormInit => KeySound
BY DEF TenantFormInit, Opens, KeySound, CallsSound, EmptyBag, SetToBag, IsABag

\* The key pair shown is inductive by itself: opening and closing reset the form.
GeneratedSound ==
    /\ page.view = SshKeys
    /\ {"view", "dialog", "opening", "generated", "late"} \subseteq DOMAIN page
    /\ page.late \in BOOLEAN /\ page.dialog \in BOOLEAN
    /\ page.late \/ page.generated = 0 \/ (page.dialog /\ page.generated = page.opening)

LEMMA SshKeysSteps == ASSUME GeneratedSound, SshKeysNext PROVE GeneratedSound'
<1>f. {"view", "dialog", "opening", "generated", "late"} \subseteq DOMAIN page
      /\ page.late \in BOOLEAN /\ page.dialog \in BOOLEAN
  BY DEF GeneratedSound
<1>s. ASSUME NEW l, NEW g, page' = page \/ page' = [page EXCEPT !.loading = l]
                           \/ page' = [page EXCEPT !.generating = g]
      PROVE  GeneratedSound'
  BY <1>s DEF GeneratedSound
<1>1. CASE SshKeysOpenGenerate \/ SshKeysCloseGenerate
  <2>2. /\ DOMAIN page' = DOMAIN page /\ page'.view = page.view /\ page'.generated = 0
        /\ page'.late = FALSE /\ page'.dialog \in BOOLEAN
    BY <1>f, <1>1 DEF SshKeysOpenGenerate, SshKeysCloseGenerate, GenerateFormReset
  <2> QED
    BY <1>f, <2>2 DEF GeneratedSound
<1>2. CASE SshKeysGenerate \/ SshKeysLoaded
  BY <1>s, <1>2 DEF SshKeysGenerate, SshKeysLoaded
<1>3. ASSUME NEW op, SshKeysWrite(op)
      PROVE  GeneratedSound'
  BY <1>s, <1>3 DEF SshKeysWrite
<1>4. ASSUME NEW op, NEW ok \in BOOLEAN, SshKeysWritten(op, ok)
      PROVE  GeneratedSound'
  <2>1. PICK l : page' = [page EXCEPT !.loading = l]
    BY <1>4 DEF SshKeysWritten
  <2> QED
    BY <1>s, <2>1
<1>5. CASE SshKeysGenerated(FALSE)
  BY <1>s, <1>5 DEF SshKeysGenerated
<1>6. CASE SshKeysGenerated(TRUE)
  <2>1. PICK r : page' = [page EXCEPT !.generated = r.key,
                                      !.late = @ \/ ~(page.dialog /\ r.key = page.opening),
                                      !.loading = TRUE, !.generating = FALSE]
    BY <1>6 DEF SshKeysGenerated
  <2>2. PICK l \in BOOLEAN : l <=> (page.late \/ ~(page.dialog /\ r.key = page.opening))
    OBVIOUS
  <2>3. l = (page.late \/ ~(page.dialog /\ r.key = page.opening))
    BY <1>f, <2>2
  <2>4. page' = [page EXCEPT !.generated = r.key, !.late = l, !.loading = TRUE,
                             !.generating = FALSE]
    BY <2>1, <2>3
  <2>5. /\ DOMAIN page' = DOMAIN page /\ page'.view = page.view /\ page'.generated = r.key
        /\ page'.late = l /\ page'.dialog = page.dialog /\ page'.opening = page.opening
    BY <1>f, <2>4
  <2> QED
    BY <1>f, <2>2, <2>5 DEF GeneratedSound
<1>7. ASSUME NEW ok \in BOOLEAN, SshKeysGenerated(ok)
      PROVE  GeneratedSound'
  BY <1>5, <1>6, <1>7
<1> QED
  BY <1>1, <1>2, <1>3, <1>4, <1>7 DEF SshKeysNext, SshKeysAnswers

LEMMA GeneratedInitSound == SshKeysInit => GeneratedSound
BY DEF SshKeysInit, Opens, GeneratedSound

\* One question at most is under way, of this conversation, and then the page waits.
ChatSound ==
    /\ CallsSound
    /\ page.view = AiChat
    /\ {"view", "session", "shown", "loading", "history"} \subseteq DOMAIN page
    /\ page.loading \in BOOLEAN
    /\ page.shown \in Seq([role : {"user", "ai"}, of : {page.session}])
    /\ \A i \in 1..Len(page.shown) : page.shown[i].role = IF i % 2 = 1 THEN "user" ELSE "ai"
    /\ page.loading <=> Len(page.shown) % 2 = 1
    /\ \A r \in DOMAIN calls : r.op = "chat" =>
          /\ page.loading /\ r.key = page.session /\ r.arg = None /\ calls[r] = 1

LEMMA ChatSteps == ASSUME ChatSound, ChatNext PROVE ChatSound'
<1>f. /\ {"view", "session", "shown", "loading", "history"} \subseteq DOMAIN page
      /\ page.loading \in BOOLEAN /\ Len(page.shown) \in Nat
      /\ CallsSound
  BY DEF ChatSound
<1>1. CASE ChatSend
  <2>1. PICK q, m : /\ q = Request("chat", page.session, None)
                    /\ m = [role |-> "user", of |-> page.session]
    OBVIOUS
  <2>2. /\ IsRequest(q) /\ q.key = page.session /\ q.arg = None
    BY <2>1, RequestFields
  <2>3. /\ ~page.loading /\ Sends({q})
        /\ page' = [page EXCEPT !.loading = TRUE, !.shown = Append(@, m)]
    BY <1>1, <2>1 DEF ChatSend
  <2>4. /\ DOMAIN page' = DOMAIN page /\ page'.view = page.view /\ page'.session = page.session
        /\ page'.loading = TRUE /\ page'.shown = Append(page.shown, m)
    BY <1>f, <2>3
  <2>5. \A r \in DOMAIN calls : r.op # "chat"
    BY <2>3 DEF ChatSound
  <2>6. /\ CallsSound'
        /\ \A r \in DOMAIN calls' : r.op = "chat" => r = q /\ calls'[r] = 1
    BY <1>f, <2>2, <2>3, <2>5, SentCalls DEF CallsSound
  <2>7. /\ page'.shown \in Seq([role : {"user", "ai"}, of : {page'.session}])
        /\ Len(page'.shown) = Len(page.shown) + 1
        /\ page'.shown[Len(page.shown) + 1] = m
        /\ \A i \in 1..Len(page.shown) : page'.shown[i] = page.shown[i]
    BY <2>1, <2>4 DEF ChatSound
  <2>8. Len(page.shown) % 2 = 0 /\ (Len(page.shown) + 1) % 2 = 1
    BY <1>f, <2>3 DEF ChatSound
  <2>9. \A i \in 1..Len(page'.shown) : page'.shown[i].role = IF i % 2 = 1 THEN "user" ELSE "ai"
    BY <1>f, <2>1, <2>7, <2>8 DEF ChatSound
  <2> QED
    BY <2>2, <2>4, <2>6, <2>7, <2>8, <2>9 DEF ChatSound
<1>2. ASSUME NEW ok \in BOOLEAN, ChatAnswered(ok)
      PROVE  ChatSound'
  <2>0. PICK none : none = {}
    OBVIOUS
  <2>h. PICK h : h = IF ok THEN page.history + 1 ELSE page.history
    OBVIOUS
  <2>1. PICK q \in InFlight("chat") :
            /\ SettledBy(AiChat, q, none)
            /\ page' = [page EXCEPT !.loading = FALSE,
                                    !.shown = Append(@, [role |-> "ai", of |-> q.key]),
                                    !.history = h]
    BY <1>2, <2>0, <2>h DEF ChatAnswered
  <2>2. q \in DOMAIN calls /\ q.op = "chat"
    BY <2>1 DEF InFlight, BagToSet
  <2>3. PICK m : m = [role |-> "ai", of |-> page.session]
    OBVIOUS
  <2>4. /\ DOMAIN page' = DOMAIN page /\ page'.view = page.view /\ page'.session = page.session
        /\ page'.loading = FALSE /\ page'.shown = Append(page.shown, m)
    BY <1>f, <2>1, <2>2, <2>3 DEF ChatSound
  <2>5. \A r \in DOMAIN calls : r.op = "chat" => r = q /\ calls[r] = 1
    BY <2>2 DEF ChatSound, CallsSound, IsRequest
  <2>6. CallsSound' /\ \A r \in DOMAIN calls' : r.op # "chat"
    BY <1>f, <2>0, <2>1, <2>5, SettledCalls DEF CallsSound
  <2>7. /\ page'.shown \in Seq([role : {"user", "ai"}, of : {page'.session}])
        /\ Len(page'.shown) = Len(page.shown) + 1
        /\ page'.shown[Len(page.shown) + 1] = m
        /\ \A i \in 1..Len(page.shown) : page'.shown[i] = page.shown[i]
    BY <2>3, <2>4 DEF ChatSound
  <2>8. Len(page.shown) % 2 = 1 /\ (Len(page.shown) + 1) % 2 = 0
    BY <1>f, <2>2 DEF ChatSound
  <2>9. \A i \in 1..Len(page'.shown) : page'.shown[i].role = IF i % 2 = 1 THEN "user" ELSE "ai"
    BY <1>f, <2>3, <2>7, <2>8 DEF ChatSound
  <2>e. Len(page'.shown) % 2 # 1
    <3>1. PICK n \in Nat : n = Len(page.shown)
      BY <1>f
    <3>0. n % 2 = 1
      BY <2>8, <3>1
    <3>2. (n + 1) % 2 = 0 /\ n + 1 \in Nat
      BY <3>0
    <3>3. (n + 1) % 2 # 1
      BY <3>2
    <3> QED
      BY <2>7, <3>1, <3>3
  <2>a. page'.loading \in BOOLEAN /\ (page'.loading <=> Len(page'.shown) % 2 = 1)
    BY <2>4, <2>e
  <2>b. /\ page'.view = AiChat
        /\ {"view", "session", "shown", "loading", "history"} \subseteq DOMAIN page'
    BY <2>4 DEF ChatSound
  <2>c. \A r \in DOMAIN calls' : r.op = "chat" =>
            /\ page'.loading /\ r.key = page'.session /\ r.arg = None /\ calls'[r] = 1
    BY <2>6
  <2>d. CallsSound'
    BY <2>6
  <2> QED
    BY <2>7, <2>9, <2>a, <2>b, <2>c, <2>d DEF ChatSound
<1>3. CASE ChatClear
  <2>1. PICK q : q = Request("forget", None, None)
    OBVIOUS
  <2>2. IsRequest(q) /\ q.op = "forget"
    BY <2>1, RequestFields
  <2>3. /\ ~page.loading /\ Sends({q})
        /\ page' = [page EXCEPT !.session = @ + 1, !.shown = <<>>]
    BY <1>3, <2>1 DEF ChatClear, ChatClearable
  <2>4. \A r \in DOMAIN calls : r.op # "chat"
    BY <2>3 DEF ChatSound
  <2>5. CallsSound' /\ \A r \in DOMAIN calls' : r.op # "chat"
    BY <1>f, <2>2, <2>3, <2>4, SentCalls DEF CallsSound
  <2>6. /\ DOMAIN page' = DOMAIN page /\ page'.view = page.view
        /\ page'.loading = page.loading /\ page'.shown = <<>>
    BY <1>f, <2>3
  <2> QED
    BY <1>f, <2>3, <2>5, <2>6 DEF ChatSound
<1>4. ASSUME NEW ok \in BOOLEAN, ChatForgotten(ok)
      PROVE  ChatSound'
  <2>0. PICK none : none = {}
    OBVIOUS
  <2>1. PICK q \in InFlight("forget") : SettledBy(AiChat, q, none)
    BY <1>4, <2>0 DEF ChatForgotten
  <2>2. page' = page \/ page' = [page EXCEPT !.history = 0]
    BY <1>4 DEF ChatForgotten
  <2>3. /\ DOMAIN page' = DOMAIN page /\ page'.view = page.view /\ page'.session = page.session
        /\ page'.loading = page.loading /\ page'.shown = page.shown
    BY <1>f, <2>2
  <2>4. q.op # "chat"
    BY <2>1 DEF InFlight
  <2>5. /\ CallsSound'
        /\ \A r \in DOMAIN calls' : r.op = "chat" => r \in DOMAIN calls /\ calls'[r] = calls[r]
    BY <1>f, <2>0, <2>1, <2>4, SettledCalls DEF CallsSound
  <2> QED
    BY <2>3, <2>5 DEF ChatSound
<1> QED
  BY <1>1, <1>2, <1>3, <1>4 DEF ChatNext, ChatAnswers

LEMMA ChatInitSound == ChatInit => ChatSound
BY DEF ChatInit, Opens, ChatSound, CallsSound, EmptyBag, SetToBag, IsABag

-----------------------------------------------------------------------------
OpeningNext ==
    \/ At(TenantForm) /\ TenantFormNext
    \/ At(SshKeys) /\ SshKeysNext
    \/ At(AiChat) /\ ChatNext

OpeningSpec == (TenantFormInit \/ SshKeysInit \/ ChatInit) /\ [][OpeningNext]_vars

OpeningInv == KeySound \/ GeneratedSound \/ ChatSound

\* The key chosen for a new tenant and the key pair shown were uploaded or generated in
\* this opening of the dialog, until an answer outlived its own, and every message in the
\* window of the assistant is of this conversation, question and answer in turn: for any
\* number of openings, files and conversations.
THEOREM OpeningsApart == OpeningSpec => []AnswersOfOpening
<1>v. /\ KeySound => page.view = TenantForm
      /\ GeneratedSound => page.view = SshKeys
      /\ ChatSound => page.view = AiChat
      /\ TenantForm # SshKeys /\ TenantForm # AiChat /\ SshKeys # AiChat
  BY DEF KeySound, GeneratedSound, ChatSound, TenantForm, SshKeys, AiChat
<1>1. TenantFormInit \/ SshKeysInit \/ ChatInit => OpeningInv
  BY KeyInitSound, GeneratedInitSound, ChatInitSound DEF OpeningInv
<1>2. OpeningInv /\ [OpeningNext]_vars => OpeningInv'
  <2> SUFFICES ASSUME OpeningInv, [OpeningNext]_vars PROVE OpeningInv'
    OBVIOUS
  <2>1. CASE At(TenantForm) /\ TenantFormNext
    BY <1>v, <2>1, TenantFormClicks, TenantFormAnswered DEF At, OpeningInv, TenantFormNext
  <2>2. CASE At(SshKeys) /\ SshKeysNext
    BY <1>v, <2>2, SshKeysSteps DEF At, OpeningInv
  <2>3. CASE At(AiChat) /\ ChatNext
    BY <1>v, <2>3, ChatSteps DEF At, OpeningInv
  <2>4. CASE UNCHANGED vars
    BY <2>4 DEF vars, OpeningInv, KeySound, GeneratedSound, ChatSound, CallsSound
  <2> QED
    BY <2>1, <2>2, <2>3, <2>4 DEF OpeningNext
<1>3. KeySound => AnswersOfOpening
  BY <1>v DEF KeySound, AnswersOfOpening, KeyOfOpening, GeneratedOfOpening, ChatOfSession, At
<1>4. GeneratedSound => AnswersOfOpening
  BY <1>v DEF GeneratedSound, AnswersOfOpening, KeyOfOpening, GeneratedOfOpening, ChatOfSession, At
<1>5. ChatSound => AnswersOfOpening
  <2> SUFFICES ASSUME ChatSound PROVE AnswersOfOpening
    OBVIOUS
  <2>1. ASSUME NEW i \in 1..Len(page.shown)
        PROVE  page.shown[i] = [role |-> IF i % 2 = 1 THEN "user" ELSE "ai", of |-> page.session]
    <3>1. PICK S : S = [role : {"user", "ai"}, of : {page.session}]
      OBVIOUS
    <3>3. page.shown \in Seq(S)
      BY <3>1 DEF ChatSound
    <3>4. page.shown[i] \in S
      BY <3>3
    <3>2. page.shown[i].role = IF i % 2 = 1 THEN "user" ELSE "ai"
      BY DEF ChatSound
    <3> QED
      BY <3>1, <3>2, <3>4
  <2> QED
    BY <1>v, <2>1 DEF ChatSound, AnswersOfOpening, KeyOfOpening, GeneratedOfOpening,
                      ChatOfSession, At
<1> QED
  BY <1>1, <1>2, <1>3, <1>4, <1>5, PTL DEF OpeningSpec, OpeningInv

-----------------------------------------------------------------------------
(* SystemMetrics.vue                                                        *)

MetricsSound ==
    /\ page.view = Metrics
    /\ {"view", "auto", "timer", "intervals", "left", "loading", "failed", "shown"} \subseteq DOMAIN page
    /\ page.auto \in BOOLEAN /\ page.timer \in BOOLEAN /\ page.left \in BOOLEAN
    /\ page.intervals = IF page.timer THEN 1 ELSE 0
    /\ ~page.auto \/ page.left => ~page.timer
    /\ page.left => clicks = 0

LEMMA MetricsSteps == ASSUME MetricsSound, MetricsNext PROVE MetricsSound'
<1>f. /\ {"view", "auto", "timer", "intervals", "left", "loading", "failed", "shown"} \subseteq DOMAIN page
      /\ page.auto \in BOOLEAN /\ page.timer \in BOOLEAN /\ page.left \in BOOLEAN
  BY DEF MetricsSound
<1>s. ASSUME NEW l, NEW f, NEW s, page' = [page EXCEPT !.loading = l, !.failed = f]
                                  \/ page' = [page EXCEPT !.loading = l, !.failed = f, !.shown = s],
             page.left => clicks' = 0
      PROVE  MetricsSound'
  BY <1>f, <1>s DEF MetricsSound
<1>c. PICK n : n = IF page.timer THEN page.intervals - 1 ELSE page.intervals
  OBVIOUS
<1>z. n = 0
  BY <1>c DEF MetricsSound
<1>p. ClearsInterval(page) = [page EXCEPT !.intervals = 0, !.timer = FALSE]
  BY <1>c, <1>z DEF ClearsInterval
<1>1. CASE MetricsTick \/ MetricsRefresh
  <2>1. ~page.left
    BY <1>1 DEF MetricsTick, MetricsRefresh, Click, MetricsSound
  <2>2. page' = [page EXCEPT !.loading = TRUE, !.failed = FALSE]
    BY <1>1 DEF MetricsTick, MetricsRefresh, MetricsLoads
  <2> QED
    BY <1>s, <2>1, <2>2
<1>2. CASE MetricsOnAutoRefreshChange
  <2>1. ~page.left
    BY <1>2 DEF MetricsOnAutoRefreshChange, Click, MetricsSound
  <2>2. PICK q : q = [page EXCEPT !.intervals = 0, !.timer = FALSE]
    OBVIOUS
  <2>3. CASE page.auto
    <3>1. page' = [q EXCEPT !.auto = FALSE]
      BY <1>2, <1>p, <2>2, <2>3 DEF MetricsOnAutoRefreshChange, AutoRefreshed
    <3> QED
      BY <1>f, <2>1, <2>2, <3>1 DEF MetricsSound
  <2>4. CASE ~page.auto
    <3>1. page' = [q EXCEPT !.auto = TRUE, !.timer = TRUE, !.intervals = 0 + 1]
      BY <1>f, <1>2, <1>p, <2>2, <2>4 DEF MetricsOnAutoRefreshChange, AutoRefreshed
    <3> QED
      BY <1>f, <2>1, <2>2, <3>1 DEF MetricsSound
  <2> QED
    BY <2>3, <2>4
<1>3. ASSUME NEW ok \in BOOLEAN, MetricsLoaded(ok)
      PROVE  MetricsSound'
  <2>1. PICK f, s : page' = [page EXCEPT !.loading = FALSE, !.failed = f, !.shown = s]
    BY <1>3 DEF MetricsLoaded
  <2>2. clicks' = clicks
    BY <1>3 DEF MetricsLoaded, SettledBy
  <2> QED
    BY <1>s, <2>1, <2>2 DEF MetricsSound
<1>4. CASE MetricsUnmount
  <2>1. PICK q : q = [page EXCEPT !.intervals = 0, !.timer = FALSE]
    OBVIOUS
  <2>2. page' = [q EXCEPT !.left = TRUE] /\ clicks' = 0
    BY <1>4, <1>p, <2>1 DEF MetricsUnmount, Leaves
  <2> QED
    BY <1>f, <2>1, <2>2 DEF MetricsSound
<1> QED
  BY <1>1, <1>2, <1>3, <1>4 DEF MetricsNext, MetricsAnswers

LEMMA MetricsInitSound == MetricsInit => MetricsSound
BY DEF MetricsInit, Opens, MetricsSound

-----------------------------------------------------------------------------
(* Home.vue: tiles and markers                                              *)

HomeFields == {"view", "loading", "left", "map", "found", "pending", "polls", "waiting",
               "provider", "heard", "errors", "stopped", "markers", "broken"}

TilesSound(p) ==
    /\ p.provider \in 0..4 /\ p.errors \in [Providers -> 0..TileErrors]
    /\ \A l \in Providers : l < p.provider => p.errors[l] = TileErrors
    /\ p.stopped => p.errors[4] = TileErrors

HomeSound(p) ==
    /\ p.view = Home /\ HomeFields \subseteq DOMAIN p
    /\ TilesSound(p)
    /\ p.map \in BOOLEAN /\ p.broken = FALSE /\ (p.markers # None => p.map)

\* Fields the properties do not speak of.
SameHome(p, q) ==
    /\ DOMAIN q = DOMAIN p
    /\ \A f \in {"view", "map", "provider", "errors", "stopped", "markers", "broken"} : q[f] = p[f]

LEMMA SameHomeSound == ASSUME NEW p, NEW q, HomeSound(p), SameHome(p, q) PROVE HomeSound(q)
BY DEF HomeSound, SameHome, TilesSound, HomeFields

LEMMA DrawnSound == ASSUME NEW p, HomeSound(p) PROVE HomeSound(MarkersRendered(p))
<1>1. PICK source : MarkersRendered(p) = IF p.map THEN [p EXCEPT !.markers = source] ELSE p
  BY DEF MarkersRendered, Drawn
<1>2. ASSUME p.map PROVE HomeSound([p EXCEPT !.markers = source])
  BY <1>2 DEF HomeSound, TilesSound, HomeFields
<1> QED
  BY <1>1, <1>2

LEMMA MapInitSound == ASSUME NEW p, HomeSound(p) PROVE HomeSound(MapInit(p))
<1>1. ASSUME NEW q, q = [[p EXCEPT !.map = TRUE] EXCEPT !.provider = 1, !.heard = {1}]
      PROVE  HomeSound(q)
  <2>1. /\ DOMAIN q = DOMAIN p /\ q.provider = 1 /\ q.map = TRUE
        /\ \A f \in {"view", "errors", "stopped", "markers", "broken"} : q[f] = p[f]
    BY <1>1 DEF HomeSound, HomeFields
  <2>2. TilesSound(q)
    BY <2>1 DEF HomeSound, TilesSound, Providers
  <2> QED
    BY <2>1, <2>2 DEF HomeSound
<1> QED
  BY <1>1 DEF MapInit, TileLayer

LEMMA HomeLoadedSound == ASSUME NEW p, HomeSound(p) PROVE HomeSound(HomeLoaded(p))
<1>1. PICK u : u = [p EXCEPT !.loading = FALSE]
  OBVIOUS
<1>2. HomeSound(u)
  <2>1. SameHome(p, u)
    BY <1>1 DEF SameHome, HomeSound, HomeFields
  <2> QED
    BY <2>1, SameHomeSound
<1>3. PICK q : q = MarkersRendered(MapInit(u))
  OBVIOUS
<1>4. HomeSound(q)
  BY <1>2, <1>3, MapInitSound, DrawnSound
<1>5. ASSUME NEW w PROVE HomeSound([q EXCEPT !.waiting = w])
  <2>1. SameHome(q, [q EXCEPT !.waiting = w])
    BY <1>4 DEF SameHome, HomeSound, HomeFields
  <2> QED
    BY <1>4, <2>1, SameHomeSound
<1>6. HomeLoaded(p) = IF p.left THEN u ELSE [q EXCEPT !.waiting = p.pending]
  BY <1>1, <1>3 DEF HomeLoaded
<1> QED
  BY <1>2, <1>5, <1>6

LEMMA TileErrorSound == ASSUME HomeSound(page), NEW l \in Providers, HomeTileError(l) PROVE HomeSound(page)'
<1>1. PICK n : n = IF page.errors[l] < TileErrors THEN page.errors[l] + 1 ELSE page.errors[l]
  OBVIOUS
<1>2. n \in 0..TileErrors /\ n >= page.errors[l]
  BY <1>1 DEF HomeSound, TilesSound, TileErrors
<1>3. PICK p : p = [page EXCEPT !.errors[l] = n]
  OBVIOUS
<1>4. /\ l = page.provider
      /\ page' = IF p.errors[l] < TileErrors THEN p
                 ELSE IF page.provider = 4 THEN [p EXCEPT !.stopped = TRUE]
                 ELSE TileLayer(p, page.provider + 1)
  BY <1>1, <1>3 DEF HomeTileError, TileErrorCounts
<1>5. /\ DOMAIN p = DOMAIN page
      /\ \A f \in {"view", "map", "provider", "stopped", "markers", "broken"} : p[f] = page[f]
      /\ p.errors = [page.errors EXCEPT ![l] = n]
  BY <1>3 DEF HomeSound, HomeFields
<1>6. /\ p.errors \in [Providers -> 0..TileErrors] /\ p.errors[l] = n
      /\ \A k \in Providers : page.errors[k] = TileErrors => p.errors[k] = TileErrors
  BY <1>1, <1>2, <1>5 DEF HomeSound, TilesSound
<1>7. HomeSound(p)
  <2>1. TilesSound(p)
    BY <1>5, <1>6 DEF HomeSound, TilesSound, Providers
  <2> QED
    BY <1>5, <2>1 DEF HomeSound
<1>8. CASE n < TileErrors
  BY <1>4, <1>6, <1>7, <1>8
<1>9. ASSUME ~(n < TileErrors), page.provider = 4
      PROVE  HomeSound(page)'
  <2>1. page' = [p EXCEPT !.stopped = TRUE] /\ p.errors[4] = TileErrors
    BY <1>2, <1>4, <1>6, <1>9 DEF TileErrors
  <2>2. /\ DOMAIN page' = DOMAIN p /\ page'.stopped = TRUE
        /\ \A f \in {"view", "map", "provider", "errors", "markers", "broken"} : page'[f] = p[f]
    BY <1>7, <2>1 DEF HomeSound, HomeFields
  <2>3. TilesSound(page')
    BY <1>7, <2>1, <2>2 DEF HomeSound, TilesSound
  <2> QED
    BY <1>7, <2>2, <2>3 DEF HomeSound
<1>10. ASSUME ~(n < TileErrors), page.provider # 4
       PROVE  HomeSound(page)'
  <2>1. page' = [p EXCEPT !.provider = l + 1, !.heard = {l + 1}] /\ p.errors[l] = TileErrors
    BY <1>2, <1>4, <1>6, <1>10 DEF TileErrors, TileLayer
  <2>2. /\ DOMAIN page' = DOMAIN p /\ page'.provider = l + 1
        /\ \A f \in {"view", "map", "stopped", "errors", "markers", "broken"} : page'[f] = p[f]
    BY <1>7, <2>1 DEF HomeSound, HomeFields
  <2>3. TilesSound(page')
    BY <1>4, <1>5, <1>7, <1>10, <2>1, <2>2 DEF HomeSound, TilesSound, Providers
  <2> QED
    BY <1>7, <2>2, <2>3 DEF HomeSound
<1> QED
  BY <1>8, <1>9, <1>10

LEMMA HomeSteps == ASSUME HomeSound(page), HomeNext PROVE HomeSound(page)'
<1>a. ASSUME NEW f, NEW d PROVE HomeSound([page EXCEPT !.found = f, !.pending = d])
  <2>1. SameHome(page, [page EXCEPT !.found = f, !.pending = d])
    BY DEF SameHome, HomeSound, HomeFields
  <2> QED
    BY <2>1, SameHomeSound
<1>1. ASSUME NEW ok \in BOOLEAN, NEW pending \in BOOLEAN, NEW found, HomeAnswered(ok, found, pending)
      PROVE  HomeSound(page)'
  <2>1. PICK r : TRUE /\
            \E all : LET p == [page EXCEPT
                      !.found = IF ~ok THEN @
                                ELSE IF r.op = "stats" THEN @ \cup (found \cap {"cities"})
                                ELSE @ \cup (found \cap {"instances"}),
                      !.pending = IF ok /\ r.op = "map" THEN pending ELSE @]
                     IN \/ page' = page
                        \/ page' = HomeLoaded([p EXCEPT !.found = {}, !.pending = FALSE])
                        \/ page' = HomeLoaded(p)
                        \/ page' = p
    BY <1>1 DEF HomeAnswered
  <2>2. PICK f : f = IF ~ok THEN page.found
                     ELSE IF r.op = "stats" THEN page.found \cup (found \cap {"cities"})
                     ELSE page.found \cup (found \cap {"instances"})
    OBVIOUS
  <2>3. PICK d : d = IF ok /\ r.op = "map" THEN pending ELSE page.pending
    OBVIOUS
  <2>4. PICK p : p = [page EXCEPT !.found = f, !.pending = d]
    OBVIOUS
  <2>5. HomeSound(p) /\ HomeSound([p EXCEPT !.found = {}, !.pending = FALSE])
    <3>1. [p EXCEPT !.found = {}, !.pending = FALSE] = [page EXCEPT !.found = {}, !.pending = FALSE]
      BY <2>4 DEF HomeSound, HomeFields
    <3> QED
      BY <1>a, <2>4, <3>1
  <2>6. \/ page' = page
        \/ page' = HomeLoaded([p EXCEPT !.found = {}, !.pending = FALSE])
        \/ page' = HomeLoaded(p)
        \/ page' = p
    BY <2>1, <2>2, <2>3, <2>4
  <2> QED
    BY <2>5, <2>6, HomeLoadedSound
<1>2. ASSUME NEW ok \in BOOLEAN, NEW pending \in BOOLEAN, NEW found, HomePolled(ok, found, pending)
      PROVE  HomeSound(page)'
  <2>1. PICK f : f = (page.found \ {"instances"}) \cup (found \cap {"instances"})
    OBVIOUS
  <2>2. PICK q : q = MarkersRendered([page EXCEPT !.found = f])
    OBVIOUS
  <2>3. HomeSound(q)
    <3>1. SameHome(page, [page EXCEPT !.found = f])
      BY DEF SameHome, HomeSound, HomeFields
    <3> QED
      BY <2>2, <3>1, SameHomeSound, DrawnSound
  <2>4. PICK w : w = (pending /\ page.polls < MaxPolls)
    OBVIOUS
  <2>5. page' = page \/ page' = [q EXCEPT !.waiting = w]
    BY <1>2, <2>1, <2>2, <2>4 DEF HomePolled
  <2>6. SameHome(q, [q EXCEPT !.waiting = w])
    BY <2>3 DEF SameHome, HomeSound, HomeFields
  <2> QED
    BY <2>3, <2>5, <2>6, SameHomeSound
<1>3. CASE HomePollTimer
  <2>1. PICK n : n = IF page.map THEN page.polls + 1 ELSE page.polls
    OBVIOUS
  <2>2. page' = [page EXCEPT !.waiting = FALSE, !.polls = n]
    BY <1>3, <2>1 DEF HomePollTimer
  <2>3. SameHome(page, page')
    BY <2>2 DEF SameHome, HomeSound, HomeFields
  <2> QED
    BY <2>3, SameHomeSound
<1>4. CASE HomeUnmount
  <2>1. page' = [page EXCEPT !.left = TRUE, !.map = FALSE, !.markers = None]
    BY <1>4 DEF HomeUnmount
  <2> QED
    BY <2>1 DEF HomeSound, TilesSound, HomeFields
<1> QED
  BY <1>1, <1>2, <1>3, <1>4, TileErrorSound DEF HomeNext, HomeAnswers

LEMMA HomeInitSound == HomeInit => HomeSound(page)
BY DEF HomeInit, Opens, HomeSound, TilesSound, HomeFields, TileErrors, Providers

-----------------------------------------------------------------------------
HomeMetricsSpec == (HomeInit \/ MetricsInit) /\ [][(At(Home) /\ HomeNext) \/ (At(Metrics) /\ MetricsNext)]_vars

HomeMetricsInv == HomeSound(page) \/ MetricsSound

\* A provider of tiles is given up only for errors of its own, markers are drawn only on
\* the map there is, and one interval at most polls, whatever errors, answers and timers
\* come after the page has moved on or was left.
THEOREM HomeAndMetrics == HomeMetricsSpec => []HomeAndMetricsSound
<1>v. Home # Metrics /\ (HomeSound(page) => page.view = Home) /\ (MetricsSound => page.view = Metrics)
  BY DEF Home, Metrics, HomeSound, MetricsSound
<1>1. HomeInit \/ MetricsInit => HomeMetricsInv
  BY HomeInitSound, MetricsInitSound DEF HomeMetricsInv
<1>2. HomeMetricsInv /\ [(At(Home) /\ HomeNext) \/ (At(Metrics) /\ MetricsNext)]_vars => HomeMetricsInv'
  <2>1. UNCHANGED vars => (HomeSound(page) => HomeSound(page)') /\ (MetricsSound => MetricsSound')
    BY DEF vars, HomeSound, TilesSound, MetricsSound
  <2> QED
    BY <1>v, <2>1, HomeSteps, MetricsSteps DEF HomeMetricsInv, At
<1>3. HomeMetricsInv => HomeAndMetricsSound
  <2>1. HomeSound(page) => HomeAndMetricsSound
    BY <1>v DEF HomeSound, TilesSound, HomeAndMetricsSound, TilesRotate, MarkersOnMap, OneInterval
  <2>2. MetricsSound => HomeAndMetricsSound
    BY <1>v DEF MetricsSound, HomeAndMetricsSound, TilesRotate, MarkersOnMap, OneInterval
  <2> QED
    BY <2>1, <2>2 DEF HomeMetricsInv
<1> QED
  BY <1>1, <1>2, <1>3, PTL DEF HomeMetricsSpec

=============================================================================
