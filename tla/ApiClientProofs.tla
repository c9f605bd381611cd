-------------------------- MODULE ApiClientProofs ---------------------------
(***************************************************************************)
(* Theorems about ApiClient for every set of tenants, users, tabs, calls   *)
(* and deployments.  SessionInv is the inductive invariant: a call is for  *)
(* one user at most and a sign-in's token is its user's (Single), while    *)
(* nothing is mixed whatever the browser keeps or will be given is the     *)
(* same user's (Same), and no token that is good anywhere is younger than  *)
(* its user's deactivation (Aging).  ReasonInv adds what the                *)
(* steps that end or begin a session rest on: the browser's token is in    *)
(* Redis, logged out or expired, and a refused refresh was for a token     *)
(* that stays void (Accounted); a sign-in accepted for the page it was     *)
(* sent from is of that page's tenant (Placed).                            *)
(***************************************************************************)
EXTENDS ApiClient, TLAPS

Kinds == {"login", "me", "get"}

Single(r) ==
  r.step # "idle" =>
    /\ \A u, v \in r.user : u = v
    /\ r.step = "sent" /\ r.kind = "login" => \A t \in r.tokens : t.sub \in r.user
    /\ \/ r.kind = "login"
       \/ r.step = "sent" /\ r.kind = "me" /\ r.answer = "ok"
       \/ r.user = {}

SameCall(r, us) ==
  /\ r.step = "refreshing" /\ r.answer = "ok" => \A t \in r.tokens : t.sub \in us
  /\ r.step = "sent" /\ r.kind = "me" /\ r.answer = "ok" => r.user = us

Same ==
  /\ jwt # NoToken => jwt.sub \in user
  /\ refreshToken # NoToken => refreshToken.sub \in user
  /\ \A c \in Calls : SameCall(call[c], user)

(* Signed before its user was deactivated. *)
Before(t) == t.age >= since[t.sub]

(* Tokens that will be stored as the browser's. *)
Promised(r) == {t \in Token : /\ r.step = "sent" \/ (r.step = "refreshing" /\ r.answer = "ok")
                              /\ t \in r.tokens}

Aging ==
  /\ \A u \in active : since[u] = 0
  /\ jwt # NoToken => Before(jwt)
  /\ \A t \in Bearers : Before(t)
  /\ \A c \in Calls : \A t \in Promised(call[c]) : Before(t)

SessionInv ==
  /\ TypeOK
  /\ \A c \in Calls : Single(call[c])
  /\ ~mixed => Same
  /\ Aging

(* Redis keeps a token that was signed, unless it was logged out or has     *)
(* expired.                                                                 *)
Known(t) == t \in stored \/ t \in out \/ t.age = RefreshLife

(* A refresh with it is refused, now and later.                             *)
Void(t) == t \in out \/ t.age = RefreshLife \/ t.sub \notin active \/ site.api # TenantOf[t.sub]

Refused(r) == {t \in Token : r.step = "refreshing" /\ r.answer = "401" /\ t \in r.tokens}

Accounted ==
  /\ refreshToken # NoToken => Known(refreshToken)
  /\ \A c \in Calls : /\ \A t \in Promised(call[c]) : Known(t)
                      /\ \A t \in Refused(call[c]) : Void(t)

(* A sign-in accepted for the page it was sent from is of that tenant.      *)
Placed(c) ==
  /\ call[c].step = "sent" /\ call[c].kind = "login" /\ call[c].answer = "ok"
  /\ tab[TabOf[c]].at = "login" /\ tab[TabOf[c]].tenant # NoTenant /\ site.api = NoTenant
  => \A t \in call[c].tokens : TenantOf[t.sub] = tab[TabOf[c]].tenant

ReasonInv == SessionInv /\ Accounted /\ \A c \in Calls : Placed(c)

-----------------------------------------------------------------------------
(* Tokens and calls.                                                        *)

(* A token grows older, by one at most, and stays its subject's.            *)
LEMMA OlderKeeps ==
  ASSUME NEW t \in Token
  PROVE  /\ Older(t) \in Token /\ Older(t).sub = t.sub
         /\ Older(t).age = IF t.age = RefreshLife THEN t.age ELSE t.age + 1
BY SessionsAssumption DEF Older, Token

(* An access token is kept or is gone.                                      *)
LEMMA CookieKeeps ==
  ASSUME NEW t \in Token \cup {NoToken}
  PROVE  /\ Cookie(t) \in {t, NoToken}
         /\ Cookie(t) = Cookie(Cookie(t))
BY DEF Cookie

(* A token just signed is live.                                             *)
LEMMA SignedLives ==
  ASSUME NEW u \in Users
  PROVE  /\ Signed(u) \in Live(Token) /\ Signed(u) \in Token
         /\ Signed(u).sub = u /\ Signed(u).age = 0
BY SessionsAssumption DEF Signed, Live, Token

(* What a call on its way is.                                               *)
LEMMA CallFields ==
  ASSUME NEW r \in Call, r.step # "idle"
  PROVE  /\ r.step \in {"sent", "refreshing"} /\ r.kind \in Kinds
         /\ r.user \in SUBSET Users /\ r.tokens \in SUBSET Token
         /\ r.step = "sent" => r.answer \in {"ok", "401", "403"} /\ r._retry \in BOOLEAN
         /\ r.step = "refreshing" => r.answer \in {"ok", "401"}
BY DEF Call, Idle, Kinds

(* A call that ages changes in its tokens alone.                            *)
LEMMA OlderCallKeeps ==
  ASSUME NEW r \in Call
  PROVE  /\ OlderCall(r) \in Call /\ OlderCall(r).step = r.step
         /\ r.step # "idle" =>
              /\ OlderCall(r).kind = r.kind /\ OlderCall(r).user = r.user
              /\ OlderCall(r).answer = r.answer
              /\ OlderCall(r).tokens = {Older(t) : t \in r.tokens}
<1>1. CASE r = Idle
  BY <1>1 DEF OlderCall, Idle, Call
<1>2. CASE r # Idle
  <2> DEFINE old == {Older(t) : t \in r.tokens}
  <2>1. OlderCall(r) = [r EXCEPT !.tokens = old]
    BY <1>2 DEF OlderCall
  <2>2. r.step # "idle"
    BY <1>2 DEF Call, Idle
  <2>3. old \in SUBSET Token
    BY <2>2, CallFields, OlderKeeps
  <2> HIDE DEF old
  <2>4. [r EXCEPT !.tokens = old] \in Call
    BY <1>2, <2>3 DEF Call
  <2>5. /\ [r EXCEPT !.tokens = old].step = r.step
        /\ [r EXCEPT !.tokens = old].kind = r.kind
        /\ [r EXCEPT !.tokens = old].user = r.user
        /\ [r EXCEPT !.tokens = old].answer = r.answer
        /\ [r EXCEPT !.tokens = old].tokens = old
    BY <1>2 DEF Call
  <2> QED BY <2>1, <2>2, <2>4, <2>5 DEF old
<1> QED BY <1>1, <1>2

(* Guards and handlers give one of three answers.                           *)
LEMMA Answers ==
  ASSUME NEW cookie, NEW t, NEW us
  PROVE  /\ get(cookie, t) \in {"ok", "401", "403"}
         /\ me(cookie, t) \in {"ok", "401", "403"}
         /\ login(us, t) \in {"ok", "401"}
         /\ me(cookie, t) = "ok" => cookie # NoToken
         /\ login(us, t) = "ok" => us \subseteq active
BY DEF Guarded, Accepted, get, me, login, Valid

-----------------------------------------------------------------------------

(* A request, sent for the first time or again, leaves the calls in order:  *)
(* its tokens are of users that are active, and what it says of the user is *)
(* the cookie's.                                                            *)
LEMMA RequestKeeps ==
  ASSUME SessionInv, NEW c \in Calls, NEW kind \in Kinds, NEW us \in SUBSET Users,
         \A u, v \in us : u = v, kind # "login" => us = {},
         NEW retry \in BOOLEAN, NEW cookie \in Token \cup {NoToken},
         Request(c, kind, us, retry, cookie)
  PROVE  /\ stored' \subseteq Live(Token)
         /\ call' \in [Calls -> Call]
         /\ \A d \in Calls \ {c} : call'[d] = call[d]
         /\ \A d \in Calls : Single(call'[d])
         /\ cookie # NoToken => (cookie.sub \in user => SameCall(call'[c], user))
         /\ cookie = NoToken => SameCall(call'[c], user)
         /\ \A t \in call'[c].tokens : t.age = 0 /\ t.sub \in active
         /\ \A t \in stored' : t \in stored \/ (t.age = 0 /\ t.sub \in active)
<1> DEFINE t == Resolved(site.api, Header(TabOf[c]))
           answer == CASE kind = "login" -> login(us, t)
                       [] kind = "me" -> me(cookie, t)
                       [] kind = "get" -> get(cookie, t)
           signed == {Signed(u) : u \in IF answer = "ok" THEN us ELSE {}}
           r == [step |-> "sent", kind |-> kind, _retry |-> retry, answer |-> answer, tokens |-> signed,
                 user |-> IF kind = "me" /\ answer = "ok" THEN {cookie.sub} ELSE us]
<1>1. stored' = stored \cup signed /\ call' = [call EXCEPT ![c] = r]
  BY DEF Request, Store
<1>2. /\ answer \in {"ok", "401", "403"}
      /\ kind = "me" /\ answer = "ok" => cookie # NoToken
      /\ kind = "login" /\ answer = "ok" => us \subseteq active
  BY Answers DEF Kinds
<1> HIDE DEF answer
<1>3. /\ signed \subseteq Live(Token) /\ signed \subseteq Token
      /\ \A s \in signed : s.sub \in us /\ s.age = 0 /\ s.sub \in active
  BY <1>2, SignedLives
<1> HIDE DEF signed
<1>4. r \in Call
  <2>1. (IF kind = "me" /\ answer = "ok" THEN {cookie.sub} ELSE us) \in SUBSET Users
    BY <1>2 DEF Token
  <2> QED BY <1>2, <1>3, <2>1 DEF Call, Kinds
<1>5. Single(r)
  BY <1>3 DEF Single, Kinds
<1>6. /\ r.step = "sent" /\ r.tokens = signed
      /\ r.kind = "me" /\ r.answer = "ok" => cookie # NoToken /\ r.user = {cookie.sub}
  BY <1>2
<1> HIDE DEF r
<1>7. call \in [Calls -> Call] /\ stored \subseteq Live(Token) /\ \A u, v \in user : u = v
  BY DEF SessionInv, TypeOK
<1>8. call' \in [Calls -> Call] /\ call'[c] = r /\ \A d \in Calls \ {c} : call'[d] = call[d]
  BY <1>1, <1>4, <1>7
<1>9. \A d \in Calls : Single(call'[d])
  BY <1>5, <1>8 DEF SessionInv
<1>10. cookie # NoToken /\ cookie.sub \in user => {cookie.sub} = user
  BY <1>7
<1>11. stored' \subseteq Live(Token)
  BY <1>1, <1>3, <1>7
<1>12. /\ cookie # NoToken => (cookie.sub \in user => SameCall(r, user))
       /\ cookie = NoToken => SameCall(r, user)
  BY <1>6, <1>10 DEF SameCall
<1>13. \A s \in stored' : s \in stored \/ (s.age = 0 /\ s.sub \in active)
  BY <1>1, <1>3
<1> QED BY <1>3, <1>6, <1>8, <1>9, <1>11, <1>12, <1>13

-----------------------------------------------------------------------------
(* Steps.                                                                   *)

(* Nothing is gained: calls may end and the refresh token go.               *)
Quiet ==
  /\ \A c \in Calls : call'[c] \in {Idle, call[c]}
  /\ jwt' = jwt /\ refreshToken' \in {refreshToken, NoToken}
  /\ user' = user /\ mixed' = mixed /\ since' = since /\ active' \subseteq active
  /\ Bearers' \subseteq Bearers

(* A quiet step keeps the invariant.                                        *)
LEMMA QuietKeeps ==
  ASSUME SessionInv, TypeOK', Quiet
  PROVE  SessionInv'
<1>1. \A c \in Calls : Single(call'[c])
  BY DEF SessionInv, Quiet, Single, Idle
<1>2. ~mixed => Same'
  <2>1. \A c \in Calls : SameCall(call[c], user) => SameCall(call'[c], user)
    BY DEF Quiet, SameCall, Idle
  <2> QED BY <2>1 DEF SessionInv, Quiet, Same
<1>3. Aging'
  <2>1. \A c \in Calls : Promised(call'[c]) \subseteq Promised(call[c])
    BY DEF Quiet, Promised, Idle
  <2> QED BY <2>1 DEF SessionInv, Quiet, Aging, Before
<1> QED BY <1>1, <1>2, <1>3 DEF SessionInv, Quiet

(* A page that is loaded is a page of the site, its calls are gone.         *)
LEMMA LoadKeeps ==
  ASSUME TypeOK, NEW b \in Tabs, NEW p \in Page, Load(b, p)
  PROVE  /\ tab' \in [Tabs -> Page] /\ call' \in [Calls -> Call]
         /\ \A c \in Calls : call'[c] \in {Idle, call[c]}
<1>1. Idle \in Call
  BY DEF Call
<1> QED BY <1>1 DEF TypeOK, Load

(* The middleware shows a page.                                             *)
LEMMA SeenIsPage ==
  ASSUME NEW p \in Page
  PROVE  Seen(p) \in Page
BY DEF Seen, Login, Page

(* A page is visited: its calls are gone.                                   *)
LEMMA VisitKeeps ==
  ASSUME SessionInv, NEW b \in Tabs, NEW p \in site.pages, Visit(b, p) \/ Navigate(b, p)
  PROVE  SessionInv'
<1>1. p \in Page
  BY ApiClientAssumption DEF SessionInv, TypeOK, Page
<1>2. CASE Visit(b, p)
  BY <1>1, <1>2, SeenIsPage, LoadKeeps, QuietKeeps DEF Visit, SessionInv, TypeOK, Quiet, Bearers, browser
<1>3. CASE Navigate(b, p)
  BY <1>1, <1>3, SeenIsPage, QuietKeeps DEF Navigate, SessionInv, TypeOK, Quiet, Bearers, browser
<1> QED BY <1>2, <1>3

(* Request sent by call c with a cookie that is the browser's after the     *)
(* step.                                                                    *)
LEMMA SentKeeps ==
  ASSUME SessionInv, NEW c \in Calls, NEW kind \in Kinds, NEW us \in SUBSET Users,
         \A u, v \in us : u = v, kind # "login" => us = {},
         NEW retry \in BOOLEAN, NEW cookie \in Token \cup {NoToken},
         Request(c, kind, us, retry, cookie),
         jwt' = cookie, cookie = Cookie(cookie), cookie # NoToken => Before(cookie),
         refreshToken' \in Token \cup {NoToken}, sends' \in 0..MaxSends,
         ~mixed => /\ cookie # NoToken => cookie.sub \in user
                   /\ refreshToken' # NoToken => refreshToken'.sub \in user,
         UNCHANGED <<active, site, user, home, isAuthenticated, tab, mixed, since, out>>
  PROVE  SessionInv'
<1>1. /\ stored' \subseteq Live(Token)
      /\ call' \in [Calls -> Call]
      /\ \A d \in Calls \ {c} : call'[d] = call[d]
      /\ \A d \in Calls : Single(call'[d])
      /\ cookie # NoToken => (cookie.sub \in user => SameCall(call'[c], user))
      /\ cookie = NoToken => SameCall(call'[c], user)
      /\ \A t \in call'[c].tokens : t.age = 0 /\ t.sub \in active
      /\ \A t \in stored' : t \in stored \/ (t.age = 0 /\ t.sub \in active)
  BY RequestKeeps
<1>2. TypeOK'
  BY <1>1 DEF SessionInv, TypeOK
<1>3. ~mixed => Same'
  BY <1>1 DEF SessionInv, Same
<1>4. Aging'
  <2>1. \A u \in active : since[u] = 0
    BY DEF SessionInv, Aging
  <2>2. \A t \in Promised(call'[c]) : Before(t)
    BY <1>1, <2>1 DEF Promised, Before
  <2>3. \A d \in Calls : \A t \in Promised(call'[d]) : Before(t)
    BY <1>1, <2>2 DEF SessionInv, Aging
  <2>4. \A t \in stored' \cup out : Before(t)
    BY <1>1, <2>1 DEF SessionInv, Aging, Bearers, Before
  <2> QED BY <2>1, <2>3, <2>4 DEF Aging, Bearers, Before
<1> QED BY <1>1, <1>2, <1>3, <1>4 DEF SessionInv

(* A request is sent with the cookie there is.                              *)
LEMMA SendKeeps ==
  ASSUME SessionInv, NEW c \in Calls, NEW kind \in Kinds, NEW us \in SUBSET Users,
         \A u, v \in us : u = v, kind # "login" => us = {}, Send(c, kind, us)
  PROVE  SessionInv'
<1>1. /\ jwt \in Token \cup {NoToken} /\ jwt = Cookie(jwt) /\ refreshToken \in Token \cup {NoToken}
      /\ jwt # NoToken => Before(jwt)
      /\ ~mixed => /\ jwt # NoToken => jwt.sub \in user
                   /\ refreshToken # NoToken => refreshToken.sub \in user
  BY DEF SessionInv, TypeOK, Aging, Same
<1>2. sends' \in 0..MaxSends
  BY ApiClientAssumption DEF SessionInv, TypeOK, Send
<1>3. /\ Request(c, kind, us, FALSE, jwt)
      /\ jwt' = jwt /\ refreshToken' = refreshToken
      /\ UNCHANGED <<active, site, user, home, isAuthenticated, tab, mixed, since, out>>
  BY DEF Send, browser
<1> QED BY <1>1, <1>2, <1>3, SentKeeps

(* Of a sign-in everything is the user's, or mixed tells that a call is     *)
(* still on its way.                                                        *)
LEMMA SignedInKeeps ==
  ASSUME SessionInv, NEW c \in Calls, SignedIn(c)
  PROVE  SessionInv'
<1> DEFINE to == Detected(TabOf[c])
<1>1. to \in Tenants
  BY ApiClientAssumption, SessionsAssumption DEF Detected, SessionInv, TypeOK, Page
<1> HIDE DEF to
<1>2. /\ call[c] \in Call /\ call[c].step = "sent" /\ call[c].kind = "login"
      /\ Single(call[c]) /\ \A t \in Promised(call[c]) : Before(t)
  BY DEF SessionInv, TypeOK, SignedIn, Is, Aging
<1>3. PICK token \in call[c].tokens : jwt' = Cookie(token) /\ refreshToken' = token
  BY DEF SignedIn, SaveSession
<1>4. /\ token \in Token /\ call[c].user \in SUBSET Users /\ token.sub \in call[c].user
      /\ \A u, v \in call[c].user : u = v
      /\ Before(token)
  <2>1. call[c].tokens \in SUBSET Token /\ call[c].user \in SUBSET Users
    BY <1>2, CallFields
  <2>2. token \in Promised(call[c])
    BY <1>2, <2>1 DEF Promised
  <2> QED BY <1>2, <2>1, <2>2 DEF Single
<1>5. /\ call' = [call EXCEPT ![c] = Idle] /\ user' = call[c].user
      /\ mixed' = \E d \in Calls \ {c} : call[d] # Idle
      /\ home' = to /\ isAuthenticated' = 0
      /\ tab' = [tab EXCEPT ![TabOf[c]] = [at |-> "dashboard", tenant |-> to]]
      /\ UNCHANGED <<active, stored, site, sends, since, out>>
  BY DEF SignedIn, to
<1>6. jwt' \in {token, NoToken} /\ jwt' = Cookie(jwt')
  BY <1>3, <1>4, CookieKeeps
<1>7. TypeOK'
  <2>1. call' \in [Calls -> Call]
    BY <1>5 DEF SessionInv, TypeOK, Call
  <2>2. tab' \in [Tabs -> Page]
    BY <1>1, <1>5, ApiClientAssumption DEF SessionInv, TypeOK, Page
  <2>3. isAuthenticated' \in 0..AccessLife
    BY <1>5, SessionsAssumption
  <2>4. mixed' \in BOOLEAN
    BY <1>5
  <2>5. /\ jwt' \in Token \cup {NoToken} /\ jwt' = Cookie(jwt')
        /\ refreshToken' \in Token \cup {NoToken}
    BY <1>3, <1>4, <1>6
  <2>6. /\ user' \subseteq Users /\ \A u, v \in user' : u = v
        /\ home' \in Tenants \cup {NoTenant}
    BY <1>1, <1>4, <1>5
  <2> QED BY <1>5, <2>1, <2>2, <2>3, <2>4, <2>5, <2>6 DEF SessionInv, TypeOK
<1>8. \A d \in Calls : call'[d] \in {Idle, call[d]}
  BY <1>5 DEF SessionInv, TypeOK
<1>9. \A d \in Calls : Single(call'[d])
  BY <1>8 DEF SessionInv, Single, Idle
<1>10. ~mixed' => Same'
  <2> SUFFICES ASSUME ~mixed' PROVE Same'
    OBVIOUS
  <2>1. \A d \in Calls : call'[d] = Idle
    BY <1>5 DEF SessionInv, TypeOK
  <2>2. \A d \in Calls : SameCall(call'[d], user')
    BY <2>1 DEF SameCall, Idle
  <2> QED BY <1>3, <1>4, <1>5, <1>6, <2>2 DEF Same
<1>11. Aging'
  <2>1. \A d \in Calls : Promised(call'[d]) \subseteq Promised(call[d])
    BY <1>8 DEF Promised, Idle
  <2> QED BY <1>4, <1>5, <1>6, <2>1 DEF SessionInv, Aging, Bearers, Before
<1> QED BY <1>7, <1>9, <1>10, <1>11 DEF SessionInv

(* What /users/me says of the user is the user's, unless mixed.             *)
LEMMA AnsweredKeeps ==
  ASSUME SessionInv, NEW c \in Calls, Answered(c)
  PROVE  SessionInv'
<1>1. /\ call' = [call EXCEPT ![c] = Idle]
      /\ UNCHANGED <<active, stored, site, jwt, refreshToken, home, isAuthenticated, tab, mixed, sends, since, out>>
  BY DEF Answered
<1>2. /\ call[c] \in Call /\ call[c].step = "sent" /\ Single(call[c])
      /\ call \in [Calls -> Call]
  BY DEF SessionInv, TypeOK, Answered, Is
<1>3. user' = user \/ (Is(c, "me", "ok") /\ user' = call[c].user)
  BY DEF Answered
<1>4. user' \subseteq Users /\ \A u, v \in user' : u = v
  BY <1>2, <1>3, CallFields DEF SessionInv, TypeOK, Single
<1>5. ~mixed => user' = user
  BY <1>3 DEF SessionInv, Same, SameCall, Is
<1>6. call' \in [Calls -> Call] /\ \A d \in Calls : call'[d] \in {Idle, call[d]}
  BY <1>1, <1>2 DEF Call
<1>7. TypeOK'
  BY <1>1, <1>4, <1>6 DEF SessionInv, TypeOK
<1>8. \A d \in Calls : Single(call'[d])
  BY <1>6 DEF SessionInv, Single, Idle
<1>9. ~mixed => Same'
  <2>1. \A d \in Calls : SameCall(call[d], user) => SameCall(call'[d], user)
    BY <1>6 DEF SameCall, Idle
  <2> QED BY <1>1, <1>5, <2>1 DEF SessionInv, Same
<1>10. Aging'
  <2>1. \A d \in Calls : Promised(call'[d]) \subseteq Promised(call[d])
    BY <1>6 DEF Promised, Idle
  <2> QED BY <1>1, <2>1 DEF SessionInv, Aging, Bearers, Before
<1> QED BY <1>1, <1>7, <1>8, <1>9, <1>10 DEF SessionInv

(* What a refresh will bring is of the user whose token was sent, who was   *)
(* active.                                                                  *)
LEMMA RefreshKeeps ==
  ASSUME SessionInv, NEW c \in Calls, Refresh(c)
  PROVE  SessionInv'
<1> DEFINE answer == refresh(refreshToken, Resolved(site.api, NoTenant))
           signed == Signed(refreshToken.sub)
           r == [step |-> "refreshing", kind |-> call[c].kind, user |-> call[c].user, answer |-> answer,
                 tokens |-> IF answer = "ok" THEN {signed} ELSE {refreshToken}]
<1>1. /\ stored' = IF answer = "ok" THEN stored \cup {signed} ELSE stored
      /\ call' = [call EXCEPT ![c] = r]
      /\ UNCHANGED <<active, site, jwt, refreshToken, user, home, isAuthenticated, tab, mixed, sends, since, out>>
  BY DEF Refresh, Store, browser
<1>2. answer \in {"ok", "401"} /\ (answer = "ok" => refreshToken.sub \in active)
  BY DEF refresh, Valid
<1> HIDE DEF answer
<1>3. refreshToken \in Token /\ refreshToken.sub \in Users
  BY DEF SessionInv, TypeOK, Refresh, Token
<1>4. signed \in Live(Token) /\ signed \in Token /\ signed.sub = refreshToken.sub /\ signed.age = 0
  BY <1>3, SignedLives
<1> HIDE DEF signed
<1>5. /\ call[c] \in Call /\ call[c].step = "sent" /\ call[c].answer = "401" /\ Single(call[c])
      /\ call \in [Calls -> Call]
  BY DEF SessionInv, TypeOK, Refresh, Unauthorised
<1>6. call[c].kind \in Kinds /\ call[c].user \in SUBSET Users
  BY <1>5, CallFields
<1>7. r \in Call
  BY <1>2, <1>3, <1>4, <1>6 DEF Call, Kinds
<1>8. Single(r)
  BY <1>5 DEF Single
<1>9. /\ r.step = "refreshing" /\ r.answer = answer
      /\ answer = "ok" => r.tokens = {signed}
  OBVIOUS
<1> HIDE DEF r
<1>10. call' \in [Calls -> Call] /\ call'[c] = r /\ \A d \in Calls \ {c} : call'[d] = call[d]
  BY <1>1, <1>5, <1>7
<1>11. TypeOK'
  BY <1>1, <1>4, <1>10 DEF SessionInv, TypeOK
<1>12. \A d \in Calls : Single(call'[d])
  BY <1>8, <1>10 DEF SessionInv
<1>13. ~mixed => Same'
  <2> SUFFICES ASSUME ~mixed PROVE Same'
    OBVIOUS
  <2>1. refreshToken.sub \in user
    BY <1>3, SessionsAssumption DEF SessionInv, Same
  <2>2. SameCall(r, user)
    BY <1>4, <1>9, <2>1 DEF SameCall
  <2> QED BY <1>1, <1>10, <2>2 DEF SessionInv, Same
<1>14. Aging'
  <2>1. \A u \in active : since[u] = 0
    BY DEF SessionInv, Aging
  <2>2. \A t \in Promised(r) : Before(t)
    BY <1>2, <1>4, <1>9, <2>1 DEF Promised, Before
  <2>3. \A d \in Calls : \A t \in Promised(call'[d]) : Before(t)
    BY <1>10, <2>2 DEF SessionInv, Aging
  <2>4. answer = "ok" => signed.age = 0 /\ signed.sub \in active
    BY <1>2, <1>4
  <2>5. \A t \in stored' \cup out : Before(t)
    BY <1>1, <2>1, <2>4 DEF SessionInv, Aging, Bearers, Before
  <2> QED BY <1>1, <2>1, <2>3, <2>5 DEF SessionInv, Aging, Bearers, Before
<1> QED BY <1>1, <1>11, <1>12, <1>13, <1>14 DEF SessionInv

(* The refreshed token is kept and the request repeated with its cookie.    *)
LEMMA RefreshedKeeps ==
  ASSUME SessionInv, NEW c \in Calls, Refreshed(c)
  PROVE  SessionInv'
<1>1. /\ call[c] \in Call /\ call[c].step = "refreshing" /\ call[c].answer = "ok"
      /\ Single(call[c]) /\ \A t \in Promised(call[c]) : Before(t)
  BY DEF SessionInv, TypeOK, Refreshed, Aging
<1>2. PICK token \in call[c].tokens : jwt' = Cookie(token) /\ refreshToken' = token
  BY DEF Refreshed
<1> DEFINE cookie == Cookie(token)
<1>3. token \in Token /\ Before(token)
  BY <1>1, CallFields DEF Promised
<1>4. cookie \in {token, NoToken} /\ cookie = Cookie(cookie)
  BY <1>3, CookieKeeps
<1>5. /\ call[c].kind \in Kinds /\ call[c].user \in SUBSET Users
      /\ \A u, v \in call[c].user : u = v
      /\ call[c].kind # "login" => call[c].user = {}
  BY <1>1, CallFields DEF Single
<1>6. /\ Request(c, call[c].kind, call[c].user, TRUE, jwt')
      /\ UNCHANGED <<active, site, user, home, isAuthenticated, tab, mixed, sends, since, out>>
  BY DEF Refreshed, Again
<1>7. Request(c, call[c].kind, call[c].user, TRUE, cookie)
  BY <1>2, <1>6 DEF Request
<1>8. ~mixed => token.sub \in user
  BY <1>1 DEF SessionInv, Same, SameCall
<1>9. jwt' = cookie
  BY <1>2
<1> HIDE DEF cookie
<1>10. /\ cookie \in Token \cup {NoToken} /\ (cookie # NoToken => Before(cookie))
       /\ refreshToken' \in Token \cup {NoToken} /\ sends' \in 0..MaxSends
       /\ ~mixed => /\ cookie # NoToken => cookie.sub \in user
                    /\ refreshToken' # NoToken => refreshToken'.sub \in user
  BY <1>2, <1>3, <1>4, <1>6, <1>8 DEF SessionInv, TypeOK
<1> QED BY <1>4, <1>5, <1>6, <1>7, <1>9, <1>10, SentKeeps

(* A call that is given up, with the session or without.                    *)
LEMMA EndedKeeps ==
  ASSUME SessionInv, NEW c \in Calls, Rejected(c) \/ RefreshRefused(c) \/ Lost(c)
  PROVE  SessionInv'
<1>1. CASE /\ call' = [call EXCEPT ![c] = Idle]
           /\ UNCHANGED <<active, stored, site, browser, tab, mixed, sends, since, out>>
  <2>1. call' \in [Calls -> Call] /\ \A d \in Calls : call'[d] \in {Idle, call[d]}
    BY <1>1 DEF SessionInv, TypeOK, Call
  <2>2. TypeOK'
    BY <1>1, <2>1 DEF SessionInv, TypeOK, browser
  <2> QED BY <1>1, <2>1, <2>2, QuietKeeps DEF Quiet, Bearers, browser
<1>2. CASE SignOut(c)
  <2>1. Login \in Page /\ TabOf[c] \in Tabs
    BY ApiClientAssumption DEF Login, Page
  <2>2. /\ tab' \in [Tabs -> Page] /\ call' \in [Calls -> Call]
        /\ \A d \in Calls : call'[d] \in {Idle, call[d]}
    BY <1>2, <2>1, LoadKeeps DEF SignOut, SessionInv
  <2>3. AccessLife \in 0..AccessLife
    BY SessionsAssumption
  <2>4. TypeOK'
    BY <1>2, <2>2, <2>3 DEF SignOut, SessionInv, TypeOK
  <2> QED BY <1>2, <2>2, <2>4, QuietKeeps DEF SignOut, Quiet, Bearers
<1> QED BY <1>1, <1>2 DEF Rejected, RefreshRefused, Lost

(* A token of the browser grows older at least as fast as the time since    *)
(* its user was deactivated.                                                *)
LEMMA OlderStaysBefore ==
  ASSUME SessionInv, NEW t \in Token, Before(t),
         since' = [u \in Users |-> IF u \in active \/ since[u] = RefreshLife THEN since[u] ELSE since[u] + 1]
  PROVE  Older(t).age >= since'[t.sub]
<1>1. t.sub \in Users /\ t.age \in 0..RefreshLife
  BY DEF Token
<1>2. since[t.sub] \in 0..RefreshLife /\ (t.sub \in active => since[t.sub] = 0)
  BY <1>1 DEF SessionInv, TypeOK, Aging
<1>3. since'[t.sub] = IF t.sub \in active \/ since[t.sub] = RefreshLife THEN since[t.sub] ELSE since[t.sub] + 1
  BY <1>1
<1>4. Older(t).age = IF t.age = RefreshLife THEN t.age ELSE t.age + 1
  BY OlderKeeps
<1> QED BY <1>1, <1>2, <1>3, <1>4, SessionsAssumption DEF Before

(* Time passes: tokens and the deactivation age together.                   *)
LEMMA TickKeeps ==
  ASSUME SessionInv, Tick
  PROVE  SessionInv'
<1>1. /\ stored' = Live({Older(t) : t \in stored}) /\ out' = Live({Older(t) : t \in out})
      /\ jwt' = Cookie(Older(jwt)) /\ refreshToken' = Older(refreshToken)
      /\ isAuthenticated' = IF isAuthenticated = AccessLife THEN AccessLife ELSE isAuthenticated + 1
      /\ call' = [c \in Calls |-> OlderCall(call[c])]
      /\ since' = [u \in Users |-> IF u \in active \/ since[u] = RefreshLife THEN since[u] ELSE since[u] + 1]
      /\ UNCHANGED <<active, site, user, home, tab, mixed, sends>>
  BY DEF Tick, Aged
<1>2. TypeOK
  BY DEF SessionInv
<1>3. /\ Older(NoToken) = NoToken /\ Cookie(NoToken) = NoToken
      /\ Older(jwt) \in Token \cup {NoToken} /\ Older(refreshToken) \in Token \cup {NoToken}
  <2>1. Older(NoToken) = NoToken /\ Cookie(NoToken) = NoToken
    BY DEF Older, Cookie
  <2> QED BY <1>2, <2>1, OlderKeeps DEF TypeOK
<1>4. jwt' \in {Older(jwt), NoToken} /\ jwt' = Cookie(jwt')
  BY <1>1, <1>3, CookieKeeps
<1>5. /\ jwt' # NoToken => jwt \in Token /\ jwt' = Older(jwt) /\ jwt'.sub = jwt.sub
      /\ refreshToken' # NoToken => refreshToken \in Token /\ refreshToken'.sub = refreshToken.sub
  BY <1>1, <1>2, <1>3, <1>4, OlderKeeps DEF TypeOK
<1>6. \A c \in Calls : call[c] \in Call /\ call'[c] = OlderCall(call[c])
  BY <1>1, <1>2 DEF TypeOK
<1>7. \A c \in Calls :
        /\ call'[c] \in Call /\ call'[c].step = call[c].step
        /\ call[c].step # "idle" =>
             /\ call'[c].kind = call[c].kind /\ call'[c].user = call[c].user
             /\ call'[c].answer = call[c].answer
             /\ call[c].tokens \subseteq Token
             /\ call'[c].tokens = {Older(t) : t \in call[c].tokens}
  BY <1>6, OlderCallKeeps, CallFields
<1>8. TypeOK'
  <2>1. stored' \subseteq Live(Token) /\ out' \subseteq Token
    BY <1>1, <1>2, OlderKeeps DEF TypeOK, Live
  <2>2. isAuthenticated' \in 0..AccessLife
    BY <1>1, <1>2, SessionsAssumption DEF TypeOK
  <2>3. call' \in [Calls -> Call]
    BY <1>1, <1>7
  <2>4. since' \in [Users -> 0..RefreshLife]
    BY <1>1, <1>2, SessionsAssumption DEF TypeOK
  <2>5. /\ jwt' \in Token \cup {NoToken} /\ jwt' = Cookie(jwt')
        /\ refreshToken' \in Token \cup {NoToken}
    BY <1>1, <1>3, <1>4
  <2> QED BY <1>1, <1>2, <2>1, <2>2, <2>3, <2>4, <2>5 DEF TypeOK
<1>9. \A c \in Calls : Single(call'[c])
  <2> SUFFICES ASSUME NEW c \in Calls, call[c].step # "idle" PROVE Single(call'[c])
    BY <1>7 DEF Single
  <2>1. Single(call[c])
    BY DEF SessionInv
  <2>2. (\A t \in call[c].tokens : t.sub \in call[c].user) => \A t \in call'[c].tokens : t.sub \in call'[c].user
    BY <1>7, OlderKeeps
  <2> QED BY <1>7, <2>1, <2>2 DEF Single
<1>10. ~mixed => Same'
  <2> SUFFICES ASSUME ~mixed PROVE Same'
    OBVIOUS
  <2>1. ASSUME NEW c \in Calls PROVE SameCall(call'[c], user)
    <3>1. SameCall(call[c], user)
      BY DEF SessionInv, Same
    <3>2. CASE call[c].step = "idle"
      BY <1>7, <3>2 DEF SameCall
    <3>3. CASE call[c].step # "idle"
      <4>1. (\A t \in call[c].tokens : t.sub \in user) => \A t \in call'[c].tokens : t.sub \in user
        BY <1>7, <3>3, OlderKeeps
      <4> QED BY <1>7, <3>1, <3>3, <4>1 DEF SameCall
    <3> QED BY <3>2, <3>3
  <2>2. /\ jwt' # NoToken => jwt'.sub \in user
        /\ refreshToken' # NoToken => refreshToken'.sub \in user
    BY <1>5, SessionsAssumption DEF SessionInv, Same
  <2> QED BY <1>1, <2>1, <2>2 DEF Same
<1>11. Aging'
  <2>1. \A u \in active' : since'[u] = 0
    BY <1>1, <1>2 DEF SessionInv, Aging, TypeOK
  <2>2. jwt' # NoToken => Before(jwt)'
    BY <1>1, <1>5, SessionsAssumption, OlderKeeps, OlderStaysBefore DEF SessionInv, Aging, Before
  <2>3. ASSUME NEW c \in Calls, NEW t \in Promised(call'[c]) PROVE t.age >= since'[t.sub]
    <3>1. call[c].step # "idle"
      BY <1>7 DEF Promised
    <3>2. PICK s \in call[c].tokens : t = Older(s)
      BY <1>7, <3>1 DEF Promised
    <3>3. s \in Token /\ s \in Promised(call[c])
      BY <1>7, <3>1, <3>2 DEF Promised
    <3>4. Before(s)
      BY <3>3 DEF SessionInv, Aging
    <3> QED BY <1>1, <3>2, <3>3, <3>4, OlderKeeps, OlderStaysBefore
  <2>4. ASSUME NEW t \in stored' \cup out' PROVE t.age >= since'[t.sub]
    <3>1. PICK s \in stored \cup out : t = Older(s)
      BY <1>1 DEF Live
    <3>2. s \in Token /\ Before(s)
      BY <1>2, <3>1 DEF SessionInv, Aging, Bearers, TypeOK, Live
    <3> QED BY <1>1, <3>1, <3>2, OlderKeeps, OlderStaysBefore
  <2> QED BY <2>1, <2>2, <2>3, <2>4 DEF Aging, Bearers, Before
<1> QED BY <1>1, <1>8, <1>9, <1>10, <1>11 DEF SessionInv

(* A stored token is logged out.                                            *)
LEMMA LogoutKeeps ==
  ASSUME SessionInv, Logout
  PROVE  SessionInv'
<1>1. Idle \in Call /\ sends' \in 0..MaxSends
  BY ApiClientAssumption DEF SessionInv, TypeOK, Logout, Call
<1>2. PICK token \in stored : logout(token) /\ out' = out \cup {token}
  BY DEF Logout
<1>3. stored' \subseteq Live(Token) /\ out' \subseteq Token
  BY <1>2 DEF SessionInv, TypeOK, logout, Live
<1>4. TypeOK'
  BY <1>1, <1>3 DEF SessionInv, TypeOK, Logout, browser
<1> QED BY <1>2, <1>4, QuietKeeps DEF Logout, Quiet, Bearers, logout, browser

(* A user is deactivated: no age is asked of tokens yet.                    *)
LEMMA DisableKeeps ==
  ASSUME SessionInv, Disable
  PROVE  SessionInv'
<1>1. active' \subseteq active
  BY DEF Disable, Deactivate
<1>2. TypeOK'
  BY <1>1 DEF SessionInv, TypeOK, Disable, browser
<1> QED BY <1>1, <1>2, QuietKeeps DEF Disable, Quiet, Bearers, browser

(* The invariant holds at first.                                            *)
LEMMA InitSession == Init => SessionInv
<1> SUFFICES ASSUME Init PROVE SessionInv
  OBVIOUS
<1>1. TypeOK
  <2>1. /\ active \subseteq Users /\ stored \subseteq Live(Token) /\ out \subseteq Token
        /\ user \subseteq Users /\ \A u, v \in user : u = v
    BY DEF Init
  <2>2. jwt \in Token \cup {NoToken} /\ jwt = Cookie(jwt) /\ refreshToken \in Token \cup {NoToken}
    BY DEF Init, Cookie
  <2>3. call \in [Calls -> Call] /\ tab \in [Tabs -> Page]
    BY DEF Init, Call, Page, Login
  <2>4. /\ isAuthenticated \in 0..AccessLife /\ sends \in 0..MaxSends
        /\ since \in [Users -> 0..RefreshLife]
    BY SessionsAssumption, ApiClientAssumption DEF Init
  <2>5. site \in Sites /\ home \in Tenants \cup {NoTenant} /\ mixed \in BOOLEAN
    BY DEF Init
  <2> QED BY <2>1, <2>2, <2>3, <2>4, <2>5 DEF TypeOK
<1>2. \A c \in Calls : call[c] = Idle
  BY DEF Init
<1>3. \A c \in Calls : Single(call[c]) /\ SameCall(call[c], user) /\ Promised(call[c]) = {}
  BY <1>2 DEF Single, SameCall, Promised, Idle
<1> QED BY <1>1, <1>3, SessionsAssumption DEF Init, SessionInv, Same, Aging, Bearers

(* The invariant is inductive.                                              *)
LEMMA NextSession == SessionInv /\ [Next]_vars => SessionInv'
<1> SUFFICES ASSUME SessionInv, [Next]_vars PROVE SessionInv'
  OBVIOUS
<1>1. CASE \E b \in Tabs : \E p \in site.pages : Visit(b, p) \/ Navigate(b, p)
  BY <1>1, VisitKeeps
<1>2. ASSUME NEW c \in Calls,
             Send(c, "me", {}) \/ Send(c, "get", {}) \/ \E u \in Users : Send(c, "login", {u})
      PROVE  SessionInv'
  <2>1. "me" \in Kinds /\ "get" \in Kinds /\ "login" \in Kinds
    BY DEF Kinds
  <2>2. CASE Send(c, "me", {})
    BY <2>1, <2>2, SendKeeps
  <2>3. CASE Send(c, "get", {})
    BY <2>1, <2>3, SendKeeps
  <2>4. ASSUME NEW u \in Users, Send(c, "login", {u}) PROVE SessionInv'
    <3>1. {u} \in SUBSET Users /\ \A v, w \in {u} : v = w
      OBVIOUS
    <3> QED BY <2>1, <2>4, <3>1, SendKeeps
  <2> QED BY <1>2, <2>2, <2>3, <2>4
<1>3. ASSUME NEW c \in Calls, Arrive(c) \/ Lost(c) PROVE SessionInv'
  BY <1>3, SignedInKeeps, AnsweredKeeps, RefreshKeeps, RefreshedKeeps, EndedKeeps DEF Arrive
<1>4. CASE Tick \/ Logout \/ Disable
  BY <1>4, TickKeeps, LogoutKeeps, DisableKeeps
<1>5. CASE UNCHANGED vars
  <2>1. TypeOK'
    BY <1>5 DEF SessionInv, TypeOK, vars
  <2> QED BY <1>5, <2>1, QuietKeeps DEF Quiet, Bearers, vars
<1> QED BY <1>1, <1>2, <1>3, <1>4, <1>5 DEF Next

(* SessionInv holds in every reachable state.                               *)
THEOREM SessionCorrect == Spec => []SessionInv
BY InitSession, NextSession, PTL DEF Spec

(* The browser's storage, cookies and calls keep their types.               *)
THEOREM TypeCorrect == Spec => []TypeOK
<1>1. SessionInv => TypeOK
  BY DEF SessionInv
<1> QED BY <1>1, SessionCorrect, PTL

(* For every number of tabs and calls, and every deployment: cookie,        *)
(* refresh token and the user shown are one person's, unless a sign-in was  *)
(* answered with another call on its way (api.ts:46 to 56).                 *)
THEOREM OneIdentityHolds == Spec => []OneIdentity
<1>1. SessionInv => OneIdentity
  BY DEF SessionInv, TypeOK, Same, OneIdentity
<1> QED BY <1>1, SessionCorrect, PTL

(* For every lifetime of tokens: of whoever was deactivated as long ago as  *)
(* an access token lives none is good, in the browser's cookie or anywhere, *)
(* and as long ago as a refresh token lives no bearer passes the guards     *)
(* (auth.service.ts:38, 39 and 64, jwt.strategy.ts:11 to 28).               *)
THEOREM DeactivationBitesHolds == Spec => []DeactivationBites
<1>1. SessionInv => DeactivationBites
  <2> SUFFICES ASSUME SessionInv, NEW u \in Users \ active, NEW t \in Tenants,
                      NEW token \in Bearers \cup {jwt}, token # NoToken, token.sub = u
               PROVE  /\ since[u] >= AccessLife => Cookie(token) = NoToken
                      /\ since[u] = RefreshLife => getAsBearer(token, t) # "ok"
    BY SessionsAssumption DEF DeactivationBites, SessionInv, TypeOK, Bearers, Live
  <2>1. token.age >= since[u] /\ token.age \in Nat /\ since[u] \in Nat
    BY SessionsAssumption DEF SessionInv, TypeOK, Aging, Before, Bearers, Live, Token
  <2>2. since[u] >= AccessLife => Cookie(token) = NoToken
    BY <2>1, SessionsAssumption DEF Cookie
  <2>3. since[u] = RefreshLife => getAsBearer(token, t) # "ok"
    BY <2>1, SessionsAssumption DEF getAsBearer, Guarded, Accepted
  <2> QED BY <2>2, <2>3
<1> QED BY <1>1, SessionCorrect, PTL

-----------------------------------------------------------------------------
(* Why a session ends, and where a sign-in lands.                           *)

(* What a token is known by is only ever added to or exchanged.             *)
Onward ==
  /\ stored \cup out \subseteq stored' \cup out' /\ out \subseteq out'
  /\ active' \subseteq active /\ site' = site

(* What is known of a token, and what makes it void, stays.                 *)
LEMMA OnwardKeeps ==
  ASSUME Onward, NEW t
  PROVE  (Known(t) => Known(t)') /\ (Void(t) => Void(t)')
BY DEF Onward, Known, Void

(* A step that only ends calls, or keeps a token that is known.             *)
LEMMA FewerAccounted ==
  ASSUME Accounted, Onward,
         \A c \in Calls : call'[c] \in {Idle, call[c]},
         refreshToken' # NoToken => Known(refreshToken')
  PROVE  Accounted'
<1>1. \A c \in Calls : Promised(call'[c]) \subseteq Promised(call[c]) /\ Refused(call'[c]) \subseteq Refused(call[c])
  BY DEF Promised, Refused, Idle
<1>2. refreshToken' # NoToken => Known(refreshToken)'
  <2>1. Known(refreshToken') => refreshToken' \in stored' \cup out' \/ refreshToken'.age = RefreshLife
    BY DEF Known, Onward
  <2> QED BY <2>1 DEF Known
<1>3. \A c \in Calls : \A t \in Promised(call'[c]) : Known(t)'
  BY <1>1, OnwardKeeps DEF Accounted
<1>4. \A c \in Calls : \A t \in Refused(call'[c]) : Void(t)'
  BY <1>1, OnwardKeeps DEF Accounted
<1> QED BY <1>2, <1>3, <1>4 DEF Accounted

(* A step that changes one call.                                            *)
LEMMA OneAccounted ==
  ASSUME Accounted, Onward, NEW c \in Calls,
         \A d \in Calls \ {c} : call'[d] = call[d],
         \A t \in Promised(call'[c]) : Known(t)',
         \A t \in Refused(call'[c]) : Void(t)',
         refreshToken' # NoToken => Known(refreshToken')
  PROVE  Accounted'
<1>1. refreshToken' # NoToken => Known(refreshToken)'
  <2>1. Known(refreshToken') => refreshToken' \in stored' \cup out' \/ refreshToken'.age = RefreshLife
    BY DEF Known, Onward
  <2> QED BY <2>1 DEF Known
<1>2. \A d \in Calls : \A t \in Promised(call'[d]) : Known(t)'
  <2> SUFFICES ASSUME NEW d \in Calls \ {c}, NEW t \in Promised(call'[d]) PROVE Known(t)'
    OBVIOUS
  <2>1. t \in Promised(call[d])
    OBVIOUS
  <2> QED BY <2>1, OnwardKeeps DEF Accounted
<1>3. \A d \in Calls : \A t \in Refused(call'[d]) : Void(t)'
  <2> SUFFICES ASSUME NEW d \in Calls \ {c}, NEW t \in Refused(call'[d]) PROVE Void(t)'
    OBVIOUS
  <2>1. t \in Refused(call[d])
    OBVIOUS
  <2> QED BY <2>1, OnwardKeeps DEF Accounted
<1> QED BY <1>1, <1>2, <1>3 DEF Accounted

(* A request stores what it signs, and a sign-in is accepted for users of   *)
(* the tenant it names.                                                     *)
LEMMA RequestSigns ==
  ASSUME SessionInv, NEW c \in Calls, NEW kind \in Kinds, NEW us \in SUBSET Users,
         NEW retry, NEW cookie, Request(c, kind, us, retry, cookie)
  PROVE  /\ stored \subseteq stored'
         /\ \A d \in Calls \ {c} : call'[d] = call[d]
         /\ call'[c].step = "sent" /\ call'[c].kind = kind
         /\ call'[c].tokens \subseteq stored'
         /\ kind = "login" /\ call'[c].answer = "ok" =>
              \A t \in call'[c].tokens : TenantOf[t.sub] = Resolved(site.api, Header(TabOf[c]))
<1> DEFINE t == Resolved(site.api, Header(TabOf[c]))
           answer == CASE kind = "login" -> login(us, t)
                       [] kind = "me" -> me(cookie, t)
                       [] kind = "get" -> get(cookie, t)
           signed == {Signed(u) : u \in IF answer = "ok" THEN us ELSE {}}
           r == [step |-> "sent", kind |-> kind, _retry |-> retry, answer |-> answer, tokens |-> signed,
                 user |-> IF kind = "me" /\ answer = "ok" THEN {cookie.sub} ELSE us]
<1>1. stored' = stored \cup signed /\ call' = [call EXCEPT ![c] = r]
  BY DEF Request, Store
<1>2. kind = "login" /\ answer = "ok" => \A u \in us : TenantOf[u] = t
  BY DEF login, Valid
<1> HIDE DEF answer
<1>3. kind = "login" /\ answer = "ok" => \A s \in signed : TenantOf[s.sub] = t
  BY <1>2 DEF Signed
<1> HIDE DEF signed
<1>4. r.step = "sent" /\ r.kind = kind /\ r.answer = answer /\ r.tokens = signed
  OBVIOUS
<1> HIDE DEF r
<1>5. call'[c] = r /\ \A d \in Calls \ {c} : call'[d] = call[d]
  BY <1>1 DEF SessionInv, TypeOK
<1> QED BY <1>1, <1>3, <1>4, <1>5

(* Where a request is sent, nobody is placed wrongly.                       *)
LEMMA RequestPlaces ==
  ASSUME ReasonInv, NEW c \in Calls, NEW kind \in Kinds, NEW us \in SUBSET Users,
         NEW retry, NEW cookie, Request(c, kind, us, retry, cookie), UNCHANGED <<tab, site>>
  PROVE  \A d \in Calls : Placed(d)'
<1>1. SessionInv /\ \A d \in Calls : Placed(d)
  BY DEF ReasonInv
<1>2. /\ \A d \in Calls \ {c} : call'[d] = call[d]
      /\ call'[c].kind = kind
      /\ kind = "login" /\ call'[c].answer = "ok" =>
           \A t \in call'[c].tokens : TenantOf[t.sub] = Resolved(site.api, Header(TabOf[c]))
  BY <1>1, RequestSigns
<1>3. ASSUME NEW d \in Calls \ {c} PROVE Placed(d)'
  BY <1>1, <1>2, <1>3 DEF Placed
<1>4. Placed(c)'
  BY <1>2 DEF Placed, Resolved, Header
<1> QED BY <1>3, <1>4

(* Pages change, and calls only end.                                        *)
LEMMA FewerPlaced ==
  ASSUME ReasonInv, site' = site,
         \A c \in Calls : \/ call'[c] = Idle
                          \/ call'[c] = call[c] /\ tab'[TabOf[c]] = tab[TabOf[c]]
                          \/ tab'[TabOf[c]].at = "dashboard"
                          \/ tab'[TabOf[c]] = Login
  PROVE  \A c \in Calls : Placed(c)'
BY DEF ReasonInv, Placed, Idle, Login

(* Calls end, and with them perhaps the session.                            *)
LEMMA EndedReasons ==
  ASSUME ReasonInv, SessionInv', UNCHANGED <<active, stored, site, out>>,
         refreshToken' \in {refreshToken, NoToken},
         \A c \in Calls : \/ call'[c] = Idle
                          \/ call'[c] = call[c] /\ tab'[TabOf[c]] \in {tab[TabOf[c]], Login}
                          \/ call'[c] = call[c] /\ tab'[TabOf[c]].at = "dashboard"
  PROVE  ReasonInv'
<1>1. Accounted'
  BY FewerAccounted DEF ReasonInv, Accounted, Onward
<1>2. \A c \in Calls : Placed(c)'
  BY FewerPlaced
<1> QED BY <1>1, <1>2 DEF ReasonInv

(* A page is visited, or moved to.                                          *)
LEMMA VisitReasons ==
  ASSUME ReasonInv, SessionInv', NEW b \in Tabs, NEW p \in site.pages, Visit(b, p) \/ Navigate(b, p)
  PROVE  ReasonInv'
<1>1. TypeOK
  BY DEF ReasonInv, SessionInv
<1>2. CASE Visit(b, p)
  <2>1. \A c \in Calls : call'[c] = Idle \/ (call'[c] = call[c] /\ tab'[TabOf[c]] = tab[TabOf[c]])
    BY <1>1, <1>2, ApiClientAssumption DEF Visit, Load, TypeOK
  <2> QED BY <1>2, <2>1, EndedReasons DEF Visit, browser
<1>3. CASE Navigate(b, p)
  <2>1. Seen(p) = Login \/ Seen(p).at = "dashboard"
    BY <1>3 DEF Navigate, Seen
  <2>2. \A c \in Calls : tab'[TabOf[c]] \in {tab[TabOf[c]], Seen(p)}
    BY <1>1, <1>3, ApiClientAssumption DEF Navigate, TypeOK
  <2> QED BY <1>3, <2>1, <2>2, EndedReasons DEF Navigate, browser
<1> QED BY <1>2, <1>3

(* A request is sent, for the first time or with a token that is known.     *)
LEMMA SentReasons ==
  ASSUME ReasonInv, SessionInv', NEW c \in Calls, NEW kind \in Kinds, NEW us \in SUBSET Users,
         NEW retry, NEW cookie, Request(c, kind, us, retry, cookie),
         UNCHANGED <<active, site, tab, out>>,
         refreshToken' # NoToken => Known(refreshToken')
  PROVE  ReasonInv'
<1>1. SessionInv /\ Accounted
  BY DEF ReasonInv
<1>2. /\ stored \subseteq stored'
      /\ \A d \in Calls \ {c} : call'[d] = call[d]
      /\ call'[c].step = "sent" /\ call'[c].tokens \subseteq stored'
  BY <1>1, RequestSigns
<1>3. \A t \in Promised(call'[c]) : Known(t)'
  BY <1>2 DEF Promised, Known
<1>4. Refused(call'[c]) = {}
  BY <1>2 DEF Refused
<1>5. Onward
  BY <1>2 DEF Onward
<1>6. Accounted'
  BY <1>1, <1>2, <1>3, <1>4, <1>5, OneAccounted
<1>7. \A d \in Calls : Placed(d)'
  BY RequestPlaces
<1> QED BY <1>6, <1>7 DEF ReasonInv

(* The token a refresh brings is known.                                     *)
LEMMA RefreshedReasons ==
  ASSUME ReasonInv, SessionInv', NEW c \in Calls, Refreshed(c)
  PROVE  ReasonInv'
<1>1. /\ call[c] \in Call /\ call[c].step = "refreshing" /\ call[c].answer = "ok"
      /\ \A t \in Promised(call[c]) : Known(t)
  BY DEF ReasonInv, SessionInv, TypeOK, Refreshed, Accounted
<1>2. PICK token \in call[c].tokens : refreshToken' = token
  BY DEF Refreshed
<1>3. call[c].kind \in Kinds /\ call[c].user \in SUBSET Users /\ token \in Promised(call[c])
  BY <1>1, <1>2, CallFields DEF Promised
<1>4. Request(c, call[c].kind, call[c].user, TRUE, jwt')
  BY DEF Refreshed, Again
<1>5. Known(refreshToken') /\ UNCHANGED <<active, site, tab, out>>
  BY <1>1, <1>2, <1>3 DEF Refreshed
<1> QED BY <1>3, <1>4, <1>5, SentReasons

(* So is the token a sign-in brings, which leads to a page of the           *)
(* dashboard.                                                               *)
LEMMA SignedInReasons ==
  ASSUME ReasonInv, SessionInv', NEW c \in Calls, SignedIn(c)
  PROVE  ReasonInv'
<1>1. /\ call \in [Calls -> Call] /\ tab \in [Tabs -> Page] /\ TabOf \in [Calls -> Tabs]
      /\ call[c].step = "sent" /\ \A t \in Promised(call[c]) : Known(t)
  BY ApiClientAssumption DEF ReasonInv, SessionInv, TypeOK, SignedIn, Is, Accounted
<1>2. PICK token \in call[c].tokens : refreshToken' = token
  BY DEF SignedIn, SaveSession
<1>3. Known(refreshToken')
  BY <1>1, <1>2, CallFields DEF Promised
<1>4. /\ UNCHANGED <<active, stored, site, out>>
      /\ call' = [call EXCEPT ![c] = Idle]
      /\ \E to : tab' = [tab EXCEPT ![TabOf[c]] = [at |-> "dashboard", tenant |-> to]]
  BY DEF SignedIn
<1>5. \A d \in Calls : call'[d] \in {Idle, call[d]}
  BY <1>1, <1>4
<1>6. Accounted'
  BY <1>3, <1>4, <1>5, FewerAccounted DEF ReasonInv, Onward
<1>7. \A d \in Calls : tab'[TabOf[d]] = tab[TabOf[d]] \/ tab'[TabOf[d]].at = "dashboard"
  BY <1>1, <1>4
<1>8. \A d \in Calls : Placed(d)'
  BY <1>4, <1>5, <1>7, FewerPlaced
<1> QED BY <1>6, <1>8 DEF ReasonInv

(* A refresh is refused only for a token that is void.                      *)
LEMMA RefreshReasons ==
  ASSUME ReasonInv, SessionInv', NEW c \in Calls, Refresh(c)
  PROVE  ReasonInv'
<1> DEFINE answer == refresh(refreshToken, Resolved(site.api, NoTenant))
           signed == {Signed(refreshToken.sub)}
           r == [step |-> "refreshing", kind |-> call[c].kind, user |-> call[c].user, answer |-> answer,
                 tokens |-> IF answer = "ok" THEN signed ELSE {refreshToken}]
<1>1. /\ stored' = IF answer = "ok" THEN stored \cup signed ELSE stored
      /\ call' = [call EXCEPT ![c] = r]
      /\ refreshToken # NoToken
      /\ UNCHANGED <<active, site, refreshToken, tab, out>>
  BY DEF Refresh, Store, browser
<1>2. answer = "401" => refreshToken \notin stored \/ ~Valid(refreshToken.sub, Resolved(site.api, NoTenant))
  BY DEF refresh
<1>3. Known(refreshToken)
  BY <1>1 DEF ReasonInv, Accounted
<1>4. answer = "401" => Void(refreshToken)
  BY <1>2, <1>3 DEF Known, Void, Valid, Resolved
<1>5. answer \in {"ok", "401"}
  BY DEF refresh
<1> HIDE DEF answer, signed
<1>6. /\ r.step = "refreshing" /\ r.answer = answer
      /\ answer = "ok" => r.tokens \subseteq stored'
      /\ answer = "401" => r.tokens = {refreshToken}
  BY <1>1
<1> HIDE DEF r
<1>7. call'[c] = r /\ \A d \in Calls \ {c} : call'[d] = call[d]
  BY <1>1 DEF ReasonInv, SessionInv, TypeOK
<1>8. \A t \in Promised(call'[c]) : Known(t)'
  BY <1>6, <1>7 DEF Promised, Known
<1>9. \A t \in Refused(call'[c]) : Void(t)'
  BY <1>1, <1>4, <1>6, <1>7 DEF Refused, Void
<1>10. Onward
  BY <1>1 DEF Onward
<1>11. Accounted'
  BY <1>1, <1>3, <1>7, <1>8, <1>9, <1>10, OneAccounted DEF ReasonInv
<1>12. \A d \in Calls : Placed(d)'
  <2>1. ASSUME NEW d \in Calls \ {c} PROVE Placed(d)'
    BY <1>1, <1>7 DEF ReasonInv, Placed
  <2>2. Placed(c)'
    BY <1>6, <1>7 DEF Placed
  <2> QED BY <2>1, <2>2
<1> QED BY <1>11, <1>12 DEF ReasonInv

(* What is known of a token, and what makes it void, ages with it.          *)
LEMMA TickKnown ==
  ASSUME SessionInv, Tick, NEW t \in Token
  PROVE  /\ Known(t) => (Older(t) \in stored' \/ Older(t) \in out' \/ Older(t).age = RefreshLife)
         /\ Void(t) => (\/ Older(t) \in out' \/ Older(t).age = RefreshLife
                        \/ Older(t).sub \notin active' \/ site'.api # TenantOf[Older(t).sub])
<1>1. /\ stored' = Live({Older(s) : s \in stored}) /\ out' = Live({Older(s) : s \in out})
      /\ active' = active /\ site' = site
  BY DEF Tick, Aged
<1>2. /\ Older(t) \in Token /\ Older(t).sub = t.sub
      /\ Older(t).age = IF t.age = RefreshLife THEN t.age ELSE t.age + 1
  BY OlderKeeps
<1>3. Older(t).age = RefreshLife \/ Older(t).age < RefreshLife
  BY <1>2, SessionsAssumption DEF Token
<1>4. ASSUME NEW set, t \in set PROVE Older(t) \in Live({Older(s) : s \in set}) \/ Older(t).age = RefreshLife
  BY <1>3, <1>4 DEF Live
<1> QED BY <1>1, <1>2, <1>4 DEF Known, Void

(* Time passes.                                                             *)
LEMMA TickReasons ==
  ASSUME ReasonInv, SessionInv', Tick
  PROVE  ReasonInv'
<1>1. SessionInv /\ TypeOK
  BY DEF ReasonInv, SessionInv
<1>2. /\ refreshToken' = Older(refreshToken) /\ Older(NoToken) = NoToken
      /\ tab' = tab /\ site' = site
      /\ call' = [c \in Calls |-> OlderCall(call[c])]
  BY DEF Tick, Older
<1>3. \A c \in Calls :
        /\ call'[c].step = call[c].step
        /\ call[c].step # "idle" =>
             /\ call'[c].kind = call[c].kind /\ call'[c].answer = call[c].answer
             /\ call[c].tokens \subseteq Token
             /\ call'[c].tokens = {Older(t) : t \in call[c].tokens}
  <2>1. \A c \in Calls : call[c] \in Call /\ call'[c] = OlderCall(call[c])
    BY <1>1, <1>2 DEF TypeOK
  <2> QED BY <2>1, OlderCallKeeps, CallFields
<1>4. refreshToken' # NoToken => Known(refreshToken)'
  <2>1. refreshToken' # NoToken => refreshToken \in Token /\ Known(refreshToken)
    BY <1>1, <1>2 DEF TypeOK, ReasonInv, Accounted
  <2> QED BY <1>1, <1>2, <2>1, TickKnown DEF Known
<1>5. ASSUME NEW c \in Calls, NEW t \in Promised(call'[c]) PROVE Known(t)'
  <2>1. PICK s \in call[c].tokens : t = Older(s)
    BY <1>3 DEF Promised
  <2>2. s \in Token /\ s \in Promised(call[c])
    BY <1>3 DEF Promised
  <2> QED BY <1>1, <2>1, <2>2, TickKnown DEF Known, ReasonInv, Accounted
<1>6. ASSUME NEW c \in Calls, NEW t \in Refused(call'[c]) PROVE Void(t)'
  <2>1. PICK s \in call[c].tokens : t = Older(s)
    BY <1>3 DEF Refused
  <2>2. s \in Token /\ s \in Refused(call[c])
    BY <1>3 DEF Refused
  <2> QED BY <1>1, <2>1, <2>2, TickKnown DEF Void, ReasonInv, Accounted
<1>7. Accounted'
  BY <1>4, <1>5, <1>6 DEF Accounted
<1>8. ASSUME NEW c \in Calls PROVE Placed(c)'
  <2>1. Placed(c)
    BY DEF ReasonInv
  <2>2. (\A t \in call[c].tokens : TenantOf[t.sub] = tab[TabOf[c]].tenant) /\ call[c].step # "idle"
          => \A t \in call'[c].tokens : TenantOf[t.sub] = tab[TabOf[c]].tenant
    BY <1>3, OlderKeeps
  <2> QED BY <1>2, <1>3, <2>1, <2>2 DEF Placed
<1> QED BY <1>7, <1>8 DEF ReasonInv

(* A token that is logged out is known as such; whoever is deactivated      *)
(* makes tokens void.                                                       *)
LEMMA ServerReasons ==
  ASSUME ReasonInv, SessionInv', Logout \/ Disable
  PROVE  ReasonInv'
<1>1. Onward /\ UNCHANGED <<site, tab, call, refreshToken>>
  BY DEF Logout, logout, Disable, Deactivate, Onward, browser
<1>2. Accounted'
  BY <1>1, FewerAccounted DEF ReasonInv, Accounted
<1>3. \A c \in Calls : Placed(c)'
  BY <1>1, FewerPlaced
<1> QED BY <1>2, <1>3 DEF ReasonInv

(* A session that ends signs out in one tab.                                *)
LEMMA SignOutReasons ==
  ASSUME ReasonInv, SessionInv', NEW c \in Calls, SignOut(c)
  PROVE  ReasonInv'
<1>1. /\ call' = [d \in Calls |-> IF TabOf[d] = TabOf[c] THEN Idle ELSE call[d]]
      /\ tab' = [tab EXCEPT ![TabOf[c]] = Login]
      /\ tab \in [Tabs -> Page] /\ TabOf \in [Calls -> Tabs]
  BY ApiClientAssumption DEF SignOut, Load, ReasonInv, SessionInv, TypeOK
<1>2. \A d \in Calls : call'[d] = Idle \/ (call'[d] = call[d] /\ tab'[TabOf[d]] = tab[TabOf[d]])
  BY <1>1
<1> QED BY <1>2, EndedReasons DEF SignOut

(* A call ends, answered or not.                                            *)
LEMMA OverReasons ==
  ASSUME ReasonInv, SessionInv', NEW c \in Calls, Answered(c) \/ Rejected(c) \/ RefreshRefused(c) \/ Lost(c)
  PROVE  ReasonInv'
<1>1. CASE /\ call' = [call EXCEPT ![c] = Idle]
           /\ UNCHANGED <<active, stored, site, refreshToken, tab, out>>
  <2>1. \A d \in Calls : call'[d] = Idle \/ call'[d] = call[d]
    BY <1>1 DEF ReasonInv, SessionInv, TypeOK
  <2> QED BY <1>1, <2>1, EndedReasons
<1>2. CASE SignOut(c)
  BY <1>2, SignOutReasons
<1> QED BY <1>1, <1>2 DEF Answered, Rejected, RefreshRefused, Lost, browser

(* The invariant holds at first.                                            *)
LEMMA InitReason == Init => ReasonInv
<1> SUFFICES ASSUME Init PROVE ReasonInv
  OBVIOUS
<1>1. \A c \in Calls : call[c] = Idle
  BY DEF Init
<1>2. Accounted
  BY <1>1 DEF Init, Accounted, Promised, Refused, Idle
<1>3. \A c \in Calls : Placed(c)
  BY <1>1 DEF Placed, Idle
<1> QED BY <1>2, <1>3, InitSession DEF ReasonInv

(* The invariant is inductive.                                              *)
LEMMA NextReason == ReasonInv /\ [Next]_vars => ReasonInv'
<1> SUFFICES ASSUME ReasonInv, [Next]_vars PROVE ReasonInv'
  OBVIOUS
<1>1. SessionInv'
  BY NextSession DEF ReasonInv
<1>2. CASE \E b \in Tabs : \E p \in site.pages : Visit(b, p) \/ Navigate(b, p)
  BY <1>1, <1>2, VisitReasons
<1>3. ASSUME NEW c \in Calls, NEW kind \in Kinds, NEW us \in SUBSET Users, Send(c, kind, us) PROVE ReasonInv'
  <2>1. /\ Request(c, kind, us, FALSE, jwt)
        /\ UNCHANGED <<active, site, refreshToken, tab, out>>
    BY <1>3 DEF Send, browser
  <2> QED BY <1>1, <2>1, SentReasons DEF ReasonInv, Accounted
<1>4. CASE \E c \in Calls : Send(c, "me", {}) \/ Send(c, "get", {}) \/ \E u \in Users : Send(c, "login", {u})
  <2>1. /\ "me" \in Kinds /\ "get" \in Kinds /\ "login" \in Kinds
        /\ {} \in SUBSET Users /\ \A u \in Users : {u} \in SUBSET Users
    BY DEF Kinds
  <2>2. \A c \in Calls : Send(c, "me", {}) \/ Send(c, "get", {}) => ReasonInv'
    BY <1>3, <2>1
  <2>3. \A c \in Calls : \A u \in Users : Send(c, "login", {u}) => ReasonInv'
    BY <1>3, <2>1
  <2> QED BY <1>4, <2>2, <2>3
<1>5. ASSUME NEW c \in Calls, Arrive(c) \/ Lost(c) PROVE ReasonInv'
  BY <1>1, <1>5, SignedInReasons, OverReasons, RefreshReasons, RefreshedReasons DEF Arrive
<1>6. CASE Tick
  BY <1>1, <1>6, TickReasons
<1>7. CASE Logout \/ Disable
  BY <1>1, <1>7, ServerReasons
<1>8. CASE UNCHANGED vars
  BY <1>1, <1>8, EndedReasons DEF vars
<1> QED BY <1>2, <1>4, <1>5, <1>6, <1>7, <1>8 DEF Next

(* ReasonInv holds in every reachable state.                                *)
THEOREM ReasonCorrect == Spec => []ReasonInv
BY InitReason, NextReason, PTL DEF Spec

(* Only two steps take the refresh token away, both of a call that is       *)
(* refreshing.                                                              *)
LEMMA EndsWhileRefreshing ==
  ASSUME ReasonInv, [Next]_vars, refreshToken # NoToken, refreshToken' = NoToken
  PROVE  \E c \in Calls : call[c].step = "refreshing"
<1>1. CASE \E b \in Tabs : \E p \in site.pages : Visit(b, p) \/ Navigate(b, p)
  BY <1>1 DEF Visit, Navigate, browser
<1>2. ASSUME NEW c \in Calls, NEW kind, NEW us, Send(c, kind, us) PROVE FALSE
  BY <1>2 DEF Send, browser
<1>3. ASSUME NEW c \in Calls, SignedIn(c) \/ Refreshed(c) PROVE FALSE
  <2>1. call[c].tokens \in SUBSET Token
    BY <1>3, CallFields DEF SignedIn, Is, Refreshed, ReasonInv, SessionInv, TypeOK
  <2>2. refreshToken' \in call[c].tokens
    BY <1>3 DEF SignedIn, SaveSession, Refreshed
  <2> QED BY <2>1, <2>2, SessionsAssumption
<1>4. ASSUME NEW c \in Calls, Answered(c) \/ Rejected(c) \/ Refresh(c) PROVE FALSE
  BY <1>4 DEF Answered, Rejected, Refresh, browser
<1>5. ASSUME NEW c \in Calls, RefreshRefused(c) \/ Lost(c) PROVE call[c].step = "refreshing"
  BY <1>5 DEF RefreshRefused, Lost, browser
<1>6. CASE Tick
  <2>1. refreshToken \in Token /\ refreshToken' = Older(refreshToken)
    BY <1>6 DEF Tick, ReasonInv, SessionInv, TypeOK
  <2> QED BY <2>1, OlderKeeps, SessionsAssumption
<1>7. CASE Logout \/ Disable \/ UNCHANGED vars
  BY <1>7 DEF Logout, Disable, vars, browser
<1> QED BY <1>1, <1>2, <1>3, <1>4, <1>5, <1>6, <1>7 DEF Next, Arrive

(* For every number of tabs and calls, and however requests, refreshes,     *)
(* logouts and deactivations cross: the browser gives a session up only     *)
(* when a refresh went unanswered or was refused for good, or for a token   *)
(* that is no longer the browser's (api.ts:58 to 65).                       *)
THEOREM SessionEndsForAReasonHolds == Spec => SessionEndsForAReason
<1>1. ASSUME ReasonInv, [Next]_vars, refreshToken # NoToken, refreshToken' = NoToken
      PROVE  \E c \in Calls :
               /\ call[c].step = "refreshing"
               /\ \/ call[c].answer = "ok"
                  \/ refreshToken \notin call[c].tokens
                  \/ refreshToken \notin stored \/ refreshToken.sub \notin active
                  \/ site.api # TenantOf[refreshToken.sub]
                  \/ refreshToken \in out
  <2>1. PICK c \in Calls : call[c].step = "refreshing"
    BY <1>1, EndsWhileRefreshing
  <2>2. call[c].answer \in {"ok", "401"} /\ refreshToken \in Token /\ stored \subseteq Live(Token)
    BY <1>1, <2>1, CallFields DEF ReasonInv, SessionInv, TypeOK
  <2>3. call[c].answer = "401" /\ refreshToken \in call[c].tokens => Void(refreshToken)
    BY <1>1, <2>1, <2>2 DEF ReasonInv, Accounted, Refused
  <2>4. refreshToken.age = RefreshLife => refreshToken \notin stored
    BY <2>2, SessionsAssumption DEF Live
  <2> QED BY <2>1, <2>2, <2>3, <2>4 DEF Void
<1> QED BY <1>1, ReasonCorrect, PTL DEF Spec, SessionEndsForAReason

(* For every set of tenants, users, tabs and calls: whoever signs in on the *)
(* page of a tenant lands there, and it is the user's own                   *)
(* (login/page.tsx:78 to 83, api.ts:11 to 23).                              *)
THEOREM LandsInOwnTenantHolds == Spec => LandsInOwnTenant
<1>1. ASSUME ReasonInv, [Next]_vars, NEW b \in Tabs,
             tab[b].at = "login", tab[b].tenant # NoTenant, site.api = NoTenant,
             tab'[b].at = "dashboard", refreshToken' # refreshToken
      PROVE  tab'[b].tenant = TenantOf[refreshToken'.sub] /\ home' = tab'[b].tenant
  <2>1. PICK c \in Calls : SignedIn(c)
    <3>1. tab' # tab
      BY <1>1
    <3>2. \A d \in Calls : SignOut(d) => tab'[b] \in {tab[b], Login}
      BY ApiClientAssumption DEF SignOut, Load, ReasonInv, SessionInv, TypeOK
    <3>3. ~ \E d \in Calls : RefreshRefused(d) \/ Lost(d)
      BY <1>1, <3>1, <3>2 DEF RefreshRefused, Lost, Login
    <3>4. ~ \E p \in site.pages : \E d \in Tabs : Visit(d, p) \/ Navigate(d, p)
      BY <1>1 DEF Visit, Navigate, browser
    <3>5. \A d \in Calls : ~Answered(d) /\ ~Rejected(d) /\ ~Refresh(d) /\ ~Refreshed(d)
      BY <3>1 DEF Answered, Rejected, Refresh, Refreshed
    <3>6. \A d \in Calls : \A kind, us : ~Send(d, kind, us)
      BY <3>1 DEF Send
    <3>7. ~Tick /\ ~Logout /\ ~Disable /\ ~UNCHANGED vars
      BY <3>1 DEF Tick, Logout, Disable, vars
    <3> QED BY <1>1, <3>3, <3>4, <3>5, <3>6, <3>7 DEF Next, Arrive
  <2>2. tab \in [Tabs -> Page] /\ TabOf[c] \in Tabs
    BY <1>1, ApiClientAssumption DEF ReasonInv, SessionInv, TypeOK
  <2>3. /\ call[c].step = "sent" /\ call[c].kind = "login" /\ call[c].answer = "ok"
        /\ refreshToken' \in call[c].tokens
        /\ home' = Detected(TabOf[c])
        /\ tab' = [tab EXCEPT ![TabOf[c]] = [at |-> "dashboard", tenant |-> Detected(TabOf[c])]]
    BY <2>1 DEF SignedIn, SaveSession, Is
  <2>4. b = TabOf[c]
    BY <1>1, <2>2, <2>3
  <2>5. Detected(b) = tab[b].tenant
    BY <1>1 DEF Detected
  <2>6. \A t \in call[c].tokens : TenantOf[t.sub] = tab[b].tenant
    BY <1>1, <2>3, <2>4 DEF ReasonInv, Placed
  <2> QED BY <2>2, <2>3, <2>4, <2>5, <2>6
<1>2. ReasonInv /\ [Next]_vars =>
        [\A b \in Tabs :
           tab[b].at = "login" /\ tab[b].tenant # NoTenant /\ site.api = NoTenant
             /\ tab'[b].at = "dashboard" /\ refreshToken' # refreshToken
           => tab'[b].tenant = TenantOf[refreshToken'.sub] /\ home' = tab'[b].tenant]_vars
  BY <1>1
<1> QED BY <1>2, ReasonCorrect, PTL DEF Spec, LandsInOwnTenant
=============================================================================
