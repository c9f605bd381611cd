----------------------------- MODULE ApiClient ------------------------------
(***************************************************************************)
(* A browser's tabs against the server of Sessions: the interceptors of    *)
(* frontend/src/lib/api.ts, login/page.tsx, the middleware that guards     *)
(* pages and the layout's syncUser.  Storage and cookies are shared by the *)
(* tabs.  The server answers a request when it is sent, the answer may     *)
(* arrive at any time, or never.                                           *)
(***************************************************************************)
EXTENDS Sessions

CONSTANTS
  Tabs, Calls,
  TabOf,      \* the tab of a call
  Platform,   \* the tenant "platform"
  Sites,      \* deployments: the tenant the API's host names, that the pages'
              \* subdomain names, and the pages there are bookmarks of
  Leavers,    \* bound: the users that are deactivated
  MaxSends    \* bound: requests the user or a page starts

ASSUME ApiClientAssumption ==
  /\ TabOf \in [Calls -> Tabs] /\ Platform \in Tenants
  /\ Sites \subseteq [api : Tenants \cup {NoTenant}, sub : Tenants \cup {NoTenant},
                      pages : SUBSET [at : {"login", "dashboard"}, tenant : Tenants \cup {NoTenant}]]
  /\ Leavers \subseteq Users /\ MaxSends \in Nat

VARIABLES
  site,
  jwt,            \* cookie of the API
  refreshToken,   \* localStorage
  user,           \* localStorage, {} or {u}
  home,           \* localStorage.tenantId
  isAuthenticated,\* age of the cookie pages look at; AccessLife: it is gone
  tab,            \* page and ?tenant of each tab
  call,           \* requests on their way
  mixed,          \* history: the last sign-in was answered with another call on its way
  sends,          \* history: how many requests there were
  since,          \* history: ticks since a user was deactivated
  out             \* history: tokens logged out

browser == <<jwt, refreshToken, user, home, isAuthenticated>>
vars == <<active, stored, site, jwt, refreshToken, user, home, isAuthenticated, tab, call, mixed, sends, since, out>>

Idle == [step |-> "idle"]

Call ==
  {Idle} \cup
  [step : {"sent"}, kind : {"login", "me", "get"}, user : SUBSET Users, _retry : BOOLEAN,
   answer : {"ok", "401", "403"}, tokens : SUBSET Token] \cup
  [step : {"refreshing"}, kind : {"login", "me", "get"}, user : SUBSET Users,
   answer : {"ok", "401"}, tokens : SUBSET Token]

Page == [at : {"login", "dashboard"}, tenant : Tenants \cup {NoTenant}]
Login == [at |-> "login", tenant |-> NoTenant]

TypeOK ==
  /\ active \subseteq Users /\ stored \subseteq Live(Token)
  /\ site \in Sites
  /\ jwt \in Token \cup {NoToken} /\ jwt = Cookie(jwt)
  /\ refreshToken \in Token \cup {NoToken}
  /\ user \subseteq Users /\ \A u, v \in user : u = v
  /\ home \in Tenants \cup {NoTenant}
  /\ isAuthenticated \in 0..AccessLife
  /\ tab \in [Tabs -> Page]
  /\ call \in [Calls -> Call]
  /\ mixed \in BOOLEAN /\ sends \in 0..MaxSends
  /\ since \in [Users -> 0..RefreshLife] /\ out \subseteq Token

Init ==
  /\ active = Users /\ stored = {}
  /\ site \in Sites
  /\ jwt = NoToken /\ refreshToken = NoToken
  /\ user = {} /\ home = NoTenant
  /\ isAuthenticated = AccessLife
  /\ tab = [b \in Tabs |-> Login]
  /\ call = [c \in Calls |-> Idle]
  /\ mixed = FALSE /\ sends = 0
  /\ since = [u \in Users |-> 0] /\ out = {}

-----------------------------------------------------------------------------
(* Pages.                                                                   *)

(* What the middleware of the pages lets b see when it goes to p. *)
Seen(p) == IF p.at = "login" \/ isAuthenticated < AccessLife THEN p ELSE Login

(* A page is loaded: the calls of the tab are forgotten. *)
Load(b, p) ==
  /\ tab' = [tab EXCEPT ![b] = p]
  /\ call' = [c \in Calls |-> IF TabOf[c] = b THEN Idle ELSE call[c]]

Visit(b, p) ==
  /\ Load(b, Seen(p))
  /\ UNCHANGED <<active, stored, site, browser, mixed, sends, since, out>>

(* router.push and router.replace keep the calls. *)
Navigate(b, p) ==
  /\ tab[b].at = "dashboard" /\ p.at = "dashboard"
  /\ tab' = [tab EXCEPT ![b] = Seen(p)]
  /\ UNCHANGED <<active, stored, site, browser, call, mixed, sends, since, out>>

-----------------------------------------------------------------------------
(* Requests.                                                                *)

(* Mutant of Header: localStorage first. *)
HeaderStored(b) == IF home # NoTenant THEN home ELSE tab[b].tenant

Header(b) == IF tab[b].tenant # NoTenant THEN tab[b].tenant ELSE home

(* The call is sent (again): us sign in, or cookie speaks for it.           *)
Request(c, kind, us, retry, cookie) ==
  LET t == Resolved(site.api, Header(TabOf[c]))
      answer == CASE kind = "login" -> login(us, t)
                  [] kind = "me" -> me(cookie, t)
                  [] kind = "get" -> get(cookie, t)
      signed == {Signed(u) : u \in IF answer = "ok" THEN us ELSE {}}
  IN /\ Store(signed)
     /\ call' = [call EXCEPT ![c] =
          [step |-> "sent", kind |-> kind, _retry |-> retry, answer |-> answer, tokens |-> signed,
           user |-> IF kind = "me" /\ answer = "ok" THEN {cookie.sub} ELSE us]]

(* One of us fills in the login page, a page of the dashboard asks.         *)
Send(c, kind, us) ==
  /\ call[c] = Idle /\ sends < MaxSends
  /\ sends' = sends + 1
  /\ tab[TabOf[c]].at = IF kind = "login" THEN "login" ELSE "dashboard"
  /\ Request(c, kind, us, FALSE, jwt)
  /\ UNCHANGED <<active, site, browser, tab, mixed, since, out>>

Is(c, kind, answer) == call[c].step = "sent" /\ call[c].kind = kind /\ call[c].answer = answer

(* The tenant the login page detects. *)
Detected(b) ==
  CASE tab[b].tenant # NoTenant -> tab[b].tenant
    [] tab[b].tenant = NoTenant /\ site.sub # NoTenant -> site.sub
    [] OTHER -> Platform

(* Mutant of SaveSession: the refresh token of a former session stays. *)
SaveSessionOnce(token) ==
  refreshToken' = IF refreshToken = NoToken THEN token ELSE refreshToken

SaveSession(token) == refreshToken' = token

SignedIn(c) ==
  LET b == TabOf[c]  to == Detected(b) IN
  /\ Is(c, "login", "ok")
  /\ \E token \in call[c].tokens : jwt' = Cookie(token) /\ SaveSession(token)
  /\ user' = call[c].user
  /\ home' = to
  /\ isAuthenticated' = 0
  /\ tab' = [tab EXCEPT ![b] = [at |-> "dashboard", tenant |-> to]]
  /\ call' = [call EXCEPT ![c] = Idle]
  /\ mixed' = \E d \in Calls \ {c} : call[d] # Idle
  /\ UNCHANGED <<active, stored, site, sends, since, out>>

(* syncUser stores what it is told; other answers are shown. *)
Answered(c) ==
  /\ Is(c, "me", "ok") \/ Is(c, "get", "ok") \/ \E k \in {"me", "get"} : Is(c, k, "403")
  /\ user' = IF Is(c, "me", "ok") THEN call[c].user ELSE user
  /\ call' = [call EXCEPT ![c] = Idle]
  /\ UNCHANGED <<active, stored, site, jwt, refreshToken, home, isAuthenticated, tab, mixed, sends, since, out>>

Unauthorised(c) == call[c].step = "sent" /\ call[c].answer = "401"

(* The session is over, the page with it. *)
SignOut(c) ==
  /\ refreshToken' = NoToken
  /\ isAuthenticated' = AccessLife
  /\ Load(TabOf[c], Login)
  /\ UNCHANGED <<active, stored, site, jwt, user, home, mixed, sends, since, out>>

(* Mutant of Rejected: the repeated request fails inside the try. *)
RejectedInside(c) ==
  /\ Unauthorised(c)
  /\ \/ call[c]._retry /\ SignOut(c)
     \/ /\ ~call[c]._retry /\ refreshToken = NoToken
        /\ call' = [call EXCEPT ![c] = Idle]
        /\ UNCHANGED <<active, stored, site, browser, tab, mixed, sends, since, out>>

(* The second 401 of a request, or one without a session to refresh. *)
Rejected(c) ==
  /\ Unauthorised(c) /\ (call[c]._retry \/ refreshToken = NoToken)
  /\ call' = [call EXCEPT ![c] = Idle]
  /\ UNCHANGED <<active, stored, site, browser, tab, mixed, sends, since, out>>

(* The refresh goes out without X-Tenant-ID: it is not sent by api.  tokens *)
(* is what the answer brings, or what was refused.                          *)
Refresh(c) ==
  /\ Unauthorised(c) /\ ~call[c]._retry /\ refreshToken # NoToken
  /\ LET answer == refresh(refreshToken, Resolved(site.api, NoTenant))
         signed == {Signed(refreshToken.sub)}
     IN /\ IF answer = "ok" THEN Store(signed) ELSE UNCHANGED stored
        /\ call' = [call EXCEPT ![c] =
             [step |-> "refreshing", kind |-> call[c].kind, user |-> call[c].user, answer |-> answer,
              tokens |-> IF answer = "ok" THEN signed ELSE {refreshToken}]]
  /\ UNCHANGED <<active, site, browser, tab, mixed, sends, since, out>>

(* Mutant of Again: the request is not marked. *)
AgainUnmarked(c, cookie) == Request(c, call[c].kind, call[c].user, FALSE, cookie)

(* The original request once more. *)
Again(c, cookie) == Request(c, call[c].kind, call[c].user, TRUE, cookie)

Refreshed(c) ==
  /\ call[c].step = "refreshing" /\ call[c].answer = "ok"
  /\ \E token \in call[c].tokens : jwt' = Cookie(token) /\ refreshToken' = token
  /\ Again(c, jwt')
  /\ UNCHANGED <<active, site, user, home, isAuthenticated, tab, mixed, sends, since, out>>

RefreshRefused(c) ==
  /\ call[c].step = "refreshing" /\ call[c].answer = "401"
  /\ SignOut(c)

(* No answer comes: the request fails, or the refresh. *)
Lost(c) ==
  \/ /\ call[c].step = "sent"
     /\ call' = [call EXCEPT ![c] = Idle]
     /\ UNCHANGED <<active, stored, site, browser, tab, mixed, sends, since, out>>
  \/ call[c].step = "refreshing" /\ SignOut(c)

Arrive(c) == SignedIn(c) \/ Answered(c) \/ Rejected(c) \/ Refresh(c) \/ Refreshed(c) \/ RefreshRefused(c)

-----------------------------------------------------------------------------
(* Time and the server.                                                     *)

OlderCall(r) == IF r = Idle THEN r ELSE [r EXCEPT !.tokens = {Older(t) : t \in @}]

Tick ==
  /\ Aged
  /\ jwt' = Cookie(Older(jwt))
  /\ refreshToken' = Older(refreshToken)
  /\ isAuthenticated' = IF isAuthenticated = AccessLife THEN AccessLife ELSE isAuthenticated + 1
  /\ call' = [c \in Calls |-> OlderCall(call[c])]
  /\ since' = [u \in Users |-> IF u \in active \/ since[u] = RefreshLife THEN since[u] ELSE since[u] + 1]
  /\ out' = Live({Older(t) : t \in out})
  /\ UNCHANGED <<active, site, user, home, tab, mixed, sends>>

(* Somebody sends a token to the route for it; no page does. *)
Logout ==
  /\ sends < MaxSends /\ sends' = sends + 1
  /\ \E token \in stored : logout(token) /\ out' = out \cup {token}
  /\ UNCHANGED <<active, site, browser, tab, call, mixed, since>>

Disable ==
  /\ \E u \in Leavers : Deactivate(u)
  /\ UNCHANGED <<stored, site, browser, tab, call, mixed, sends, since, out>>

Next ==
  \/ \E b \in Tabs : \E p \in site.pages : Visit(b, p) \/ Navigate(b, p)
  \/ \E c \in Calls : \/ Send(c, "me", {}) \/ Send(c, "get", {})
                      \/ \E u \in Users : Send(c, "login", {u})
                      \/ Arrive(c) \/ Lost(c)
  \/ Tick \/ Logout \/ Disable

(* What waits for an answer gets one or is given up. *)
Spec ==
  /\ Init /\ [][Next]_vars
  /\ \A c \in Calls : WF_vars(Arrive(c))

-----------------------------------------------------------------------------

(* Cookie, refresh token and the user shown are the same person's, whatever *)
(* refreshes and sign-ins of the tabs cross; only a sign-in answered with   *)
(* another request on its way may mix them (api.ts:46 to 56, login/page.tsx: *)
(* 71 to 76).                                                               *)
OneIdentity ==
  ~mixed => /\ jwt # NoToken /\ refreshToken # NoToken => jwt.sub = refreshToken.sub
            /\ jwt # NoToken /\ user # {} => user = {jwt.sub}
            /\ refreshToken # NoToken /\ user # {} => user = {refreshToken.sub}

(* The session is given up only when a refresh went unanswered, the token   *)
(* or its user is no longer good, the API's host names another tenant or    *)
(* none, or another call has renewed the token meanwhile (or signed the     *)
(* very same one again after a logout): a request that fails again after    *)
(* the refresh does not end it (api.ts:58 to 65).                           *)
SessionEndsForAReason ==
  [][refreshToken # NoToken /\ refreshToken' = NoToken =>
       \E c \in Calls :
         /\ call[c].step = "refreshing"
         /\ \/ call[c].answer = "ok"
            \/ refreshToken \notin call[c].tokens
            \/ refreshToken \notin stored \/ refreshToken.sub \notin active
            \/ site.api # TenantOf[refreshToken.sub]
            \/ refreshToken \in out]_vars

(* Whoever signs in on the page of a tenant lands in that tenant, and it is *)
(* the user's own, whatever an earlier session has left in localStorage     *)
(* (login/page.tsx:78 to 83, api.ts:11 to 23).                              *)
LandsInOwnTenant ==
  [][\A b \in Tabs :
       tab[b].at = "login" /\ tab[b].tenant # NoTenant /\ site.api = NoTenant
         /\ tab'[b].at = "dashboard" /\ refreshToken' # refreshToken
       => tab'[b].tenant = TenantOf[refreshToken'.sub] /\ home' = tab'[b].tenant]_vars

(* Every request ends: no chain of refreshes and repetitions goes on for    *)
(* ever (api.ts:35).                                                        *)
AnsweredEventually == (\E c \in Calls : call[c] # Idle) ~> (\A c \in Calls : call[c] = Idle)

(* What can be shown as Authorization: Bearer, by whoever has it: a refresh *)
(* token until it expires, logged out or not.                               *)
Bearers == stored \cup out

(* A deactivation takes effect only as tokens expire, but then it does,     *)
(* whatever is on its way and however often the browser refreshes: after 15 *)
(* minutes no access token of the user is good, in the browser or anywhere, *)
(* and after 7 days no refresh token is, which until then passes the guards *)
(* as a bearer (auth.service.ts:38, 39 and 64, jwt.strategy.ts:11 to 28).   *)
DeactivationBites ==
  \A u \in Users \ active, t \in Tenants :
    /\ since[u] >= AccessLife =>
         \A token \in Bearers \cup {jwt} : token # NoToken /\ token.sub = u => Cookie(token) = NoToken
    /\ since[u] = RefreshLife =>
         \A token \in Bearers : token.sub = u => getAsBearer(token, t) # "ok"
=============================================================================
