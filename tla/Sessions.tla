------------------------------ MODULE Sessions ------------------------------
(***************************************************************************)
(* AuthService (src/auth/auth.service.ts) and the routes of                *)
(* auth.controller.ts: signing in, refreshing and signing out over the     *)
(* refresh tokens kept in Redis.  A token is its subject and its age, in   *)
(* steps of Tick: two tokens signed for one user at one time are equal, as *)
(* JWTs with the same claims are.                                          *)
(***************************************************************************)
EXTENDS Integers, FiniteSets

CONSTANTS
  Tenants, Users,
  TenantOf,     \* the tenant of a user
  Supers,       \* super admins
  NoTenant, NoToken,
  AccessLife,   \* 15 minutes, in ticks
  RefreshLife   \* 7 days, in ticks

Token == [sub : Users, age : 0..RefreshLife]

ASSUME SessionsAssumption ==
  /\ TenantOf \in [Users -> Tenants] /\ Supers \subseteq Users
  /\ NoTenant \notin Tenants /\ NoToken \notin Token
  /\ AccessLife \in Nat \ {0} /\ RefreshLife \in Nat /\ RefreshLife >= AccessLife

VARIABLES
  active,   \* users whose isActive is set
  stored    \* the refreshtoken keys of Redis

Signed(u) == [sub |-> u, age |-> 0]

Older(token) ==
  IF token = NoToken \/ token.age = RefreshLife THEN token
  ELSE [token EXCEPT !.age = @ + 1]

(* The cookie jwt: it and the access token in it last 15 minutes. *)
Cookie(token) == IF token # NoToken /\ token.age < AccessLife THEN token ELSE NoToken

(* JwtStrategy, for the cookie and for what Authorization brings: a refresh *)
(* token is signed with the same secret, and neither its kind, Redis nor    *)
(* isActive is asked.                                                       *)
Accepted(token) == token # NoToken /\ token.age < RefreshLife

Live(tokens) == {t \in tokens : t.age < RefreshLife}

(* TenantMiddleware: the host, then the header; NoTenant is refused. *)
Resolved(host, header) == IF host # NoTenant THEN host ELSE header

(* Mutant of Valid: without isActive. *)
Found(u, t) == TenantOf[u] = t

(* A user is found by e-mail or id in the tenant resolved, and is active. *)
Valid(u, t) == TenantOf[u] = t /\ u \in active

(* JwtAuthGuard and TenantMatchGuard; supers are those whose token says so. *)
Guarded(token, supers, t) ==
  CASE t = NoTenant \/ ~Accepted(token) -> "401"
    [] t # NoTenant /\ Accepted(token) /\ TenantOf[token.sub] # t /\ token.sub \notin supers -> "403"
    [] OTHER -> "ok"

(* With an access token, which carries the role; with a refresh token.     *)
get(cookie, t) == Guarded(cookie, Supers, t)
getAsBearer(token, t) == Guarded(token, {}, t)

me(cookie, t) ==
  IF get(cookie, t) = "ok" /\ ~Valid(cookie.sub, t) THEN "401" ELSE get(cookie, t)

login(us, t) == IF \A u \in us : Valid(u, t) THEN "ok" ELSE "401"

(* Mutant of refresh: the user is not looked up. *)
refreshUnseen(token, t) ==
  IF token \in stored /\ TenantOf[token.sub] = t THEN "ok" ELSE "401"

refresh(token, t) == IF token \in stored /\ Valid(token.sub, t) THEN "ok" ELSE "401"

(* Refresh tokens are signed and stored; those stored before stay.          *)
Store(tokens) == stored' = stored \cup tokens

(* logout, by whoever holds a token: no page calls it. *)
logout(token) == token \in stored /\ stored' = stored \ {token}

(* A user is deactivated in MongoDB. *)
Deactivate(u) == u \in active /\ active' = active \ {u}

(* Mutant of Aged: without EX. *)
AgedForever == stored' = {Older(t) : t \in stored}

Aged == stored' = Live({Older(t) : t \in stored})
=============================================================================
