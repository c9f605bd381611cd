--------------------------- MODULE TenantRequest ---------------------------
(***************************************************************************)
(* How a request gets its tenant and what it may then touch:               *)
(* TenantMiddleware (src/tenant/tenant.middleware.ts), which asks for the  *)
(* tenant of the host, the X-Tenant-ID header and the bearer token in that *)
(* order, one await each; the guards of app.module.ts; and the queries of  *)
(* BaseTenantRepository (src/common/repositories).  Tenants are edited     *)
(* meanwhile and lookups may be answered from the cache, that is, with any *)
(* earlier state of the tenant (TenantCache says for how long).            *)
(***************************************************************************)
EXTENDS Integers, FiniteSets

CONSTANTS
  Tenants,
  Names, Slugs,  \* slugs and custom domains; slugs
  NoName,     \* a host without tenant, such as localhost; an absent header
  Platform,   \* the slug 'platform'
  Bare,       \* the platform's own domain as host
  Hosts,      \* hosts requests are for: names, Bare, NoName
  InitialDoc, InitialPast,  \* tenants, and what may be cached of them, at the start
  Users, TenantOf, Role,    \* user documents: tenantId and role
  SignedIn,   \* users that hold tokens at the start
  NoToken,    \* nobody is signed in, or it is not known yet
  Records,    \* ids of wallets, payments and ledger entries
  Absent,     \* no record with this id
  Requests,
  Routes,     \* the handlers requests may be for
  MaxEdits    \* bound: edits of tenants

Roles == {"USER", "TENANT_ADMIN", "SUPER_ADMIN"}
AdminRoutes == {"change"}                                 \* PATCH, DELETE, POST /wallets
Writing == {"create", "change"}

Found == [of: Tenants, active: BOOLEAN]
Doc == [names: SUBSET Names, active: BOOLEAN, live: BOOLEAN]

(* The unique indexes on slug and customDomain. *)
NamesUnique(d) == \A t, u \in Tenants : t # u => d[t].names \cap d[u].names = {}

ASSUME TenantRequestAssumption ==
  /\ Platform \in Slugs /\ Slugs \subseteq Names
  /\ NoName \notin Names /\ Bare \notin Names
  /\ Names \cap Tenants = {} /\ Hosts \subseteq Names \cup {NoName, Bare}
  /\ TenantOf \in [Users -> Tenants] /\ Role \in [Users -> Roles]
  /\ SignedIn \subseteq Users
  /\ Routes \subseteq {"login", "me", "read"} \cup Writing
  /\ Absent \notin Tenants /\ Users \cap Records = {}
  /\ InitialDoc \in [Tenants -> Doc] /\ NamesUnique(InitialDoc)
  /\ InitialPast \in [Names \cup Tenants -> SUBSET Found]
  /\ MaxEdits \in Nat

VARIABLES
  doc,     \* doc[t]: the tenant's document
  past,    \* past[k]: what a lookup by k may have cached
  edits,   \* how many edits there were
  issued,  \* tokens that were handed out
  record,  \* record[d]: the tenantId of record d
  req      \* req[r]: a request on its way

vars == <<doc, past, edits, issued, record, req>>

Nobody == [of |-> Absent, active |-> FALSE]
Token == [sub: Users, tenantId: Tenants, role: Roles \cup {"undefined"}]

(* An access token and a refresh token, which has no role but is signed     *)
(* with the same secret: JwtStrategy takes either.                          *)
TokensFor(u) ==
  {[sub |-> u, tenantId |-> TenantOf[u], role |-> role] : role \in {Role[u], "undefined"}}

New == [pc |-> "new"]
Refused == [pc |-> "refused"]
Request ==
  [pc: {"host", "header", "bearer", "guards", "serve", "done"},
   route: Routes, host: Hosts,
   token: Token \cup {NoToken},          \* request.user, which the guards set
   ctx: Found \cup {Nobody},             \* TenantContextService
   touched: SUBSET (Records \cup Users), \* documents read or written
   by: {"", "host", "header", "bearer"}, \* what named the tenant
   cached: BOOLEAN,                      \* history: by an answer that was no longer true
   unnamed: BOOLEAN,                     \* history: the host named nobody at some time
   closed: SUBSET Tenants]               \* history: inactive or deleted all the time

TypeOK ==
  /\ doc \in [Tenants -> Doc]
  /\ past \in [Names \cup Tenants -> SUBSET Found]
  /\ edits \in 0..MaxEdits
  /\ issued \subseteq Token
  /\ record \in [Records -> Tenants \cup {Absent}]
  /\ req \in [Requests -> Request \cup {New, Refused}]

Open(r) == req[r] \notin {New, Refused}

Init ==
  /\ doc = InitialDoc
  /\ past = InitialPast
  /\ edits = 0
  /\ issued = UNION {TokensFor(u) : u \in SignedIn}
  /\ record \in [Records -> Tenants \cup {Absent}]
  /\ req = [r \in Requests |-> New]

-----------------------------------------------------------------------------
(* tenants *)

(* findBySlug and findByCustomDomain for a name, findById for a tenant. *)
Query(k) ==
  {[of |-> t, active |-> doc[t].active] :
     t \in {t \in Tenants : doc[t].live /\ k \in doc[t].names \cup {t}}}

Lookup(k) == Query(k) \cup past[k] \cup (IF Query(k) = {} THEN {Nobody} ELSE {})

HostKey(host) == IF host = Bare THEN Platform ELSE host

(* Hosts that name no tenant, as the comment of resolveFromSubdomain (line  *)
(* 84) has it: Bare is one, although HostKey finds a tenant for it.         *)
Nameless == {host \in Hosts : host \in {NoName, Bare} \/ Query(host) = {}}

Closed == {t \in Tenants : ~(doc[t].live /\ doc[t].active)}

(* A tenant is created by a super admin (TenantService.create), or renamed, *)
(* deactivated, deleted in the database.                                    *)
Edit(t) ==
  /\ edits < MaxEdits
  /\ \E d \in Doc : doc' = [doc EXCEPT ![t] = d]
  /\ NamesUnique(doc')
  /\ past' = [k \in Names \cup Tenants |-> past[k] \cup Query(k)]
  /\ edits' = edits + 1
  /\ req' = [r \in Requests |->
       IF ~Open(r) THEN req[r]
       ELSE [req[r] EXCEPT !.unnamed = @ \/ req[r].host \in Nameless', !.closed = @ \cap Closed']]
  /\ UNCHANGED <<issued, record>>

-----------------------------------------------------------------------------
(* the middleware *)

Become(r, q) == req' = [req EXCEPT ![r] = q]
GoOn(r, label) ==
  Become(r, IF label = "refused" THEN Refused ELSE [req[r] EXCEPT !.pc = label])

Arrive(r) ==
  /\ req[r] = New
  /\ \E route \in Routes, host \in Hosts :
       Become(r, [pc |-> "host", route |-> route, host |-> host, token |-> NoToken,
                  ctx |-> Nobody, touched |-> {}, by |-> "",
                  cached |-> FALSE, unnamed |-> host \in Nameless, closed |-> Closed])
  /\ UNCHANGED <<doc, past, edits, issued, record>>

(* Mutants of Admit: isActive is not looked at; TenantContextService is one *)
(* object for all requests.                                                 *)
AdmitInactive(r, k, found, by) ==
  Become(r, [req[r] EXCEPT !.pc = "guards", !.ctx = found, !.by = by,
                           !.cached = found \notin Query(k)])
AdmitShared(r, k, found, by) ==
  req' = [s \in Requests |->
    IF s = r
      THEN IF ~found.active THEN Refused
           ELSE [req[r] EXCEPT !.pc = "guards", !.ctx = found, !.by = by,
                               !.cached = found \notin Query(k)]
      ELSE IF Open(s) /\ found.active THEN [req[s] EXCEPT !.ctx = found] ELSE req[s]]

(* The tenant found under key k is r's, if it is active. *)
Admit(r, k, found, by) ==
  IF found.active
    THEN Become(r, [req[r] EXCEPT !.pc = "guards", !.ctx = found, !.by = by,
                                  !.cached = found \notin Query(k)])
    ELSE Become(r, Refused)

(* A lookup by key k answers: go on with the tenant, or ask the next source. *)
Ask(r, k, by, next) ==
  \E found \in Lookup(k) :
    IF found = Nobody THEN GoOn(r, next) ELSE Admit(r, k, found, by)

(* Mutant of ResolveHost: the header comes before the host. *)
ResolveHostAfterHeader(r) ==
  /\ req[r].pc = "host"
  /\ \/ \E slug \in Slugs : Ask(r, slug, "header", "header")
     \/ IF req[r].host = NoName THEN GoOn(r, "header")
        ELSE Ask(r, HostKey(req[r].host), "host", "header")
  /\ UNCHANGED <<doc, past, edits, issued, record>>

ResolveHost(r) ==
  /\ req[r].pc = "host"
  /\ IF req[r].host = NoName THEN GoOn(r, "header")
     ELSE Ask(r, HostKey(req[r].host), "host", "header")
  /\ UNCHANGED <<doc, past, edits, issued, record>>

(* Any header, or none, which was there from the start, is looked at now. *)
ResolveHeader(r) ==
  /\ req[r].pc = "header"
  /\ \/ GoOn(r, "bearer")
     \/ \E slug \in Slugs : Ask(r, slug, "header", "bearer")
  /\ UNCHANGED <<doc, past, edits, issued, record>>

(* The bearer is decoded, not verified: it may claim any tenant, or none. *)
ResolveBearer(r) ==
  /\ req[r].pc = "bearer"
  /\ \/ Become(r, Refused)
     \/ \E tenantId \in Tenants : Ask(r, tenantId, "bearer", "refused")
  /\ UNCHANGED <<doc, past, edits, issued, record>>

-----------------------------------------------------------------------------
(* the guards *)

(* TenantMatchGuard *)
Matches(user, ctx) == user.role = "SUPER_ADMIN" \/ user.tenantId = ctx.of

(* RolesGuard *)
MayUse(user, route) == route \in AdminRoutes => user.role \notin {"USER", "undefined"}

(* JwtAuthGuard verifies the token of the cookie, or without a cookie the   *)
(* bearer, so that it need not be the one the middleware decoded.           *)
Guard(r) ==
  /\ req[r].pc = "guards"
  /\ \/ /\ req[r].route = "login"                   \* @Public
        /\ Become(r, [req[r] EXCEPT !.pc = "serve"])
     \/ /\ req[r].route # "login"
        /\ \E user \in issued :
             /\ Matches(user, req[r].ctx) /\ MayUse(user, req[r].route)
             /\ Become(r, [req[r] EXCEPT !.pc = "serve", !.token = user])
     \/ /\ req[r].route # "login"                   \* one of them refuses, or RateLimitGuard
        /\ Become(r, Refused)
  /\ UNCHANGED <<doc, past, edits, issued, record>>

-----------------------------------------------------------------------------
(* the handler's queries, in any number and order its route makes *)

Touch(r, docs) == Become(r, [req[r] EXCEPT !.touched = @ \cup docs])

(* { ...filter, tenantId: this.tenantId }, of find, findOne and the updates. *)
Scoped(r) == {d \in Records : record[d] = req[r].ctx.of}

Find(r) ==
  /\ req[r].pc = "serve" /\ req[r].route \in {"read"} \cup Writing
  /\ \E docs \in SUBSET Scoped(r) : Touch(r, docs)
  /\ UNCHANGED <<doc, past, edits, issued, record>>

(* Mutant of Create: the dto is spread over tenantId, and may bring a slug. *)
CreateFromDto(r) ==
  /\ req[r].pc = "serve" /\ req[r].route \in Writing
  /\ \E d \in Records, tenantId \in Names :
       /\ record[d] = Absent
       /\ record' = [record EXCEPT ![d] = tenantId]
       /\ Touch(r, {d})
  /\ UNCHANGED <<doc, past, edits, issued>>

(* Whatever tenantId the dto has, the context's is stored. *)
Create(r) ==
  /\ req[r].pc = "serve" /\ req[r].route \in Writing
  /\ \E d \in Records :
       /\ record[d] = Absent
       /\ record' = [record EXCEPT ![d] = req[r].ctx.of]
       /\ Touch(r, {d})
  /\ UNCHANGED <<doc, past, edits, issued>>

(* findByIdAndUpdate, findOneAndUpdate, softDelete: one document or none. *)
Update(r) ==
  /\ req[r].pc = "serve" /\ req[r].route \in Writing
  /\ \E d \in Scoped(r) : Touch(r, {d})
  /\ UNCHANGED <<doc, past, edits, issued, record>>

(* POST /auth/login (and refresh): findByEmail (and findById), in the       *)
(* tenant the request was resolved to.                                      *)
Login(r) ==
  /\ req[r].pc = "serve" /\ req[r].route = "login"
  /\ \E u \in Users :
       /\ TenantOf[u] = req[r].ctx.of
       /\ issued' = issued \cup TokensFor(u)
       /\ Become(r, [req[r] EXCEPT !.pc = "done", !.touched = {u}])
  /\ UNCHANGED <<doc, past, edits, record>>

(* GET /auth/me: findById, in the tenant of the request; a super admin of   *)
(* another tenant is not found.                                             *)
Me(r) ==
  /\ req[r].pc = "serve" /\ req[r].route = "me"
  /\ LET u == req[r].token.sub IN
       IF TenantOf[u] = req[r].ctx.of
         THEN Become(r, [req[r] EXCEPT !.pc = "done", !.touched = {u}])
         ELSE Become(r, Refused)
  /\ UNCHANGED <<doc, past, edits, issued, record>>

(* The handler answers, or throws. *)
Answer(r) ==
  /\ req[r].pc = "serve"
  /\ Become(r, [req[r] EXCEPT !.pc = "done"])
  /\ UNCHANGED <<doc, past, edits, issued, record>>

Handle(r) ==
  \/ Arrive(r) \/ ResolveHost(r) \/ ResolveHeader(r) \/ ResolveBearer(r) \/ Guard(r)
  \/ Find(r) \/ Create(r) \/ Update(r) \/ Login(r) \/ Me(r) \/ Answer(r)

Next == (\E r \in Requests : Handle(r)) \/ (\E t \in Tenants : Edit(t))

Spec == Init /\ [][Next]_vars

-----------------------------------------------------------------------------

Owner(d) == IF d \in Users THEN TenantOf[d] ELSE record[d]
LetIn(r) == req[r].pc \in {"serve", "done"}

(* A request reads and writes documents of the tenant it was resolved to    *)
(* only, and that is the tenant of the signed-in user unless the user is a  *)
(* super admin: whatever names moved to other tenants meanwhile, whatever   *)
(* the cache answered, whatever tenant an unverified bearer claims and      *)
(* whichever kind of token the guard verifies.                              *)
Isolation ==
  \A r \in Requests : Open(r) =>
    \A d \in req[r].touched :
      /\ Owner(d) = req[r].ctx.of
      /\ req[r].route # "login" =>
           LET u == req[r].token.sub IN
             Role[u] = "SUPER_ADMIN" \/ TenantOf[u] = Owner(d)

(* "Inactive tenants are rejected at the gate" (tenant.middleware.ts line   *)
(* 65): a request is not let in for a tenant that was inactive or deleted   *)
(* from its arrival on, unless the cache still had the tenant's earlier     *)
(* state.                                                                   *)
GateKept ==
  \A r \in Requests : LetIn(r) => req[r].cached \/ req[r].ctx.of \notin req[r].closed

(* "Resolution order is strict -- subdomain > header > JWT" (line 46): the  *)
(* header or the token only decides when the host named no tenant at some   *)
(* time while the request was on its way.  The platform's bare domain names *)
(* none by line 84; that line 106 nevertheless looks one up for it is not   *)
(* this property's concern, which lets any source decide there.             *)
StrictOrder ==
  \A r \in Requests : LetIn(r) /\ req[r].by # "host" => req[r].unnamed
=============================================================================
