------------------------ MODULE TenantRequestProofs ------------------------
(***************************************************************************)
(* Theorems about TenantRequest for every set of tenants, names, users,    *)
(* records and requests.  RequestInv is the inductive invariant: every     *)
(* token names its user's tenant, and every request on its way (Begun)     *)
(* remembers truly what it met (Honest), has passed what its place on the  *)
(* way requires (Passed) and has touched only its own tenant (Within).     *)
(***************************************************************************)
EXTENDS TenantRequest, TLAPS

Tokens == UNION {TokensFor(u) : u \in Users}

(* The history of a request agrees with the tenants as they are now. *)
Honest(q) ==
  /\ q.host \in Nameless => q.unnamed
  /\ q.closed \subseteq Closed

Passed(q) ==
  /\ q.token \in Tokens \cup {NoToken}
  /\ q.pc \in {"header", "bearer"} => q.unnamed
  /\ q.pc \in {"guards", "serve", "done"} =>
       /\ q.ctx \in Found
       /\ q.by # "host" => q.unnamed
       /\ q.cached \/ q.ctx.of \notin q.closed
  /\ q.pc \in {"serve", "done"} /\ q.route # "login" =>
       q.token \in Tokens /\ Matches(q.token, q.ctx)

Within(q) ==
  /\ q.pc \notin {"serve", "done"} => q.touched = {}
  /\ \A d \in q.touched : Owner(d) = q.ctx.of

Begun(q) == q \in Request /\ Honest(q) /\ Passed(q) /\ Within(q)

RequestInv ==
  /\ TypeOK
  /\ issued \subseteq Tokens
  /\ \A r \in Requests : Open(r) => Begun(req[r])

-----------------------------------------------------------------------------

(* A token carries the tenant of its user, and the role or none. *)
LEMMA TokenTrue ==
  ASSUME NEW t \in Tokens
  PROVE  /\ t \in Token
         /\ t.sub \in Users /\ t.tenantId = TenantOf[t.sub]
         /\ t.role \in {Role[t.sub], "undefined"}
<1>1. PICK u \in Users : \E role \in {Role[u], "undefined"} :
        t = [sub |-> u, tenantId |-> TenantOf[u], role |-> role]
  BY DEF Tokens, TokensFor
<1> QED BY <1>1, TenantRequestAssumption DEF Token

LEMMA NobodyIsNotFound == Nobody \notin Found
BY TenantRequestAssumption DEF Nobody, Found

(* What a lookup may answer: nobody only if nobody has the key, and what is *)
(* in the database is live.                                                 *)
LEMMA LookupAnswers ==
  ASSUME TypeOK, NEW k \in Names \cup Tenants, NEW found \in Lookup(k)
  PROVE  /\ found \in Found \cup {Nobody}
         /\ found = Nobody => Query(k) = {}
         /\ found \in Query(k) /\ found.active => found.of \notin Closed
<1>1. Query(k) \subseteq Found
  BY DEF Query, Found, TypeOK, Doc
<1>2. past[k] \subseteq Found
  BY DEF TypeOK
<1>3. found \in Found \cup {Nobody} /\ (found = Nobody => Query(k) = {})
  BY <1>1, <1>2, NobodyIsNotFound DEF Lookup
<1>4. found \in Query(k) /\ found.active => found.of \notin Closed
  BY DEF Query, Closed
<1> QED BY <1>3, <1>4

LEMMA OpenRequest ==
  ASSUME RequestInv, NEW r \in Requests,
         req[r].pc \in {"host", "header", "bearer", "guards", "serve", "done"}
  PROVE  Open(r) /\ Begun(req[r])
BY DEF RequestInv, Open, New, Refused

(* What a request has touched stays its tenant's: records never move.       *)
LEMMA BegunStays ==
  ASSUME NEW p, Begun(p), UNCHANGED doc,
         \A d \in Records : record[d] \in Tenants => record'[d] = record[d]
  PROVE  Begun(p)'
<1>1. Honest(p)' /\ Passed(p)'
  BY DEF Begun, Honest, Passed, Nameless, Query, Closed
<1>2. ASSUME NEW d \in p.touched PROVE Owner(d)' = p.ctx.of
  <2>1. d \in Records \cup Users
    BY DEF Begun, Request
  <2>2. Owner(d) = p.ctx.of /\ p.ctx.of \in Tenants
    BY DEF Begun, Within, Passed, Found
  <2> QED BY <2>1, <2>2 DEF Owner
<1> QED BY <1>1, <1>2 DEF Begun, Within

(* Replacing one request by one that is refused or has begun keeps the      *)
(* invariant.                                                               *)
LEMMA Replaced ==
  ASSUME RequestInv, NEW r \in Requests, NEW q, q = Refused \/ Begun(q),
         Become(r, q), UNCHANGED <<doc, past, edits, record>>,
         issued' \subseteq Tokens
  PROVE  RequestInv'
<1>1. issued' \subseteq Token
  BY TokenTrue
<1>2. q \in Request \cup {New, Refused}
  BY DEF Begun
<1>3. TypeOK'
  BY <1>1, <1>2 DEF RequestInv, TypeOK, Become
<1>4. ASSUME NEW s \in Requests, Open(s)' PROVE Begun(req[s])'
  <2>1. PICK p : p = req'[s]
    OBVIOUS
  <2>2. Begun(p)
    BY <1>4, <2>1 DEF RequestInv, TypeOK, Become, Open
  <2> QED BY <2>1, <2>2, BegunStays
<1> QED BY <1>3, <1>4 DEF RequestInv

(* Admitting the answer of a lookup. *)
LEMMA Admitted ==
  ASSUME RequestInv, NEW r \in Requests, NEW k \in Names \cup Tenants,
         NEW found \in Lookup(k), found # Nobody,
         NEW by \in {"host", "header", "bearer"},
         req[r].pc \in {"host", "header", "bearer"},
         by = "host" \/ req[r].unnamed,
         Admit(r, k, found, by),
         UNCHANGED <<doc, past, edits, issued, record>>
  PROVE  RequestInv'
<1>1. Begun(req[r])
  BY OpenRequest
<1>2. CASE ~found.active
  BY <1>2, Replaced DEF Admit, RequestInv
<1>3. CASE found.active
  <2> DEFINE q == [req[r] EXCEPT !.pc = "guards", !.ctx = found, !.by = by,
                                 !.cached = found \notin Query(k)]
  <2>1. /\ found \in Found
        /\ found \in Query(k) => found.of \notin Closed
    BY <1>3, LookupAnswers DEF RequestInv
  <2>2. q \in Request
    BY <1>1, <2>1 DEF Begun, Request
  <2>3. /\ q.pc = "guards" /\ q.ctx = found /\ q.by = by /\ q.touched = {}
        /\ q.cached = (found \notin Query(k)) /\ q.host = req[r].host
        /\ q.unnamed = req[r].unnamed /\ q.closed = req[r].closed
        /\ q.token = req[r].token
    BY <1>1 DEF Begun, Request, Within
  <2>4. Begun(q)
    BY <1>1, <2>1, <2>2, <2>3 DEF Begun, Honest, Passed, Within
  <2>5. Become(r, q)
    BY <1>3 DEF Admit
  <2> HIDE DEF q
  <2> QED BY <2>4, <2>5, Replaced DEF RequestInv
<1> QED BY <1>2, <1>3

(* Going on to the next source of a tenant, once the host named nobody. *)
LEMMA WentOn ==
  ASSUME RequestInv, NEW r \in Requests,
         req[r].pc \in {"host", "header", "bearer"}, req[r].unnamed,
         NEW next \in {"header", "bearer", "refused"}, GoOn(r, next),
         UNCHANGED <<doc, past, edits, issued, record>>
  PROVE  RequestInv'
<1>1. Begun(req[r])
  BY OpenRequest
<1>2. CASE next = "refused"
  BY <1>2, Replaced DEF GoOn, RequestInv
<1>3. CASE next # "refused"
  <2> DEFINE q == [req[r] EXCEPT !.pc = next]
  <2>1. q \in Request
    BY <1>1, <1>3 DEF Begun, Request
  <2>2. /\ q.pc = next /\ q.touched = {} /\ q.host = req[r].host
        /\ q.unnamed /\ q.closed = req[r].closed /\ q.token = req[r].token
    BY <1>1 DEF Begun, Request, Within
  <2>3. Begun(q)
    BY <1>1, <1>3, <2>1, <2>2 DEF Begun, Honest, Passed, Within
  <2>4. Become(r, q)
    BY <1>3 DEF GoOn
  <2> HIDE DEF q
  <2> QED BY <2>3, <2>4, Replaced DEF RequestInv
<1> QED BY <1>2, <1>3

(* A lookup by the host's name, or by another source once the host named    *)
(* nobody.                                                                  *)
LEMMA Asked ==
  ASSUME RequestInv, NEW r \in Requests, NEW k \in Names \cup Tenants,
         NEW by \in {"host", "header", "bearer"},
         NEW next \in {"header", "bearer", "refused"},
         req[r].pc \in {"host", "header", "bearer"},
         by = "host" \/ req[r].unnamed,
         Query(k) = {} => req[r].unnamed,
         Ask(r, k, by, next),
         UNCHANGED <<doc, past, edits, issued, record>>
  PROVE  RequestInv'
<1>1. PICK found \in Lookup(k) :
        IF found = Nobody THEN GoOn(r, next) ELSE Admit(r, k, found, by)
  BY DEF Ask
<1>2. CASE found = Nobody
  <2>1. req[r].unnamed
    BY <1>2, LookupAnswers DEF RequestInv
  <2> QED BY <1>1, <1>2, <2>1, WentOn
<1>3. CASE found # Nobody
  BY <1>1, <1>3, Admitted
<1> QED BY <1>2, <1>3

-----------------------------------------------------------------------------
(* One lemma per action. *)

LEMMA ArriveKeeps ==
  ASSUME RequestInv, NEW r \in Requests, Arrive(r) PROVE RequestInv'
<1>1. PICK route \in Routes, host \in Hosts :
        Become(r, [pc |-> "host", route |-> route, host |-> host, token |-> NoToken,
                   ctx |-> Nobody, touched |-> {}, by |-> "",
                   cached |-> FALSE, unnamed |-> host \in Nameless, closed |-> Closed])
  BY DEF Arrive
<1> DEFINE q == [pc |-> "host", route |-> route, host |-> host, token |-> NoToken,
                 ctx |-> Nobody, touched |-> {}, by |-> "",
                 cached |-> FALSE, unnamed |-> host \in Nameless, closed |-> Closed]
<1>3. (host \in Nameless) \in BOOLEAN /\ Closed \in SUBSET Tenants
  BY DEF Closed
<1>4. q \in Request
  BY <1>3 DEF Request
<1>5. Begun(q)
  BY <1>4 DEF Begun, Honest, Passed, Within
<1>6. Become(r, q)
  BY <1>1
<1> HIDE DEF q
<1> QED BY <1>5, <1>6, Replaced DEF Arrive, RequestInv

LEMMA ResolveHostKeeps ==
  ASSUME RequestInv, NEW r \in Requests, ResolveHost(r) PROVE RequestInv'
<1>1. Begun(req[r]) /\ req[r].pc = "host"
  BY OpenRequest DEF ResolveHost
<1>2. req[r].host \in Hosts /\ (req[r].host \in Nameless => req[r].unnamed)
  BY <1>1 DEF Begun, Request, Honest
<1>3. CASE req[r].host = NoName
  BY <1>1, <1>2, <1>3, WentOn DEF ResolveHost, Nameless
<1>4. CASE req[r].host # NoName
  <2>1. HostKey(req[r].host) \in Names \cup Tenants
    BY <1>2, <1>4, TenantRequestAssumption DEF HostKey
  <2>2. Query(HostKey(req[r].host)) = {} => req[r].unnamed
    BY <1>2 DEF Nameless, HostKey
  <2> QED BY <1>1, <1>4, <2>1, <2>2, Asked DEF ResolveHost
<1> QED BY <1>3, <1>4

LEMMA ResolveHeaderKeeps ==
  ASSUME RequestInv, NEW r \in Requests, ResolveHeader(r) PROVE RequestInv'
<1>1. Begun(req[r]) /\ req[r].pc = "header" /\ req[r].unnamed
  BY OpenRequest DEF ResolveHeader, Begun, Passed
<1>2. CASE GoOn(r, "bearer")
  BY <1>1, <1>2, WentOn DEF ResolveHeader
<1>3. CASE \E slug \in Slugs : Ask(r, slug, "header", "bearer")
  <2>1. PICK slug \in Slugs : Ask(r, slug, "header", "bearer")
    BY <1>3
  <2>2. slug \in Names \cup Tenants
    BY TenantRequestAssumption
  <2> QED BY <1>1, <2>1, <2>2, Asked DEF ResolveHeader
<1> QED BY <1>2, <1>3 DEF ResolveHeader

LEMMA ResolveBearerKeeps ==
  ASSUME RequestInv, NEW r \in Requests, ResolveBearer(r) PROVE RequestInv'
<1>1. Begun(req[r]) /\ req[r].pc = "bearer" /\ req[r].unnamed
  BY OpenRequest DEF ResolveBearer, Begun, Passed
<1>2. CASE Become(r, Refused)
  BY <1>2, Replaced DEF ResolveBearer, RequestInv
<1>3. ASSUME NEW tenantId \in Tenants, Ask(r, tenantId, "bearer", "refused")
      PROVE  RequestInv'
  BY <1>1, <1>3, Asked DEF ResolveBearer
<1> QED BY <1>2, <1>3 DEF ResolveBearer

LEMMA GuardKeeps ==
  ASSUME RequestInv, NEW r \in Requests, Guard(r) PROVE RequestInv'
<1>1. Begun(req[r]) /\ req[r].pc = "guards" /\ UNCHANGED <<doc, past, edits, issued, record>>
  BY OpenRequest DEF Guard
<1>2. CASE req[r].route = "login" /\ Become(r, [req[r] EXCEPT !.pc = "serve"])
  <2> DEFINE q == [req[r] EXCEPT !.pc = "serve"]
  <2>1. q \in Request
    BY <1>1 DEF Begun, Request
  <2>2. Begun(q)
    BY <1>1, <1>2, <2>1 DEF Begun, Request, Honest, Passed, Within
  <2>3. Become(r, q)
    BY <1>2
  <2> HIDE DEF q
  <2> QED BY <1>1, <2>2, <2>3, Replaced DEF RequestInv
<1>3. CASE Become(r, Refused)
  BY <1>1, <1>3, Replaced DEF RequestInv
<1>4. ASSUME NEW user \in Tokens, Matches(user, req[r].ctx),
             Become(r, [req[r] EXCEPT !.pc = "serve", !.token = user])
      PROVE  RequestInv'
  <2> DEFINE q == [req[r] EXCEPT !.pc = "serve", !.token = user]
  <2>1. q \in Request
    BY <1>1, TokenTrue DEF Begun, Request
  <2>2. /\ q.pc = "serve" /\ q.token = user /\ q.touched = {}
        /\ q.ctx = req[r].ctx /\ q.by = req[r].by /\ q.cached = req[r].cached
        /\ q.host = req[r].host /\ q.unnamed = req[r].unnamed
        /\ q.closed = req[r].closed
    BY <1>1 DEF Begun, Request, Within
  <2>3. Begun(q)
    BY <1>1, <1>4, <2>1, <2>2 DEF Begun, Honest, Passed, Within
  <2>4. Become(r, q)
    BY <1>4
  <2> HIDE DEF q
  <2> QED BY <1>1, <2>3, <2>4, Replaced DEF RequestInv
<1>5. issued \subseteq Tokens
  BY DEF RequestInv
<1> QED BY <1>2, <1>3, <1>4, <1>5 DEF Guard

(* A handler that touches more documents of the request's tenant.           *)
LEMMA Touched ==
  ASSUME RequestInv, NEW r \in Requests, req[r].pc = "serve",
         NEW docs \in SUBSET (Records \cup Users),
         \A d \in docs : Owner(d) = req[r].ctx.of,
         Touch(r, docs), UNCHANGED <<doc, past, edits, issued, record>>
  PROVE  RequestInv'
<1>1. Begun(req[r])
  BY OpenRequest
<1> DEFINE q == [req[r] EXCEPT !.touched = @ \cup docs]
<1>2. q \in Request
  BY <1>1 DEF Begun, Request
<1>3. Begun(q)
  BY <1>1, <1>2 DEF Begun, Request, Honest, Passed, Within
<1>4. Become(r, q)
  BY DEF Touch
<1> HIDE DEF q
<1> QED BY <1>3, <1>4, Replaced DEF RequestInv

(* A handler that answers, having read nothing or one user of the tenant.   *)
LEMMA Answered ==
  ASSUME RequestInv, NEW r \in Requests, req[r].pc = "serve",
         NEW docs \in SUBSET (Records \cup Users),
         \A d \in docs : Owner(d) = req[r].ctx.of,
         Become(r, [req[r] EXCEPT !.pc = "done", !.touched = docs]),
         UNCHANGED <<doc, past, edits, record>>, issued' \subseteq Tokens
  PROVE  RequestInv'
<1>1. Begun(req[r])
  BY OpenRequest
<1> DEFINE q == [req[r] EXCEPT !.pc = "done", !.touched = docs]
<1>2. q \in Request
  BY <1>1 DEF Begun, Request
<1>3. Begun(q)
  BY <1>1, <1>2 DEF Begun, Request, Honest, Passed, Within
<1> HIDE DEF q
<1> QED BY <1>3, Replaced DEF q

LEMMA FindKeeps ==
  ASSUME RequestInv, NEW r \in Requests, Find(r) PROVE RequestInv'
<1>1. PICK docs \in SUBSET Scoped(r) : Touch(r, docs)
  BY DEF Find
<1>2. docs \in SUBSET (Records \cup Users) /\ \A d \in docs : Owner(d) = req[r].ctx.of
  BY TenantRequestAssumption DEF Scoped, Owner
<1> QED BY <1>1, <1>2, Touched DEF Find

LEMMA UpdateKeeps ==
  ASSUME RequestInv, NEW r \in Requests, Update(r) PROVE RequestInv'
<1>1. PICK d \in Scoped(r) : Touch(r, {d})
  BY DEF Update
<1>2. {d} \in SUBSET (Records \cup Users) /\ Owner(d) = req[r].ctx.of
  BY TenantRequestAssumption DEF Scoped, Owner
<1> QED BY <1>1, <1>2, Touched DEF Update

LEMMA CreateKeeps ==
  ASSUME RequestInv, NEW r \in Requests, Create(r) PROVE RequestInv'
<1>1. Begun(req[r]) /\ req[r].pc = "serve" /\ req[r].ctx.of \in Tenants
  BY OpenRequest DEF Create, Begun, Passed, Found
<1>2. PICK d \in Records : /\ record[d] = Absent
                           /\ record' = [record EXCEPT ![d] = req[r].ctx.of]
                           /\ Touch(r, {d})
  BY DEF Create
<1>3. PICK p, q : p = req[r] /\ q = [req[r] EXCEPT !.touched = @ \cup {d}]
  OBVIOUS
<1>4. /\ record' \in [Records -> Tenants \cup {Absent}]
      /\ record'[d] = p.ctx.of
      /\ \A e \in Records : record[e] \in Tenants => record'[e] = record[e]
  BY <1>1, <1>2, <1>3, TenantRequestAssumption DEF RequestInv, TypeOK
<1>5. /\ q.touched = p.touched \cup {d} /\ q.ctx = p.ctx /\ q.pc = p.pc
      /\ q.host = p.host /\ q.unnamed = p.unnamed /\ q.closed = p.closed
      /\ q.token = p.token /\ q.by = p.by /\ q.cached = p.cached
      /\ q.route = p.route /\ q \in Request /\ p.pc = "serve"
  BY <1>1, <1>3 DEF Begun, Request
<1>6. Begun(q)'
  <2>1. Begun(p)'
    BY <1>1, <1>3, <1>4, BegunStays DEF Create
  <2>2. Owner(d)' = q.ctx.of
    BY <1>4, <1>5, TenantRequestAssumption DEF Owner
  <2> QED BY <1>5, <2>1, <2>2 DEF Begun, Honest, Passed, Within
<1>7. req' = [req EXCEPT ![r] = q]
  BY <1>2, <1>3 DEF Touch, Become
<1>8. TypeOK'
  BY <1>4, <1>5, <1>7 DEF Create, RequestInv, TypeOK
<1>9. ASSUME NEW s \in Requests, Open(s)' PROVE Begun(req[s])'
  <2>1. CASE s = r
    <3>1. req'[s] = q
      BY <1>7, <2>1 DEF RequestInv, TypeOK
    <3> QED BY <1>6, <3>1
  <2>2. CASE s # r
    <3>1. PICK o : o = req[s]
      OBVIOUS
    <3>2. o = req'[s] /\ Begun(o)
      BY <1>7, <1>9, <2>2, <3>1 DEF RequestInv, TypeOK, Open
    <3> QED BY <1>4, <3>2, BegunStays DEF Create
  <2> QED BY <2>1, <2>2
<1> QED BY <1>8, <1>9 DEF RequestInv, Create

LEMMA LoginKeeps ==
  ASSUME RequestInv, NEW r \in Requests, Login(r) PROVE RequestInv'
<1>1. PICK u \in Users :
        /\ TenantOf[u] = req[r].ctx.of
        /\ issued' = issued \cup TokensFor(u)
        /\ Become(r, [req[r] EXCEPT !.pc = "done", !.touched = {u}])
  BY DEF Login
<1>2. issued' \subseteq Tokens
  BY <1>1 DEF RequestInv, Tokens
<1>3. {u} \in SUBSET (Records \cup Users) /\ Owner(u) = req[r].ctx.of
  BY <1>1 DEF Owner
<1> QED BY <1>1, <1>2, <1>3, Answered DEF Login

LEMMA MeKeeps ==
  ASSUME RequestInv, NEW r \in Requests, Me(r) PROVE RequestInv'
<1>1. Begun(req[r]) /\ req[r].pc = "serve" /\ req[r].route = "me"
  BY OpenRequest DEF Me
<1> DEFINE u == req[r].token.sub
<1>2. u \in Users
  BY <1>1, TokenTrue DEF Begun, Passed, Token
<1>3. CASE TenantOf[u] = req[r].ctx.of
  <2>1. {u} \in SUBSET (Records \cup Users) /\ Owner(u) = req[r].ctx.of
    BY <1>2, <1>3 DEF Owner
  <2> QED BY <1>1, <1>3, <2>1, Answered DEF Me, RequestInv
<1>4. CASE TenantOf[u] # req[r].ctx.of
  BY <1>4, Replaced DEF Me, RequestInv
<1> QED BY <1>3, <1>4

LEMMA AnswerKeeps ==
  ASSUME RequestInv, NEW r \in Requests, Answer(r) PROVE RequestInv'
<1>1. Begun(req[r]) /\ req[r].pc = "serve"
  BY OpenRequest DEF Answer
<1> DEFINE q == [req[r] EXCEPT !.pc = "done"]
<1>2. q \in Request
  BY <1>1 DEF Begun, Request
<1>3. Begun(q)
  BY <1>1, <1>2 DEF Begun, Request, Honest, Passed, Within
<1> HIDE DEF q
<1> QED BY <1>3, Replaced DEF q, Answer, RequestInv

(* Whatever becomes of a tenant, the requests on their way take note.       *)
LEMMA EditKeeps ==
  ASSUME RequestInv, NEW t \in Tenants, Edit(t) PROVE RequestInv'
<1>1. TypeOK /\ UNCHANGED <<issued, record>>
  BY DEF RequestInv, Edit
<1>2. doc' \in [Tenants -> Doc] /\ edits' \in 0..MaxEdits
  <2>1. PICK d \in Doc : doc' = [doc EXCEPT ![t] = d]
    BY DEF Edit
  <2>2. doc' \in [Tenants -> Doc]
    BY <1>1, <2>1 DEF TypeOK
  <2>3. edits' \in 0..MaxEdits
    <3>1. MaxEdits \in Nat
      BY TenantRequestAssumption
    <3>2. edits \in 0..MaxEdits /\ edits < MaxEdits /\ edits' = edits + 1
      BY <1>1 DEF TypeOK, Edit
    <3> QED BY <3>1, <3>2
  <2> QED BY <2>2, <2>3
<1>3. past' \in [Names \cup Tenants -> SUBSET Found]
  <2>1. ASSUME NEW k \in Names \cup Tenants PROVE Query(k) \subseteq Found
    BY <1>1 DEF Query, Found, TypeOK, Doc
  <2> QED BY <1>1, <2>1 DEF Edit, TypeOK
<1>4. ASSUME NEW s \in Requests, Open(s)
      PROVE  req'[s] \in Request /\ Begun(req[s])'
  <2>1. Begun(req[s])
    BY <1>4 DEF RequestInv
  <2>2. req'[s] = [req[s] EXCEPT !.unnamed = @ \/ req[s].host \in Nameless',
                                 !.closed = @ \cap Closed']
    BY <1>4 DEF Edit
  <2>3. req'[s] \in Request
    BY <2>1, <2>2 DEF Begun, Request
  <2>4. PICK p, p2 : p = req[s] /\ p2 = req'[s]
    OBVIOUS
  <2>5. /\ p2.unnamed = (p.unnamed \/ p.host \in Nameless')
        /\ p2.closed = p.closed \cap Closed'
        /\ p2.touched = p.touched /\ p2.ctx = p.ctx /\ p2.pc = p.pc
        /\ p2.host = p.host /\ p2.token = p.token /\ p2.by = p.by
        /\ p2.cached = p.cached /\ p2.route = p.route
    BY <2>1, <2>2, <2>4 DEF Begun, Request
  <2>6. Honest(p2)'
    BY <2>5 DEF Honest
  <2>7. Passed(p2)'
    BY <2>1, <2>4, <2>5 DEF Begun, Passed
  <2>8. Within(p2)'
    BY <1>1, <2>1, <2>4, <2>5 DEF Begun, Within, Owner
  <2> QED BY <2>3, <2>4, <2>6, <2>7, <2>8 DEF Begun
<1>5. ASSUME NEW s \in Requests, ~Open(s) PROVE req'[s] = req[s] /\ ~Open(s)'
  BY <1>5 DEF Edit, Open
<1>6. req' \in [Requests -> Request \cup {New, Refused}]
  BY <1>1, <1>4, <1>5 DEF Edit, TypeOK, Open
<1> QED BY <1>1, <1>2, <1>3, <1>4, <1>5, <1>6 DEF RequestInv, TypeOK

-----------------------------------------------------------------------------

LEMMA InitInv == ASSUME Init PROVE RequestInv
<1>1. issued \subseteq Tokens
  BY TenantRequestAssumption DEF Init, Tokens
<1>2. issued \subseteq Token
  BY <1>1, TokenTrue
<1>3. \A r \in Requests : ~Open(r)
  BY DEF Init, Open
<1>4. TypeOK
  BY <1>2, TenantRequestAssumption DEF Init, TypeOK
<1> QED BY <1>1, <1>3, <1>4 DEF RequestInv

LEMMA NextKeeps == ASSUME RequestInv, [Next]_vars PROVE RequestInv'
<1>1. CASE UNCHANGED vars
  BY <1>1 DEF vars, RequestInv, TypeOK, Open, Begun, Honest, Passed, Within,
              Nameless, Query, Closed, Owner
<1>2. ASSUME NEW t \in Tenants, Edit(t) PROVE RequestInv'
  BY <1>2, EditKeeps
<1>3. ASSUME NEW r \in Requests, Handle(r) PROVE RequestInv'
  BY <1>3, ArriveKeeps, ResolveHostKeeps, ResolveHeaderKeeps, ResolveBearerKeeps,
     GuardKeeps, FindKeeps, CreateKeeps, UpdateKeeps, LoginKeeps, MeKeeps, AnswerKeeps
  DEF Handle
<1> QED BY <1>1, <1>2, <1>3 DEF Next

THEOREM RequestInvariant == Spec => []RequestInv
BY InitInv, NextKeeps, PTL DEF Spec

(* TypeOK: every variable keeps its type. *)
THEOREM TypeCorrect == Spec => []TypeOK
<1>1. RequestInv => TypeOK
  BY DEF RequestInv
<1> QED BY <1>1, RequestInvariant, PTL

(* Isolation: whatever tenants are edited, cached or shared by names while  *)
(* requests are on their way, a request only ever touches documents of the  *)
(* tenant it was resolved to, which is its user's own unless the user is a  *)
(* super admin.                                                             *)
THEOREM TenantsAreIsolated == Spec => []Isolation
<1>1. RequestInv => Isolation
  <2> SUFFICES ASSUME RequestInv, NEW r \in Requests, Open(r), NEW d \in req[r].touched
               PROVE  /\ Owner(d) = req[r].ctx.of
                      /\ req[r].route # "login" =>
                           LET u == req[r].token.sub IN
                             Role[u] = "SUPER_ADMIN" \/ TenantOf[u] = Owner(d)
    BY DEF Isolation
  <2>1. Begun(req[r])
    BY DEF RequestInv
  <2>2. req[r].pc \in {"serve", "done"} /\ Owner(d) = req[r].ctx.of
    BY <2>1 DEF Begun, Within
  <2>3. CASE req[r].route # "login"
    <3>1. req[r].token \in Tokens /\ Matches(req[r].token, req[r].ctx)
      BY <2>1, <2>2, <2>3 DEF Begun, Passed
    <3> QED BY <2>2, <3>1, TokenTrue DEF Matches
  <2> QED BY <2>2, <2>3
<1> QED BY <1>1, RequestInvariant, PTL

(* GateKept: no request is let in for a tenant that was closed all the time *)
(* the request was on its way, unless by an answer of the cache.            *)
THEOREM ClosedTenantsStayOut == Spec => []GateKept
<1>1. RequestInv => GateKept
  BY DEF RequestInv, GateKept, LetIn, Begun, Passed, Open, New, Refused
<1> QED BY <1>1, RequestInvariant, PTL

(* StrictOrder: header and token decide only for a host that named no       *)
(* tenant at some time while the request was on its way.                    *)
THEOREM OrderIsStrict == Spec => []StrictOrder
<1>1. RequestInv => StrictOrder
  BY DEF RequestInv, StrictOrder, LetIn, Begun, Passed, Open, New, Refused
<1> QED BY <1>1, RequestInvariant, PTL
=============================================================================
