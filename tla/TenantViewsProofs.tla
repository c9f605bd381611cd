------------------------- MODULE TenantViewsProofs --------------------------
(***************************************************************************)
(* Theorems about TenantViews for every set of tenants and any number of   *)
(* requests on their way.  ViewInv is the inductive invariant: the router  *)
(* follows the selection, a clean choice is of the tenant selected, and a  *)
(* spinner has its request.  ShownInv adds that whatever a page awaits is  *)
(* up to date: the last request for it on its way, if any, asks for what   *)
(* is wanted now, and otherwise what is shown was asked for that way.      *)
(***************************************************************************)
EXTENDS TenantViews, TLAPS

Flights == [res : Resource \cup {"save"}, to : Tenants, filter : Filters, early : BOOLEAN, late : BOOLEAN]

(* One of a sequence of requests is awaited by a page. *)
Awaits(p, s) == \E i \in DOMAIN s : s[i].res \in Awaited(p)

Clean == page = "transfer" => \A choice \in form : choice.clean => choice.of = selected

ViewInv ==
  /\ TypeOK /\ flights \in Seq(Flights)
  /\ UrlFollows
  /\ Clean
  /\ SpinnerHasRequest

-----------------------------------------------------------------------------
(* Sequences of requests.                                                   *)

(* The elements of the second of two sequences put together.                *)
LEMMA SecondPart ==
  ASSUME NEW S, NEW a \in Seq(S), NEW b \in Seq(S), NEW k \in 1..Len(b)
  PROVE  Len(a) + k \in DOMAIN (a \o b) /\ (a \o b)[Len(a) + k] = b[k]
OBVIOUS

(* What is left when one of a sequence is removed.                          *)
LEMMA RemoveIs ==
  ASSUME NEW S, NEW s \in Seq(S), NEW i \in DOMAIN s
  PROVE  /\ RemoveAt(s, i) \in Seq(S) /\ DOMAIN RemoveAt(s, i) = 1..(Len(s) - 1)
         /\ \A k \in 1..(Len(s) - 1) : RemoveAt(s, i)[k] = IF k < i THEN s[k] ELSE s[k + 1]
<1> DEFINE a == SubSeq(s, 1, i - 1)
           b == SubSeq(s, i + 1, Len(s))
<1>0. i \in Nat /\ Len(s) \in Nat /\ 1 <= i /\ i <= Len(s)
  OBVIOUS
<1>1. a \in Seq(S) /\ Len(a) = i - 1 /\ \A k \in 1..(i - 1) : a[k] = s[k]
  OBVIOUS
<1>2. b \in Seq(S) /\ Len(b) = Len(s) - i /\ \A k \in 1..(Len(s) - i) : b[k] = s[k + i]
  OBVIOUS
<1>3. RemoveAt(s, i) = a \o b
  BY DEF RemoveAt
<1> HIDE DEF a, b
<1>4. a \o b \in Seq(S) /\ DOMAIN (a \o b) = 1..(Len(s) - 1)
  BY <1>0, <1>1, <1>2
<1>5. ASSUME NEW k \in 1..(Len(s) - 1), k < i PROVE (a \o b)[k] = s[k]
  BY <1>1, <1>2, <1>5
<1>6. ASSUME NEW k \in 1..(Len(s) - 1), ~(k < i) PROVE (a \o b)[k] = s[k + 1]
  <2>0. k \in Nat /\ i <= k /\ k <= Len(s) - 1 /\ Len(a) = i - 1
    BY <1>0, <1>1, <1>6
  <2>1. /\ k - (i - 1) \in 1..(Len(s) - i)
        /\ k - (i - 1) + i = k + 1
        /\ Len(a) + (k - (i - 1)) = k
    <3> DEFINE n == Len(s)
    <3>1. n \in Nat /\ i <= n
      BY <1>0
    <3> HIDE DEF n
    <3>2. k - (i - 1) + i = k + 1
      BY <1>0, <2>0
    <3>3. (i - 1) + (k - (i - 1)) = k
      BY <1>0, <2>0
    <3>4. k <= n - 1
      BY <2>0 DEF n
    <3>5. k - (i - 1) \in 1..(n - i)
      BY <1>0, <2>0, <3>1, <3>4
    <3> QED BY <2>0, <3>2, <3>3, <3>5 DEF n
  <2>2. b[k - (i - 1)] = s[k + 1]
    BY <1>2, <2>1
  <2>3. PICK n \in 1..Len(b) : n = k - (i - 1) /\ Len(a) + n = k
    BY <1>2, <2>1
  <2>4. a \in Seq(S) /\ b \in Seq(S)
    BY <1>1, <1>2
  <2>5. (a \o b)[Len(a) + n] = b[n]
    BY <2>4, SecondPart
  <2> QED BY <2>2, <2>3, <2>5
<1> QED BY <1>3, <1>4, <1>5, <1>6

(* Another element than the one removed stays.                              *)
LEMMA RemoveKeeps ==
  ASSUME NEW S, NEW s \in Seq(S), NEW i \in DOMAIN s
  PROVE  /\ RemoveAt(s, i) \in Seq(S)
         /\ \A j \in DOMAIN s : j # i =>
              \E k \in DOMAIN RemoveAt(s, i) : RemoveAt(s, i)[k] = s[j]
<1>1. /\ RemoveAt(s, i) \in Seq(S) /\ DOMAIN RemoveAt(s, i) = 1..(Len(s) - 1)
      /\ \A k \in 1..(Len(s) - 1) : RemoveAt(s, i)[k] = IF k < i THEN s[k] ELSE s[k + 1]
  BY RemoveIs
<1>2. ASSUME NEW j \in DOMAIN s, j # i
      PROVE  \E k \in DOMAIN RemoveAt(s, i) : RemoveAt(s, i)[k] = s[j]
  <2> DEFINE k == IF j < i THEN j ELSE j - 1
  <2>1. k \in 1..(Len(s) - 1) /\ (IF k < i THEN k ELSE k + 1) = j
    BY <1>2
  <2> QED BY <1>1, <2>1
<1> QED BY <1>1, <1>2

(* What is fetched for a page is data, and what its spinner waits for is    *)
(* fetched.                                                                 *)
LEMMA FetchedIsAwaited ==
  ASSUME NEW p \in Pages
  PROVE  /\ Fetched(p) \in Seq(Resource)
         /\ Awaited(p) \subseteq Resource
         /\ Awaited(p) # {} => \E i \in DOMAIN Fetched(p) : Fetched(p)[i] \in Awaited(p)
         /\ Awaited("transfer") = {"wallets"} /\ Awaited("dashboard") = {}
<1>0. Awaited("transfer") = {"wallets"} /\ Awaited("dashboard") = {}
  BY DEF Awaited
<1>1. CASE p = "dashboard"
  BY <1>1 DEF Fetched, Awaited, Resource
<1>2. CASE p = "ledger"
  <2>1. Fetched(p) = <<"wallets", "ledger">> /\ Awaited(p) = {"ledger"}
    BY <1>2 DEF Fetched, Awaited
  <2>2. 2 \in DOMAIN Fetched(p) /\ Fetched(p)[2] \in Awaited(p)
    BY <2>1
  <2> QED BY <1>0, <2>1, <2>2 DEF Resource
<1>3. CASE p = "settlement"
  <2>1. Fetched(p) = <<"settlement">> /\ Awaited(p) = {"settlement"}
    BY <1>3 DEF Fetched, Awaited
  <2>2. 1 \in DOMAIN Fetched(p) /\ Fetched(p)[1] \in Awaited(p)
    BY <2>1
  <2> QED BY <1>0, <2>1, <2>2 DEF Resource
<1>4. CASE p \in {"wallets", "transfer"}
  <2>1. Fetched(p) = <<"wallets">> /\ Awaited(p) = {"wallets"}
    BY <1>4 DEF Fetched, Awaited
  <2>2. 1 \in DOMAIN Fetched(p) /\ Fetched(p)[1] \in Awaited(p)
    BY <2>1
  <2> QED BY <1>0, <2>1, <2>2 DEF Resource
<1> QED BY <1>1, <1>2, <1>3, <1>4 DEF Pages

(* A request is one.                                                        *)
LEMMA FlightIsOne ==
  ASSUME NEW r \in Resource \cup {"save"}, NEW f \in Filters,
         NEW u \in Tenants \cup {NoTenant}, NEW sel \in Tenants
  PROVE  Flight(r, f, u, sel) \in Flights /\ Flight(r, f, u, sel).res = r
BY TenantViewsAssumption DEF Flight, Flights, Header, Filters

(* All requests of a page.                                                  *)
LEMMA FetchAllAwaited ==
  ASSUME NEW p \in Pages, NEW f \in Filters, NEW u \in Tenants \cup {NoTenant}, NEW sel \in Tenants
  PROVE  /\ FetchAll(p, f, u, sel) \in Seq(Flights)
         /\ Awaited(p) # {} => Awaits(p, FetchAll(p, f, u, sel))
<1>1. /\ Fetched(p) \in Seq(Resource)
      /\ Awaited(p) # {} => \E i \in DOMAIN Fetched(p) : Fetched(p)[i] \in Awaited(p)
  BY FetchedIsAwaited
<1>2. \A i \in DOMAIN Fetched(p) :
        /\ Flight(Fetched(p)[i], f, u, sel) \in Flights
        /\ Flight(Fetched(p)[i], f, u, sel).res = Fetched(p)[i]
  BY <1>1, FlightIsOne
<1>3. DOMAIN FetchAll(p, f, u, sel) = DOMAIN Fetched(p)
      /\ \A i \in DOMAIN Fetched(p) : FetchAll(p, f, u, sel)[i] = Flight(Fetched(p)[i], f, u, sel)
  BY DEF FetchAll
<1>4. FetchAll(p, f, u, sel) \in Seq(Flights)
  BY <1>1, <1>2 DEF FetchAll
<1> QED BY <1>1, <1>2, <1>3, <1>4 DEF Awaits

(* More requests are sent.                                                  *)
LEMMA SendKeeps ==
  ASSUME ViewInv, NEW more \in Seq(Flights), Send(more)
  PROVE  /\ flights' \in Seq(Flights)
         /\ loading' \in BOOLEAN
         /\ loading' => Awaits(page, flights') /\ Awaited(page) # {}
<1>1. flights \in Seq(Flights) /\ flights' = flights \o more
      /\ loading' = (loading \/ Awaits(page, more))
      /\ (loading => Awaits(page, flights))
  BY DEF ViewInv, SpinnerHasRequest, Send, Awaits
<1>2. flights' \in Seq(Flights)
  BY <1>1
<1>3. \A i \in DOMAIN flights : i \in DOMAIN flights' /\ flights'[i] = flights[i]
  BY <1>1
<1>4. \A i \in DOMAIN more : Len(flights) + i \in DOMAIN flights' /\ flights'[Len(flights) + i] = more[i]
  BY <1>1
<1>5. Awaits(page, flights) \/ Awaits(page, more) => Awaits(page, flights')
  BY <1>3, <1>4 DEF Awaits
<1>6. Awaits(page, flights') => Awaited(page) # {}
  BY DEF Awaits
<1>7. loading' \in BOOLEAN
  BY <1>1
<1> QED BY <1>1, <1>2, <1>5, <1>6, <1>7

-----------------------------------------------------------------------------
(* Effects.                                                                 *)

(* The types of what the effects change, and the spinner, after the step.   *)
Effected ==
  /\ filter' \in Filters /\ (filter' = "ALL" \/ page' = "ledger")
  /\ form' \subseteq [of : Tenants \cup {NoTenant}, clean : BOOLEAN] /\ \A f, g \in form' : f = g
  /\ flights' \in Seq(Flights)
  /\ loading' \in BOOLEAN
  /\ loading' => Awaits(page', flights') /\ Awaited(page') # {}

(* The rest of the types.                                                   *)
Placed ==
  /\ page' \in Pages /\ url' \in Tenants \cup {NoTenant} /\ selected' \in Tenants
  /\ nav' \subseteq Place /\ \A p, q \in nav' : p = q
  /\ shown' \in [Resource -> [of : Tenants \cup {NoTenant}, filter : Filters,
                              why : {"current", "early", "late", "kept"}]]

(* Together they are the invariant.                                         *)
LEMMA Assembled ==
  ASSUME Placed, Effected, UrlFollows', Clean'
  PROVE  ViewInv'
<1>1. \A i \in DOMAIN flights' : flights'[i] \in Flights
  BY DEF Effected
<1>2. TypeOK'
  BY <1>1 DEF Placed, Effected, TypeOK, Flights
<1>3. SpinnerHasRequest'
  BY DEF Effected, SpinnerHasRequest, Awaits
<1> QED BY <1>2, <1>3 DEF ViewInv, Effected

(* What does not change keeps its type.                                     *)
LEMMA Unchanging ==
  ASSUME ViewInv
  PROVE  /\ page' = page /\ UNCHANGED <<filter, form, flights, loading>> => Effected
         /\ UNCHANGED <<page, url, selected, nav, shown>> => Placed
         /\ UNCHANGED <<url, selected, nav>> => UrlFollows'
         /\ UNCHANGED <<page, selected, form>> => Clean'
<1>1. page' = page /\ UNCHANGED <<filter, form, flights, loading>> => Effected
  <2> SUFFICES ASSUME page' = page, filter' = filter, form' = form, flights' = flights, loading' = loading
               PROVE  Effected
    OBVIOUS
  <2>1. TypeOK /\ flights \in Seq(Flights) /\ (loading => Awaits(page, flights))
    BY DEF ViewInv, SpinnerHasRequest, Awaits
  <2>2. Awaits(page', flights') <=> Awaits(page, flights)
    BY DEF Awaits
  <2> QED BY <2>1, <2>2 DEF TypeOK, Effected
<1>2. UNCHANGED <<page, url, selected, nav, shown>> => Placed
  BY DEF ViewInv, TypeOK, Placed
<1>3. UNCHANGED <<url, selected, nav>> => UrlFollows'
  BY DEF ViewInv, UrlFollows
<1>4. UNCHANGED <<page, selected, form>> => Clean'
  BY DEF ViewInv, Clean
<1> QED BY <1>1, <1>2, <1>3, <1>4

(* A page's effects with another tenant selected or in the URL.             *)
LEMMA RefetchKeeps ==
  ASSUME ViewInv, NEW u \in Tenants \cup {NoTenant}, NEW sel \in Tenants,
         Refetch(u, sel), page' = page, selected' = sel
  PROVE  Effected /\ Clean'
<1> DEFINE again == IF filter = "ALL" THEN <<>> ELSE <<Flight("ledger", "ALL", u, sel)>>
           all == FetchAll(page, filter, u, sel)
<1>1. page \in Pages /\ filter \in Filters
  BY DEF ViewInv, TypeOK
<1>2. "ledger" \in Resource /\ "ALL" \in Filters
  BY DEF Resource, Filters
<1>3. all \in Seq(Flights) /\ again \in Seq(Flights)
  BY <1>1, <1>2, FetchAllAwaited, FlightIsOne
<1>4. CASE page = "dashboard" /\ Send(all) /\ UNCHANGED <<filter, form>>
  BY <1>3, <1>4, SendKeeps DEF Effected, Clean, ViewInv, TypeOK
<1>5. CASE Send(all \o again) /\ Reset
  <2>1. all \o again \in Seq(Flights)
    BY <1>3
  <2> QED BY <1>2, <1>5, <2>1, SendKeeps DEF Effected, Clean, Reset
<1>6. CASE /\ IF page = "dashboard" THEN u = url ELSE sel = selected
           /\ UNCHANGED <<flights, loading, filter, form>>
  BY <1>6, Unchanging DEF Clean, ViewInv
<1> QED BY <1>4, <1>5, <1>6 DEF Refetch

(* A page is mounted.                                                       *)
LEMMA MountKeeps ==
  ASSUME NEW p \in Pages, NEW u \in Tenants \cup {NoTenant}, NEW sel \in Tenants,
         Mount(p, u, sel), page' = p
  PROVE  /\ Effected /\ Clean'
         /\ shown' \in [Resource -> [of : Tenants \cup {NoTenant}, filter : Filters,
                                     why : {"current", "early", "late", "kept"}]]
<1>1. "ALL" \in Filters
  BY DEF Filters
<1>2. /\ FetchAll(p, "ALL", u, sel) \in Seq(Flights)
      /\ Awaited(p) # {} => Awaits(p, FetchAll(p, "ALL", u, sel))
  BY <1>1, FetchAllAwaited
<1>3. Effected
  BY <1>1, <1>2 DEF Mount, Effected
<1>4. Clean'
  BY DEF Mount, Clean
<1>5. shown' \in [Resource -> [of : Tenants \cup {NoTenant}, filter : Filters,
                               why : {"current", "early", "late", "kept"}]]
  BY <1>1 DEF Mount, Nothing
<1> QED BY <1>3, <1>4, <1>5

-----------------------------------------------------------------------------
(* Steps.                                                                   *)

(* A tenant is chosen: the router is sent after it.                         *)
LEMMA TenantChangeKeeps ==
  ASSUME ViewInv, NEW t \in Tenants, handleTenantChange(t)
  PROVE  ViewInv'
<1>1. Effected /\ Clean'
  BY RefetchKeeps DEF handleTenantChange, ViewInv, TypeOK
<1>2. Placed
  <2>1. nav' = {[page |-> page, tenant |-> t]} /\ [page |-> page, tenant |-> t] \in Place
    BY DEF handleTenantChange, ViewInv, TypeOK, Place
  <2>2. nav' \subseteq Place /\ \A v, w \in nav' : v = w
    BY <2>1
  <2> QED BY <2>2 DEF handleTenantChange, Placed, ViewInv, TypeOK
<1>3. UrlFollows'
  BY DEF handleTenantChange, UrlFollows
<1> QED BY <1>1, <1>2, <1>3, Assembled

(* A link is followed.                                                      *)
LEMMA GoKeeps ==
  ASSUME ViewInv, NEW p \in Pages, Go(p)
  PROVE  ViewInv'
<1>1. Effected /\ Clean'
  BY Unchanging DEF Go
<1>2. Placed
  <2>1. nav' = {[page |-> p, tenant |-> selected]} /\ [page |-> p, tenant |-> selected] \in Place
    BY DEF Go, ViewInv, TypeOK, Place
  <2>2. nav' \subseteq Place /\ \A v, w \in nav' : v = w
    BY <2>1
  <2> QED BY <2>2 DEF Go, Placed, ViewInv, TypeOK
<1>3. UrlFollows'
  BY DEF Go, UrlFollows
<1> QED BY <1>1, <1>2, <1>3, Assembled

(* A navigation comes through.                                              *)
LEMMA ArriveKeeps ==
  ASSUME ViewInv, NEW place \in Place, Arrive(place)
  PROVE  ViewInv'
<1>1. /\ place.page \in Pages /\ place.tenant \in Tenants
      /\ page' = place.page /\ url' = place.tenant /\ selected' = place.tenant /\ nav' = {}
  BY DEF Place, Arrive
<1>2. UrlFollows'
  BY <1>1 DEF UrlFollows
<1>3. CASE place.page # page
  BY <1>1, <1>2, <1>3, MountKeeps, Assembled DEF Arrive, Placed
<1>4. CASE place.page = page
  <2>1. Refetch(place.tenant, place.tenant) /\ UNCHANGED shown
    BY <1>4 DEF Arrive
  <2>2. Effected /\ Clean'
    BY <1>1, <1>4, <2>1, RefetchKeeps
  <2> QED BY <1>1, <1>2, <2>1, <2>2, Assembled DEF Placed, ViewInv, TypeOK
<1> QED BY <1>3, <1>4

(* A page sends requests and stays.                                         *)
LEMMA SentKeeps ==
  ASSUME ViewInv, NEW more \in Seq(Flights), Send(more),
         filter' \in Filters, filter' = "ALL" \/ page = "ledger",
         UNCHANGED <<page, url, selected, nav, shown, form>>
  PROVE  ViewInv'
<1>1. Effected
  BY SendKeeps DEF Effected, ViewInv, TypeOK
<1> QED BY <1>1, Unchanging, Assembled

(* Again, ChooseUser and Save send requests.                                *)
LEMMA UseKeeps ==
  ASSUME ViewInv, Again \/ Save \/ \E f \in Filters : ChooseUser(f)
  PROVE  ViewInv'
<1>1. /\ page \in Pages /\ filter \in Filters /\ (filter = "ALL" \/ page = "ledger")
      /\ url \in Tenants \cup {NoTenant} /\ selected \in Tenants
  BY DEF ViewInv, TypeOK
<1>2. CASE Again
  <2>1. FetchAll(page, filter, url, selected) \in Seq(Flights)
    BY <1>1, FetchAllAwaited
  <2> QED BY <1>1, <1>2, <2>1, SentKeeps DEF Again
<1>3. CASE Save
  <2>1. Flight("save", filter, url, selected) \in Flights
    BY <1>1, FlightIsOne
  <2>2. <<Flight("save", filter, url, selected)>> \in Seq(Flights)
    BY <2>1
  <2> QED BY <1>1, <1>3, <2>2, SentKeeps DEF Save
<1>4. ASSUME NEW f \in Filters, ChooseUser(f) PROVE ViewInv'
  <2>1. Flight("ledger", f, url, selected) \in Flights
    BY <1>1, FlightIsOne DEF Resource
  <2>2. <<Flight("ledger", f, url, selected)>> \in Seq(Flights)
    BY <2>1
  <2> QED BY <1>4, <2>2, SentKeeps DEF ChooseUser
<1> QED BY <1>2, <1>3, <1>4

(* A wallet of the list is chosen.                                          *)
LEMMA ChooseWalletKeeps ==
  ASSUME ViewInv, ChooseWallet
  PROVE  ViewInv'
<1> DEFINE choice == [of |-> shown["wallets"].of, clean |-> shown["wallets"].of = selected]
<1>1. form' = {choice} /\ choice \in [of : Tenants \cup {NoTenant}, clean : BOOLEAN]
  BY DEF ChooseWallet, ViewInv, TypeOK, Resource
<1>2. choice.clean => choice.of = selected
  OBVIOUS
<1> HIDE DEF choice
<1>3. UNCHANGED <<page, url, selected, nav, filter, flights, shown, loading>>
  BY DEF ChooseWallet
<1>4. form' \subseteq [of : Tenants \cup {NoTenant}, clean : BOOLEAN] /\ \A f, g \in form' : f = g
  BY <1>1
<1>5. Awaits(page', flights') <=> Awaits(page, flights)
  BY <1>3 DEF Awaits
<1>6. Effected
  BY <1>3, <1>4, <1>5 DEF ViewInv, TypeOK, SpinnerHasRequest, Awaits, Effected
<1>7. Clean'
  BY <1>1, <1>2, <1>3 DEF Clean
<1> QED BY <1>3, <1>6, <1>7, Unchanging, Assembled

(* An answer ends the spinner that waits for it and no other.               *)
LEMMA AnswerKeeps ==
  ASSUME ViewInv, NEW i \in DOMAIN flights, NEW ok \in BOOLEAN, Answer(i, ok)
  PROVE  ViewInv'
<1> DEFINE fl == flights[i]
           marked == [j \in DOMAIN flights |->
              IF j < i /\ flights[j].res = flights[i].res THEN [flights[j] EXCEPT !.late = TRUE]
              ELSE flights[j]]
<1>1. /\ fl \in Flights /\ fl.res \in Resource
      /\ flights' = RemoveAt(marked, i) /\ loading' = (loading /\ fl.res \notin Awaited(page))
      /\ UNCHANGED <<page, url, selected, nav, filter, form>>
  BY DEF Answer, Without, Loaded, ViewInv
<1>2. marked \in Seq(Flights) /\ DOMAIN marked = DOMAIN flights
      /\ \A j \in DOMAIN flights : marked[j].res = flights[j].res
  <2>1. flights \in Seq(Flights)
    BY DEF ViewInv
  <2>2. \A j \in DOMAIN flights : marked[j] \in Flights /\ marked[j].res = flights[j].res
    <3> SUFFICES ASSUME NEW j \in DOMAIN flights
                 PROVE  marked[j] \in Flights /\ marked[j].res = flights[j].res
      OBVIOUS
    <3>1. flights[j] \in Flights
      BY <2>1
    <3>2. /\ [flights[j] EXCEPT !.late = TRUE] \in Flights
          /\ [flights[j] EXCEPT !.late = TRUE].res = flights[j].res
      BY <3>1 DEF Flights
    <3> QED BY <3>1, <3>2
  <2>3. DOMAIN marked = 1..Len(flights)
    BY <2>1
  <2> QED BY <2>1, <2>2, <2>3
<1> HIDE DEF marked
<1>3. /\ flights' \in Seq(Flights)
      /\ \A j \in DOMAIN marked : j # i => \E k \in DOMAIN flights' : flights'[k] = marked[j]
  BY <1>1, <1>2, RemoveKeeps
<1>4. loading' => Awaits(page, flights')
  <2> SUFFICES ASSUME loading, fl.res \notin Awaited(page) PROVE Awaits(page, flights')
    BY <1>1
  <2>1. PICK j \in DOMAIN flights : flights[j].res \in Awaited(page)
    BY DEF ViewInv, SpinnerHasRequest
  <2>2. j # i /\ j \in DOMAIN marked /\ marked[j].res \in Awaited(page)
    BY <1>2, <2>1
  <2> QED BY <1>3, <2>2 DEF Awaits
<1>5. Effected
  BY <1>1, <1>3, <1>4 DEF Effected, ViewInv, TypeOK
<1>6. shown' \in [Resource -> [of : Tenants \cup {NoTenant}, filter : Filters,
                               why : {"current", "early", "late", "kept"}]]
  <2> DEFINE Shown == [of : Tenants \cup {NoTenant}, filter : Filters, why : {"current", "early", "late", "kept"}]
             got == [of |-> fl.to, filter |-> fl.filter, why |-> Why(fl)]
             old == shown[fl.res]
  <2>1. shown \in [Resource -> Shown] /\ old \in Shown
    BY <1>1 DEF ViewInv, TypeOK
  <2>2. got \in Shown
    BY <1>1 DEF Flights, Why
  <2>3. [old EXCEPT !.why = "kept"] \in Shown
    BY <2>1
  <2>4. \/ shown' = [shown EXCEPT ![fl.res] = got]
        \/ shown' = shown
        \/ shown' = [shown EXCEPT ![fl.res] = [old EXCEPT !.why = "kept"]]
    BY DEF Answer
  <2> HIDE DEF Shown, got, old
  <2>5. shown' \in [Resource -> Shown]
    BY <1>1, <2>1, <2>2, <2>3, <2>4
  <2> QED BY <2>5 DEF Shown
<1>7. Placed
  BY <1>1, <1>6 DEF Placed, ViewInv, TypeOK
<1> QED BY <1>1, <1>5, <1>7, Unchanging, Assembled

(* No spinner waits for a save, and the list fetched after it is awaited.   *)
LEMMA SavedKeeps ==
  ASSUME ViewInv, NEW i \in DOMAIN flights, NEW ok \in BOOLEAN, Saved(i, ok)
  PROVE  ViewInv'
<1> DEFINE list == IF page = "dashboard" THEN "payments" ELSE "wallets"
           again == IF ok THEN <<Flight(list, filter, url, selected)>> ELSE <<>>
           kept == RemoveAt(flights, i)
<1>1. /\ flights[i].res = "save" /\ flights' = kept \o again
      /\ loading' = (loading \/ (ok /\ list \in Awaited(page)))
      /\ UNCHANGED <<page, url, selected, nav, filter, shown, form>>
  BY DEF Saved
<1>2. /\ page \in Pages /\ filter \in Filters /\ url \in Tenants \cup {NoTenant} /\ selected \in Tenants
      /\ flights \in Seq(Flights) /\ loading \in BOOLEAN
  BY DEF ViewInv, TypeOK
<1>3. Flight(list, filter, url, selected) \in Flights /\ Flight(list, filter, url, selected).res = list
  BY <1>2, FlightIsOne DEF Resource
<1>4. again \in Seq(Flights) /\ (ok => Len(again) = 1 /\ again[1].res = list)
  BY <1>3
<1> HIDE DEF list, again
<1>5. /\ kept \in Seq(Flights)
      /\ \A j \in DOMAIN flights : j # i => \E k \in DOMAIN kept : kept[k] = flights[j]
  BY <1>2, RemoveKeeps
<1> HIDE DEF kept
<1>6. /\ flights' \in Seq(Flights)
      /\ \A k \in DOMAIN kept : k \in DOMAIN flights' /\ flights'[k] = kept[k]
      /\ ok => Len(kept) + 1 \in DOMAIN flights' /\ flights'[Len(kept) + 1].res = list
  BY <1>1, <1>4, <1>5
<1>7. loading' => Awaits(page, flights')
  <2>1. CASE loading
    <3>1. PICK j \in DOMAIN flights : flights[j].res \in Awaited(page)
      BY <2>1 DEF ViewInv, SpinnerHasRequest
    <3>2. "save" \notin Awaited(page)
      BY <1>2, FetchedIsAwaited DEF Resource
    <3> QED BY <1>1, <1>5, <1>6, <3>1, <3>2 DEF Awaits
  <2>2. CASE ok /\ list \in Awaited(page)
    BY <1>6, <2>2 DEF Awaits
  <2> QED BY <1>1, <2>1, <2>2
<1>8. loading' \in BOOLEAN /\ (Awaits(page, flights') => Awaited(page) # {})
  BY <1>1 DEF Awaits
<1>9. Effected
  BY <1>1, <1>6, <1>7, <1>8 DEF Effected, ViewInv, TypeOK
<1> QED BY <1>1, <1>9, Unchanging, Assembled

-----------------------------------------------------------------------------

(* The invariant holds at first.                                            *)
LEMMA InitView == Init => ViewInv
<1> SUFFICES ASSUME Init PROVE ViewInv
  OBVIOUS
<1>1. /\ page \in Pages /\ url \in Tenants \cup {NoTenant} /\ selected \in Tenants
      /\ url # NoTenant => url = selected /\ nav = {}
      /\ url = NoTenant => nav = {[page |-> page, tenant |-> selected]}
  BY DEF Init
<1>2. "ALL" \in Filters
  BY DEF Filters
<1>3. /\ flights \in Seq(Flights) /\ loading \in BOOLEAN
      /\ loading => Awaits(page, flights) /\ Awaited(page) # {}
  <2>1. loading = (Awaited(page) # {})
    BY DEF Init
  <2>2. CASE page = "dashboard" /\ url = NoTenant
    <3>1. flights = <<>> /\ Awaited(page) = {}
      BY <2>2 DEF Init, Awaited
    <3>2. loading = FALSE
      BY <2>1, <3>1
    <3>3. <<>> \in Seq(Flights) /\ (FALSE => Awaits(page, <<>>) /\ Awaited(page) # {})
      OBVIOUS
    <3> QED BY <3>1, <3>2, <3>3, Zenon
  <2>3. CASE ~(page = "dashboard" /\ url = NoTenant)
    <3>1. flights = FetchAll(page, "ALL", url, selected)
      BY <2>3 DEF Init
    <3> QED BY <1>1, <1>2, <2>1, <3>1, FetchAllAwaited
  <2> QED BY <2>2, <2>3
<1>4. nav \subseteq Place /\ \A p, q \in nav : p = q
  BY <1>1 DEF Place
<1>5. shown \in [Resource -> [of : Tenants \cup {NoTenant}, filter : Filters,
                              why : {"current", "early", "late", "kept"}]]
  BY <1>2 DEF Init, Nothing
<1>6. filter = "ALL" /\ form = {}
  BY DEF Init
<1>7. \A i \in DOMAIN flights : flights[i] \in Flights
  BY <1>3
<1>8. TypeOK
  <2>1. form \subseteq [of : Tenants \cup {NoTenant}, clean : BOOLEAN] /\ \A f, g \in form : f = g
    BY <1>6
  <2>2. page \in Pages /\ filter \in Filters /\ (filter = "ALL" \/ page = "ledger")
    BY <1>1, <1>2, <1>6
  <2>3. loading \in BOOLEAN /\ (loading => Awaited(page) # {})
    BY <1>3
  <2>4. url \in Tenants \cup {NoTenant} /\ selected \in Tenants
    BY <1>1
  <2> QED BY <1>4, <1>5, <1>7, <2>1, <2>2, <2>3, <2>4 DEF TypeOK, Flights
<1>9. UrlFollows
  <2>1. url = NoTenant => [page |-> page, tenant |-> selected] \in nav
    BY <1>1
  <2>2. [page |-> page, tenant |-> selected].tenant = selected
    OBVIOUS
  <2> QED BY <1>1, <2>1, <2>2 DEF UrlFollows
<1>10. SpinnerHasRequest
  BY <1>3 DEF SpinnerHasRequest, Awaits
<1> QED BY <1>3, <1>6, <1>8, <1>9, <1>10 DEF ViewInv, Clean

(* The invariant is inductive.                                              *)
LEMMA NextView == ViewInv /\ [Next]_vars => ViewInv'
<1> SUFFICES ASSUME ViewInv, [Next]_vars PROVE ViewInv'
  OBVIOUS
<1>1. ASSUME NEW t \in Tenants, handleTenantChange(t) PROVE ViewInv'
  BY <1>1, TenantChangeKeeps
<1>2. ASSUME NEW p \in Pages, Go(p) PROVE ViewInv'
  BY <1>2, GoKeeps
<1>3. ASSUME NEW place \in Place, Arrive(place) PROVE ViewInv'
  BY <1>3, ArriveKeeps
<1>4. CASE NavArrives \/ Back
  <2>1. nav \subseteq Place
    BY DEF ViewInv, TypeOK
  <2> QED BY <1>3, <1>4, <2>1 DEF NavArrives, Back
<1>5. CASE Again \/ Save \/ \E f \in Filters : ChooseUser(f)
  BY <1>5, UseKeeps
<1>6. CASE ChooseWallet
  BY <1>6, ChooseWalletKeeps
<1>7. ASSUME NEW i \in DOMAIN flights, NEW ok \in BOOLEAN, Answer(i, ok) \/ Saved(i, ok)
      PROVE  ViewInv'
  BY <1>7, AnswerKeeps, SavedKeeps
<1>8. CASE UNCHANGED vars
  BY <1>8, Unchanging, Assembled DEF vars
<1> QED BY <1>1, <1>2, <1>4, <1>5, <1>6, <1>7, <1>8 DEF Next

(* ViewInv holds in every reachable state.                                  *)
THEOREM ViewCorrect == Spec => []ViewInv
BY InitView, NextView, PTL DEF Spec

(* Pages, requests and what is shown keep their types.                      *)
THEOREM TypeCorrect == Spec => []TypeOK
<1>1. ViewInv => TypeOK
  BY DEF ViewInv
<1> QED BY <1>1, ViewCorrect, PTL

(* For every set of tenants, the router is on its way whenever requests go  *)
(* to another tenant than the one selected (layout.tsx:83 to 88).           *)
THEOREM UrlFollowsHolds == Spec => []UrlFollows
<1>1. ViewInv => UrlFollows
  BY DEF ViewInv
<1> QED BY <1>1, ViewCorrect, PTL

(* For any number of requests on their way: a transfer goes to the tenant   *)
(* its wallets were chosen from (transfer/page.tsx:51 to 60).               *)
THEOREM ChosenWhereSentHolds == Spec => []ChosenWhereSent
<1>1. ViewInv => ChosenWhereSent
  BY TenantViewsAssumption DEF ViewInv, TypeOK, Clean, ChosenWhereSent, Header
<1> QED BY <1>1, ViewCorrect, PTL

(* For any number of requests, in whatever order they are answered or fail: *)
(* a spinner has a request to wait for (wallets/page.tsx:77).               *)
THEOREM SpinnerHolds == Spec => []SpinnerHasRequest
<1>1. ViewInv => SpinnerHasRequest
  BY DEF ViewInv
<1> QED BY <1>1, ViewCorrect, PTL

-----------------------------------------------------------------------------
(* What the page shows.  Want says what page p should show for r, with URL  *)
(* u, selection sel and filter f; on the dashboard even a request that was  *)
(* sent early names the tenant of the URL.                                  *)
Want(p, u, sel, f, r) ==
  [of |-> IF p = "dashboard" THEN Header(u) ELSE sel,
   filter |-> IF r = "ledger" THEN f ELSE "ALL",
   early |-> p = "dashboard"]

Current(w, of, f, early) == (early => w.early) => of = w.of /\ f = w.filter

(* The last request of s for r is the i-th. *)
Latest(s, r, i) == i \in DOMAIN s /\ s[i].res = r /\ \A j \in DOMAIN s : j > i => s[j].res # r

(* The last request for r is on its way, and asks for what is wanted, ... *)
Coming(s, r, w) ==
  \E i \in DOMAIN s :
    Latest(s, r, i) /\ ~s[i].late /\ Current(w, s[i].to, s[i].filter, s[i].early)

(* ... or its answer is shown and those on their way come too late. *)
Come(s, r, w, got) ==
  /\ \A i \in DOMAIN s : s[i].res = r => s[i].late
  /\ got.why \in {"current", "early"} => Current(w, got.of, got.filter, got.why = "early")

UpTo(s, r, w, got) == Coming(s, r, w) \/ Come(s, r, w, got)

UpToDate == \A i \in DOMAIN Fetched(page) :
  LET r == Fetched(page)[i] IN UpTo(flights, r, Want(page, url, selected, filter, r), shown[r])

ShownInv == ViewInv /\ UpToDate

(* A request for what is wanted is the last of those sent.                  *)
LEMMA SentComes ==
  ASSUME NEW s \in Seq(Flights), NEW more \in Seq(Flights), NEW r, NEW w, NEW got, NEW k,
         Latest(more, r, k), ~more[k].late, Current(w, more[k].to, more[k].filter, more[k].early)
  PROVE  UpTo(s \o more, r, w, got)
<1> DEFINE i == Len(s) + k
<1>1. k \in 1..Len(more) /\ Len(s) \in Nat
  BY DEF Latest
<1>2. i \in DOMAIN (s \o more) /\ (s \o more)[i] = more[k]
  BY <1>1, SecondPart
<1>3. ASSUME NEW j \in DOMAIN (s \o more), j > i PROVE (s \o more)[j].res # r
  <2>1. j - Len(s) \in DOMAIN more /\ j - Len(s) > k /\ (s \o more)[j] = more[j - Len(s)]
    BY <1>1, <1>3
  <2> QED BY <2>1 DEF Latest
<1>4. Latest(s \o more, r, i)
  BY <1>2, <1>3 DEF Latest
<1> QED BY <1>2, <1>4 DEF UpTo, Coming

(* Requests for something else make no difference.                          *)
LEMMA SentElse ==
  ASSUME NEW s \in Seq(Flights), NEW more \in Seq(Flights), NEW r, NEW w, NEW got,
         \A k \in DOMAIN more : more[k].res # r, UpTo(s, r, w, got)
  PROVE  UpTo(s \o more, r, w, got)
<1>1. \A i \in DOMAIN s : i \in DOMAIN (s \o more) /\ (s \o more)[i] = s[i]
  OBVIOUS
<1>2. ASSUME NEW i \in DOMAIN (s \o more), (s \o more)[i].res = r
      PROVE  i \in DOMAIN s /\ (s \o more)[i] = s[i]
  <2>1. CASE i \in DOMAIN s
    BY <1>1, <2>1
  <2>2. CASE i \notin DOMAIN s
    <3>1. i - Len(s) \in DOMAIN more /\ (s \o more)[i] = more[i - Len(s)]
      BY <2>2
    <3> QED BY <1>2, <3>1
  <2> QED BY <2>1, <2>2
<1>3. \A i \in DOMAIN s : Latest(s, r, i) => Latest(s \o more, r, i)
  BY <1>1, <1>2 DEF Latest
<1>4. Coming(s, r, w) => Coming(s \o more, r, w)
  BY <1>1, <1>3 DEF Coming
<1>5. Come(s, r, w, got) => Come(s \o more, r, w, got)
  BY <1>2 DEF Come
<1> QED BY <1>4, <1>5 DEF UpTo

(* When a request is answered and those before it are late, the last one    *)
(* stays the last, or it was the last and its answer is shown.  s is the    *)
(* sequence with the late ones marked.                                      *)
LEMMA AnsweredUpTo ==
  ASSUME NEW s \in Seq(Flights), NEW t \in Seq(Flights), NEW i \in DOMAIN s, NEW r, NEW w, NEW got, NEW now,
         DOMAIN t = DOMAIN s,
         \A j \in DOMAIN s : t[j].res = s[j].res,
         \A j \in DOMAIN s : j < i /\ s[j].res = s[i].res => t[j].late,
         \A j \in DOMAIN s : ~(j < i /\ s[j].res = s[i].res) => t[j] = s[j],
         UpTo(s, r, w, got),
         s[i].res # r \/ s[i].late => now.why = "late" \/ now = got,
         s[i].res # r => now = got,
         s[i].res = r /\ ~s[i].late =>
           \/ now.why = "kept"
           \/ now.of = s[i].to /\ now.filter = s[i].filter /\ now.why = (IF s[i].early THEN "early" ELSE "current")
  PROVE  UpTo(RemoveAt(t, i), r, w, now)
<1> DEFINE q == RemoveAt(t, i)
<1>1. /\ q \in Seq(Flights) /\ DOMAIN q = 1..(Len(t) - 1)
      /\ \A k \in 1..(Len(t) - 1) : q[k] = IF k < i THEN t[k] ELSE t[k + 1]
  BY RemoveIs
<1>2. Len(t) \in Nat /\ Len(s) \in Nat /\ DOMAIN t = 1..Len(t) /\ DOMAIN s = 1..Len(s) /\ i \in 1..Len(t)
  OBVIOUS
<1> HIDE DEF q
<1>3. \A k \in DOMAIN q : \E j \in DOMAIN s : j # i /\ q[k] = t[j] /\ (j > i <=> k >= i) /\ j = (IF k < i THEN k ELSE k + 1)
  BY <1>1, <1>2
<1>4. CASE Coming(s, r, w)
  <2>1. PICK m \in DOMAIN s : /\ Latest(s, r, m) /\ ~s[m].late
                              /\ Current(w, s[m].to, s[m].filter, s[m].early)
    BY <1>4 DEF Coming
  <2>2. CASE m = i
    <3>1. ASSUME NEW k \in DOMAIN q, q[k].res = r PROVE q[k].late
      <4>1. PICK j \in DOMAIN s : j # i /\ q[k] = t[j]
        BY <1>3
      <4>2. s[j].res = r /\ j < i
        BY <1>2, <2>1, <2>2, <3>1, <4>1 DEF Latest
      <4> QED BY <2>1, <2>2, <4>1, <4>2 DEF Latest
    <3>2. s[i].res = r /\ ~s[i].late
      BY <2>1, <2>2 DEF Latest
    <3>3. s[i] \in Flights
      OBVIOUS
    <3>4. s[i].early \in BOOLEAN
      BY <3>3 DEF Flights
    <3>5. now.why \in {"current", "early"} => Current(w, now.of, now.filter, now.why = "early")
      BY <2>1, <2>2, <3>2, <3>4 DEF Current
    <3> QED BY <3>1, <3>5 DEF UpTo, Come, q
  <2>3. CASE m # i
    <3>1. ~(m < i /\ s[m].res = s[i].res)
      BY <1>2, <2>1, <2>3 DEF Latest
    <3>2. t[m] = s[m]
      BY <3>1
    <3> DEFINE n == IF m < i THEN m ELSE m - 1
    <3>3. n \in DOMAIN q /\ q[n] = t[m]
      BY <1>1, <1>2, <2>3
    <3>4. ASSUME NEW k \in DOMAIN q, k > n PROVE q[k].res # r
      <4>1. PICK j \in DOMAIN s : j # i /\ q[k] = t[j] /\ j = (IF k < i THEN k ELSE k + 1)
        BY <1>3
      <4>2. j > m
        BY <1>1, <1>2, <2>3, <3>3, <3>4, <4>1
      <4> QED BY <2>1, <4>1, <4>2 DEF Latest
    <3>5. Latest(q, r, n)
      BY <2>1, <3>2, <3>3, <3>4 DEF Latest
    <3>6. ~q[n].late /\ Current(w, q[n].to, q[n].filter, q[n].early)
      BY <2>1, <3>2, <3>3
    <3> QED BY <3>3, <3>5, <3>6 DEF UpTo, Coming, q
  <2> QED BY <2>2, <2>3
<1>5. CASE Come(s, r, w, got)
  <2>1. ASSUME NEW k \in DOMAIN q, q[k].res = r PROVE q[k].late
    <3>1. PICK j \in DOMAIN s : j # i /\ q[k] = t[j]
      BY <1>3
    <3>2. s[j].res = r /\ s[j].late
      BY <1>5, <2>1, <3>1 DEF Come
    <3> QED BY <3>1, <3>2
  <2>2. now.why = "late" \/ now = got
    BY <1>5 DEF Come
  <2>3. now.why \in {"current", "early"} => Current(w, now.of, now.filter, now.why = "early")
    BY <1>5, <2>2 DEF Come
  <2> QED BY <2>1, <2>3 DEF UpTo, Come, q
<1> QED BY <1>4, <1>5 DEF UpTo

(* Nor does it make a difference when another kind of request ends.         *)
LEMMA ElseUpTo ==
  ASSUME NEW s \in Seq(Flights), NEW i \in DOMAIN s, NEW r, NEW w, NEW got,
         s[i].res # r, UpTo(s, r, w, got)
  PROVE  UpTo(RemoveAt(s, i), r, w, got)
<1> DEFINE q == RemoveAt(s, i)
<1>1. /\ q \in Seq(Flights) /\ DOMAIN q = 1..(Len(s) - 1)
      /\ \A k \in 1..(Len(s) - 1) : q[k] = IF k < i THEN s[k] ELSE s[k + 1]
  BY RemoveIs
<1>2. i \in Nat /\ Len(s) \in Nat /\ DOMAIN s = 1..Len(s) /\ i \in 1..Len(s)
  OBVIOUS
<1> HIDE DEF q
<1>3. \A k \in DOMAIN q : \E j \in DOMAIN s : q[k] = s[j] /\ j = (IF k < i THEN k ELSE k + 1)
  BY <1>1, <1>2
<1>4. CASE Coming(s, r, w)
  <2>1. PICK m \in DOMAIN s : /\ Latest(s, r, m) /\ ~s[m].late
                              /\ Current(w, s[m].to, s[m].filter, s[m].early)
    BY <1>4 DEF Coming
  <2> DEFINE n == IF m < i THEN m ELSE m - 1
  <2>2. m # i /\ m \in Nat /\ m \in 1..Len(s)
    BY <1>2, <2>1 DEF Latest
  <2>3. n \in DOMAIN q /\ q[n] = s[m]
    BY <1>1, <1>2, <2>2
  <2>4. ASSUME NEW k \in DOMAIN q, k > n PROVE q[k].res # r
    <3>1. PICK j \in DOMAIN s : q[k] = s[j] /\ j = (IF k < i THEN k ELSE k + 1)
      BY <1>3
    <3>2. j > m
      BY <1>1, <1>2, <2>2, <2>4, <3>1
    <3> QED BY <2>1, <3>1, <3>2 DEF Latest
  <2>5. Latest(q, r, n)
    BY <2>1, <2>3, <2>4 DEF Latest
  <2> QED BY <2>1, <2>3, <2>5 DEF UpTo, Coming, q
<1>5. CASE Come(s, r, w, got)
  BY <1>3, <1>5 DEF UpTo, Come, q
<1> QED BY <1>4, <1>5 DEF UpTo

(* A page asks for a thing once.                                            *)
LEMMA FetchedOnce ==
  ASSUME NEW p \in Pages
  PROVE  /\ Fetched(p) \in Seq(Resource)
         /\ \A i, j \in DOMAIN Fetched(p) : Fetched(p)[i] = Fetched(p)[j] => i = j
<1>1. Fetched(p) \in {<<"payments", "wallets">>, <<"wallets", "ledger">>, <<"settlement">>, <<"wallets">>}
  BY DEF Fetched
<1>2. ASSUME NEW a, NEW b, a # b
      PROVE  \A i, j \in DOMAIN <<a, b>> : <<a, b>>[i] = <<a, b>>[j] => i = j
  BY <1>2
<1>3. ASSUME NEW a PROVE \A i, j \in DOMAIN <<a>> : <<a>>[i] = <<a>>[j] => i = j
  OBVIOUS
<1>4. "payments" # "wallets" /\ "wallets" # "ledger"
  OBVIOUS
<1> QED BY <1>1, <1>2, <1>3, <1>4, FetchedIsAwaited

(* A request sent by page p with filter f, URL u and selection sel asks for *)
(* what is wanted then.                                                     *)
LEMMA FlightWanted ==
  ASSUME NEW p, NEW r, NEW f, NEW u, NEW sel
  PROVE  LET fl == Flight(r, f, u, sel)
         IN  ~fl.late /\ Current(Want(p, u, sel, f, r), fl.to, fl.filter, fl.early)
BY DEF Flight, Current, Want

(* One such request after others.                                           *)
LEMMA OneComes ==
  ASSUME NEW s \in Seq(Flights), NEW p, NEW r \in Resource, NEW f \in Filters,
         NEW u \in Tenants \cup {NoTenant}, NEW sel \in Tenants, NEW got
  PROVE  UpTo(s \o <<Flight(r, f, u, sel)>>, r, Want(p, u, sel, f, r), got)
<1> DEFINE fl == Flight(r, f, u, sel)
           more == <<fl>>
<1>1. fl \in Flights /\ fl.res = r /\ ~fl.late /\ Current(Want(p, u, sel, f, r), fl.to, fl.filter, fl.early)
  BY FlightIsOne, FlightWanted
<1> HIDE DEF fl
<1>2. more \in Seq(Flights) /\ more[1] = fl /\ DOMAIN more = {1}
  BY <1>1
<1>3. Latest(more, r, 1)
  BY <1>1, <1>2 DEF Latest
<1> HIDE DEF more
<1>4. UpTo(s \o more, r, Want(p, u, sel, f, r), got)
  BY <1>1, <1>2, <1>3, SentComes
<1> QED BY <1>4 DEF fl, more

(* All that a page fetches after other requests.                            *)
LEMMA AllCome ==
  ASSUME NEW s \in Seq(Flights), NEW p \in Pages, NEW f \in Filters,
         NEW u \in Tenants \cup {NoTenant}, NEW sel \in Tenants, NEW i \in DOMAIN Fetched(p), NEW got
  PROVE  UpTo(s \o FetchAll(p, f, u, sel), Fetched(p)[i], Want(p, u, sel, f, Fetched(p)[i]), got)
<1> DEFINE more == FetchAll(p, f, u, sel)
           r == Fetched(p)[i]
<1>1. /\ Fetched(p) \in Seq(Resource)
      /\ \A j, k \in DOMAIN Fetched(p) : Fetched(p)[j] = Fetched(p)[k] => j = k
  BY FetchedOnce
<1>2. more \in Seq(Flights)
  BY FetchAllAwaited
<1>3. /\ DOMAIN more = DOMAIN Fetched(p)
      /\ \A j \in DOMAIN Fetched(p) : more[j] = Flight(Fetched(p)[j], f, u, sel)
  BY DEF FetchAll
<1>4. \A j \in DOMAIN more : more[j].res = Fetched(p)[j]
  BY <1>1, <1>3, FlightIsOne
<1>5. ~more[i].late /\ Current(Want(p, u, sel, f, r), more[i].to, more[i].filter, more[i].early)
  BY <1>3, FlightWanted
<1>6. \A j \in DOMAIN more : j > i => more[j].res # r
  <2>1. i \in Nat
    BY <1>1
  <2> QED BY <1>1, <1>3, <1>4, <2>1
<1>7. Latest(more, r, i)
  BY <1>3, <1>4, <1>6 DEF Latest
<1> HIDE DEF more, r
<1>8. UpTo(s \o more, r, Want(p, u, sel, f, r), got)
  BY <1>2, <1>5, <1>7, SentComes
<1> QED BY <1>8 DEF more, r

(* The ledger once more, without the filter, after other requests.          *)
LEMMA LedgerAgain ==
  ASSUME NEW s \in Seq(Flights), NEW all \in Seq(Flights), NEW p, NEW f \in Filters,
         NEW u \in Tenants \cup {NoTenant}, NEW sel \in Tenants, NEW r, NEW got,
         UpTo(s \o all, r, Want(p, u, sel, f, r), got)
  PROVE  UpTo(s \o (all \o <<Flight("ledger", "ALL", u, sel)>>), r, Want(p, u, sel, "ALL", r), got)
<1> DEFINE fl == Flight("ledger", "ALL", u, sel)
           more == <<fl>>
<1>1. "ALL" \in Filters /\ "ledger" \in Resource
  BY DEF Filters, Resource
<1>2. fl \in Flights /\ fl.res = "ledger"
  BY <1>1, FlightIsOne
<1>3. s \o all \in Seq(Flights)
  OBVIOUS
<1>4. UpTo((s \o all) \o more, "ledger", Want(p, u, sel, "ALL", "ledger"), got)
  BY <1>1, <1>3, OneComes
<1> HIDE DEF fl
<1>5. more \in Seq(Flights) /\ DOMAIN more = {1} /\ more[1] = fl
  BY <1>2
<1> HIDE DEF more
<1>6. ASSUME r # "ledger" PROVE UpTo((s \o all) \o more, r, Want(p, u, sel, "ALL", r), got)
  <2>1. Want(p, u, sel, "ALL", r) = Want(p, u, sel, f, r)
    BY <1>6 DEF Want
  <2>2. \A k \in DOMAIN more : more[k].res # r
    BY <1>2, <1>5, <1>6
  <2> QED BY <1>3, <1>5, <2>1, <2>2, SentElse
<1>7. UpTo((s \o all) \o more, r, Want(p, u, sel, "ALL", r), got)
  BY <1>4, <1>6
<1>8. (s \o all) \o more = s \o (all \o more)
  BY <1>5
<1>9. UpTo(s \o (all \o more), r, Want(p, u, sel, "ALL", r), got)
  BY <1>7, <1>8
<1> QED BY <1>9 DEF more, fl

(* All of it, and then the ledger again.                                    *)
LEMMA AllComeAgain ==
  ASSUME NEW s \in Seq(Flights), NEW p \in Pages, NEW f \in Filters,
         NEW u \in Tenants \cup {NoTenant}, NEW sel \in Tenants, NEW i \in DOMAIN Fetched(p), NEW got
  PROVE  UpTo(s \o (FetchAll(p, f, u, sel) \o <<Flight("ledger", "ALL", u, sel)>>), Fetched(p)[i],
              Want(p, u, sel, "ALL", Fetched(p)[i]), got)
BY AllCome, LedgerAgain, FetchAllAwaited

-----------------------------------------------------------------------------
(* Steps.                                                                   *)

(* Where what is wanted, what is shown and the requests stay, so does the   *)
(* rest.                                                                    *)
LEMMA StillUpToDate ==
  ASSUME UpToDate, UNCHANGED <<page, flights, shown>>,
         \A r : Want(page, url', selected', filter', r) = Want(page, url, selected, filter, r)
  PROVE  UpToDate'
BY DEF UpToDate

(* A page's effects ask again when something else is wanted.                *)
LEMMA RefetchUpToDate ==
  ASSUME ShownInv, NEW u \in Tenants \cup {NoTenant}, NEW sel \in Tenants,
         Refetch(u, sel), UNCHANGED <<page, shown>>, url' = u, selected' = sel
  PROVE  UpToDate'
<1> DEFINE all == FetchAll(page, filter, u, sel)
           again == <<Flight("ledger", "ALL", u, sel)>>
<1>1. page \in Pages /\ filter \in Filters /\ flights \in Seq(Flights) /\ UpToDate
  BY DEF ShownInv, ViewInv, TypeOK
<1>2. CASE flights' = flights \o all /\ filter' = filter
  <2> SUFFICES ASSUME NEW i \in DOMAIN Fetched(page)
               PROVE  UpTo(flights', Fetched(page)[i], Want(page, u, sel, filter, Fetched(page)[i]), shown[Fetched(page)[i]])
    BY <1>2 DEF UpToDate
  <2> QED BY <1>1, <1>2, AllCome
<1>3. CASE flights' = flights \o (all \o again) /\ filter' = "ALL"
  <2> SUFFICES ASSUME NEW i \in DOMAIN Fetched(page)
               PROVE  UpTo(flights', Fetched(page)[i], Want(page, u, sel, "ALL", Fetched(page)[i]), shown[Fetched(page)[i]])
    BY <1>3 DEF UpToDate
  <2> QED BY <1>1, <1>3, AllComeAgain
<1>4. CASE /\ IF page = "dashboard" THEN u = url ELSE sel = selected
           /\ UNCHANGED <<flights, loading, filter, form>>
  <2>1. \A r : Want(page, u, sel, filter, r) = Want(page, url, selected, filter, r)
    BY <1>4 DEF Want
  <2> QED BY <1>1, <1>4, <2>1, StillUpToDate
<1>5. all \in Seq(Flights)
  BY <1>1, FetchAllAwaited
<1>6. CASE page # "dashboard" /\ Send(all \o (IF filter = "ALL" THEN <<>> ELSE again)) /\ Reset
  <2>1. CASE filter = "ALL"
    <3>1. all \o <<>> = all
      BY <1>5
    <3> QED BY <1>2, <1>6, <2>1, <3>1 DEF Send, Reset
  <2>2. CASE filter # "ALL"
    BY <1>3, <1>6, <2>2 DEF Send, Reset
  <2> QED BY <2>1, <2>2
<1>7. CASE page = "dashboard" /\ Send(all) /\ UNCHANGED <<filter, form>>
  BY <1>2, <1>7 DEF Send
<1> QED BY <1>4, <1>6, <1>7 DEF Refetch

(* A page that is mounted asks for everything.                              *)
LEMMA MountUpToDate ==
  ASSUME NEW p \in Pages, NEW u \in Tenants \cup {NoTenant}, NEW sel \in Tenants,
         Mount(p, u, sel), page' = p, url' = u, selected' = sel
  PROVE  UpToDate'
<1>1. "ALL" \in Filters /\ <<>> \in Seq(Flights)
  BY DEF Filters
<1>2. flights' = FetchAll(p, "ALL", u, sel) /\ filter' = "ALL" /\ FetchAll(p, "ALL", u, sel) \in Seq(Flights)
  BY <1>1, FetchAllAwaited DEF Mount
<1>3. <<>> \o FetchAll(p, "ALL", u, sel) = FetchAll(p, "ALL", u, sel)
  BY <1>2
<1> SUFFICES ASSUME NEW i \in DOMAIN Fetched(p)
             PROVE  UpTo(flights', Fetched(p)[i], Want(p, u, sel, "ALL", Fetched(p)[i]), shown'[Fetched(p)[i]])
  BY <1>2 DEF UpToDate
<1> QED BY <1>1, <1>2, <1>3, AllCome

(* Tenants are chosen, links followed, navigations come through.            *)
LEMMA GoingUpToDate ==
  ASSUME ShownInv,
         \/ \E t \in Tenants : handleTenantChange(t)
         \/ \E p \in Pages : Go(p)
         \/ \E place \in Place : Arrive(place)
  PROVE  UpToDate'
<1>1. url \in Tenants \cup {NoTenant} /\ UpToDate
  BY DEF ShownInv, ViewInv, TypeOK
<1>2. ASSUME NEW t \in Tenants, handleTenantChange(t) PROVE UpToDate'
  BY <1>1, <1>2, RefetchUpToDate DEF handleTenantChange
<1>3. ASSUME NEW p \in Pages, Go(p) PROVE UpToDate'
  BY <1>1, <1>3, StillUpToDate DEF Go
<1>4. ASSUME NEW place \in Place, Arrive(place) PROVE UpToDate'
  <2>1. place.page \in Pages /\ place.tenant \in Tenants
    BY DEF Place
  <2>2. page' = place.page /\ url' = place.tenant /\ selected' = place.tenant
    BY <1>4 DEF Arrive
  <2>3. CASE place.page # page
    BY <1>4, <2>1, <2>2, <2>3, MountUpToDate DEF Arrive
  <2>4. CASE place.page = page
    BY <1>4, <2>1, <2>2, <2>4, RefetchUpToDate DEF Arrive
  <2> QED BY <2>3, <2>4
<1> QED BY <1>2, <1>3, <1>4

(* The page asks again, for another user, or has something saved.           *)
LEMMA UseUpToDate ==
  ASSUME ShownInv, Again \/ Save \/ ChooseWallet \/ \E f \in Filters : ChooseUser(f)
  PROVE  UpToDate'
<1>1. /\ page \in Pages /\ filter \in Filters /\ flights \in Seq(Flights) /\ UpToDate
      /\ url \in Tenants \cup {NoTenant} /\ selected \in Tenants
  BY DEF ShownInv, ViewInv, TypeOK
<1>2. ASSUME NEW i \in DOMAIN Fetched(page) PROVE Fetched(page)[i] \in Resource
  BY <1>1, FetchedIsAwaited
<1>3. CASE Again
  <2> SUFFICES ASSUME NEW i \in DOMAIN Fetched(page)
               PROVE  UpTo(flights', Fetched(page)[i], Want(page, url, selected, filter, Fetched(page)[i]), shown[Fetched(page)[i]])
    BY <1>3 DEF Again, UpToDate
  <2>1. flights' = flights \o FetchAll(page, filter, url, selected)
    BY <1>3 DEF Again, Send
  <2> QED BY <1>1, <2>1, AllCome
<1>4. CASE Save
  <2> SUFFICES ASSUME NEW i \in DOMAIN Fetched(page)
               PROVE  UpTo(flights', Fetched(page)[i], Want(page, url, selected, filter, Fetched(page)[i]), shown[Fetched(page)[i]])
    BY <1>4 DEF Save, UpToDate
  <2> DEFINE fl == Flight("save", filter, url, selected)
  <2>1. flights' = flights \o <<fl>>
    BY <1>4 DEF Save, Send
  <2>2. fl \in Flights /\ fl.res = "save"
    BY <1>1, FlightIsOne
  <2>3. Fetched(page)[i] # "save"
    BY <1>2 DEF Resource
  <2> HIDE DEF fl
  <2>4. <<fl>> \in Seq(Flights) /\ \A k \in DOMAIN <<fl>> : <<fl>>[k].res # Fetched(page)[i]
    BY <2>2, <2>3
  <2> QED BY <1>1, <2>1, <2>4, SentElse DEF UpToDate
<1>5. CASE ChooseWallet
  BY <1>1, <1>5, StillUpToDate DEF ChooseWallet
<1>6. ASSUME NEW f \in Filters, ChooseUser(f) PROVE UpToDate'
  <2> SUFFICES ASSUME NEW i \in DOMAIN Fetched(page)
               PROVE  UpTo(flights', Fetched(page)[i], Want(page, url, selected, f, Fetched(page)[i]), shown[Fetched(page)[i]])
    BY <1>6 DEF ChooseUser, UpToDate
  <2> DEFINE fl == Flight("ledger", f, url, selected)
             r == Fetched(page)[i]
  <2>1. flights' = flights \o <<fl>>
    BY <1>6 DEF ChooseUser, Send
  <2>2. CASE r = "ledger"
    BY <1>1, <1>2, <2>1, <2>2, OneComes
  <2>3. CASE r # "ledger"
    <3>1. Want(page, url, selected, f, r) = Want(page, url, selected, filter, r)
      BY <2>3 DEF Want
    <3>2. fl \in Flights /\ fl.res = "ledger"
      BY <1>1, FlightIsOne DEF Resource
    <3> HIDE DEF fl
    <3>3. <<fl>> \in Seq(Flights) /\ \A k \in DOMAIN <<fl>> : <<fl>>[k].res # r
      BY <2>3, <3>2
    <3>4. UpTo(flights, r, Want(page, url, selected, filter, r), shown[r])
      BY <1>1 DEF UpToDate
    <3> HIDE DEF r
    <3> QED BY <1>1, <2>1, <3>1, <3>3, <3>4, SentElse DEF r
  <2> QED BY <2>2, <2>3
<1> QED BY <1>3, <1>4, <1>5, <1>6

(* An answer that is shown is of the last request, or is marked late.       *)
LEMMA AnswerUpToDate ==
  ASSUME ShownInv, NEW i \in DOMAIN flights, NEW ok \in BOOLEAN, Answer(i, ok)
  PROVE  UpToDate'
<1> DEFINE fl == flights[i]
           marked == [j \in DOMAIN flights |->
              IF j < i /\ flights[j].res = flights[i].res THEN [flights[j] EXCEPT !.late = TRUE]
              ELSE flights[j]]
<1>1. /\ fl \in Flights /\ flights \in Seq(Flights) /\ UpToDate
      /\ flights' = RemoveAt(marked, i) /\ fl.res \in Resource
      /\ UNCHANGED <<page, url, selected, nav, filter, form>>
      /\ page \in Pages /\ shown \in [Resource -> [of : Tenants \cup {NoTenant}, filter : Filters,
                                                   why : {"current", "early", "late", "kept"}]]
  BY DEF Answer, Without, ShownInv, ViewInv, TypeOK
<1>2. \A j \in DOMAIN flights :
        /\ marked[j] \in Flights /\ marked[j].res = flights[j].res
        /\ j < i /\ flights[j].res = flights[i].res => marked[j].late
        /\ ~(j < i /\ flights[j].res = flights[i].res) => marked[j] = flights[j]
  <2> SUFFICES ASSUME NEW j \in DOMAIN flights
               PROVE  /\ marked[j] \in Flights /\ marked[j].res = flights[j].res
                      /\ j < i /\ flights[j].res = flights[i].res => marked[j].late
                      /\ ~(j < i /\ flights[j].res = flights[i].res) => marked[j] = flights[j]
    OBVIOUS
  <2>1. flights[j] \in Flights
    BY <1>1
  <2>2. /\ [flights[j] EXCEPT !.late = TRUE] \in Flights
        /\ [flights[j] EXCEPT !.late = TRUE].res = flights[j].res
        /\ [flights[j] EXCEPT !.late = TRUE].late
    BY <2>1 DEF Flights
  <2> QED BY <2>1, <2>2
<1>3. marked \in Seq(Flights) /\ DOMAIN marked = DOMAIN flights
  <2>1. DOMAIN marked = 1..Len(flights)
    BY <1>1
  <2> QED BY <1>1, <1>2, <2>1
<1> HIDE DEF marked
<1>4. \A r \in Resource :
        /\ fl.res # r => shown'[r] = shown[r]
        /\ fl.late => shown'[r].why = "late" \/ shown'[r] = shown[r]
        /\ fl.res = r /\ ~fl.late =>
             \/ shown'[r].why = "kept"
             \/ /\ shown'[r].of = fl.to /\ shown'[r].filter = fl.filter
                /\ shown'[r].why = IF fl.early THEN "early" ELSE "current"
  <2>1. CASE ok
    <3>1. shown' = [shown EXCEPT ![fl.res] = [of |-> fl.to, filter |-> fl.filter, why |-> Why(fl)]]
      BY <2>1 DEF Answer
    <3> QED BY <1>1, <3>1 DEF Why
  <2>2. CASE ~ok /\ fl.late
    <3>1. shown' = shown
      BY <2>2 DEF Answer
    <3> QED BY <2>2, <3>1
  <2>3. CASE ~ok /\ ~fl.late
    <3>1. shown' = [shown EXCEPT ![fl.res].why = "kept"]
      BY <2>3 DEF Answer
    <3> QED BY <1>1, <2>3, <3>1
  <2> QED BY <2>1, <2>2, <2>3
<1>5. ASSUME NEW k \in DOMAIN Fetched(page)
      PROVE  LET r == Fetched(page)[k]
             IN  UpTo(RemoveAt(marked, i), r, Want(page, url, selected, filter, r), shown'[r])
  <2> DEFINE r == Fetched(page)[k]
             w == Want(page, url, selected, filter, r)
             got == shown[r]
             now == shown'[r]
  <2>1. r \in Resource
    BY <1>1, FetchedIsAwaited
  <2>2. UpTo(flights, r, w, got)
    BY <1>1 DEF UpToDate
  <2>3. /\ flights[i].res # r \/ flights[i].late => now.why = "late" \/ now = got
        /\ flights[i].res # r => now = got
        /\ flights[i].res = r /\ ~flights[i].late =>
             \/ now.why = "kept"
             \/ /\ now.of = flights[i].to /\ now.filter = flights[i].filter
                /\ now.why = (IF flights[i].early THEN "early" ELSE "current")
    BY <1>4, <2>1
  <2> HIDE DEF r, w, got, now
  <2>4. UpTo(RemoveAt(marked, i), r, w, now)
    BY <1>1, <1>2, <1>3, <2>2, <2>3, AnsweredUpTo
  <2> QED BY <2>4 DEF r, w, now
<1> QED BY <1>1, <1>5 DEF UpToDate

(* Of saving, nothing is late, and the list is fetched again after it.      *)
LEMMA SavedUpToDate ==
  ASSUME ShownInv, NEW i \in DOMAIN flights, NEW ok \in BOOLEAN, Saved(i, ok)
  PROVE  UpToDate'
<1> DEFINE list == IF page = "dashboard" THEN "payments" ELSE "wallets"
           fl == Flight(list, filter, url, selected)
           kept == RemoveAt(flights, i)
<1>1. /\ flights[i].res = "save" /\ flights' = kept \o (IF ok THEN <<fl>> ELSE <<>>)
      /\ UNCHANGED <<page, url, selected, nav, filter, shown, form>>
  BY DEF Saved
<1>2. /\ page \in Pages /\ filter \in Filters /\ url \in Tenants \cup {NoTenant} /\ selected \in Tenants
      /\ flights \in Seq(Flights) /\ UpToDate
  BY DEF ShownInv, ViewInv, TypeOK
<1>3. list \in Resource /\ fl \in Flights /\ fl.res = list
  BY <1>2, FlightIsOne DEF Resource
<1>4. kept \in Seq(Flights)
  BY <1>2, RemoveIs
<1> SUFFICES ASSUME NEW k \in DOMAIN Fetched(page)
             PROVE  UpTo(flights', Fetched(page)[k], Want(page, url, selected, filter, Fetched(page)[k]), shown[Fetched(page)[k]])
  BY <1>1 DEF UpToDate
<1> DEFINE r == Fetched(page)[k]
           w == Want(page, url, selected, filter, r)
           got == shown[r]
<1>5. r # "save"
  BY <1>2, FetchedIsAwaited DEF Resource
<1>6. UpTo(flights, r, w, got)
  BY <1>2 DEF UpToDate
<1>7. UpTo(kept, r, w, got)
  <2> HIDE DEF r, w, got
  <2> QED BY <1>1, <1>2, <1>5, <1>6, ElseUpTo DEF kept
<1>8. CASE ok /\ r = list
  BY <1>1, <1>2, <1>3, <1>4, <1>8, OneComes
<1>9. CASE ok /\ r # list
  <2> HIDE DEF r, w, got, fl, kept
  <2>1. <<fl>> \in Seq(Flights) /\ \A n \in DOMAIN <<fl>> : <<fl>>[n].res # r
    BY <1>3, <1>9
  <2>2. UpTo(kept \o <<fl>>, r, w, got)
    BY <1>4, <1>7, <2>1, SentElse
  <2> QED BY <1>1, <1>9, <2>2 DEF r, w, got
<1>10. CASE ~ok
  <2> HIDE DEF r, w, got, kept
  <2>1. kept \o <<>> = kept
    BY <1>4
  <2> QED BY <1>1, <1>7, <1>10, <2>1 DEF r, w, got
<1> QED BY <1>8, <1>9, <1>10

(* The page starts by asking for everything, or has nothing yet.            *)
LEMMA InitShown == Init => ShownInv
<1> SUFFICES ASSUME Init PROVE ShownInv
  OBVIOUS
<1>1. ViewInv
  BY InitView
<1>2. "ALL" \in Filters /\ <<>> \in Seq(Flights) /\ page \in Pages /\ url \in Tenants \cup {NoTenant} /\ selected \in Tenants
  BY <1>1 DEF Filters, ViewInv, TypeOK
<1>3. CASE page = "dashboard" /\ url = NoTenant
  <2>1. flights = <<>> /\ \A i \in DOMAIN Fetched(page) : shown[Fetched(page)[i]] = Nothing
    BY <1>3 DEF Init, Fetched, Resource
  <2>2. \A r, w : Come(<<>>, r, w, Nothing)
    BY DEF Come, Nothing
  <2> QED BY <1>1, <2>1, <2>2 DEF ShownInv, UpToDate, UpTo
<1>4. CASE ~(page = "dashboard" /\ url = NoTenant)
  <2>1. flights = FetchAll(page, "ALL", url, selected) /\ filter = "ALL"
        /\ FetchAll(page, "ALL", url, selected) \in Seq(Flights)
    BY <1>2, <1>4, FetchAllAwaited DEF Init
  <2>2. <<>> \o FetchAll(page, "ALL", url, selected) = FetchAll(page, "ALL", url, selected)
    BY <2>1
  <2>3. ASSUME NEW i \in DOMAIN Fetched(page)
        PROVE  UpTo(flights, Fetched(page)[i], Want(page, url, selected, "ALL", Fetched(page)[i]), shown[Fetched(page)[i]])
    BY <1>2, <2>1, <2>2, AllCome
  <2> QED BY <1>1, <2>1, <2>3 DEF ShownInv, UpToDate
<1> QED BY <1>3, <1>4

(* The invariant is inductive.                                              *)
LEMMA NextShown == ShownInv /\ [Next]_vars => ShownInv'
<1> SUFFICES ASSUME ShownInv, [Next]_vars PROVE ShownInv'
  OBVIOUS
<1>1. ViewInv' /\ nav \subseteq Place
  BY NextView DEF ShownInv, ViewInv, TypeOK
<1>2. CASE (\E t \in Tenants : handleTenantChange(t)) \/ (\E p \in Pages : Go(p)) \/ NavArrives \/ Back
  BY <1>1, <1>2, GoingUpToDate DEF NavArrives, Back, ShownInv
<1>3. CASE Again \/ ChooseWallet \/ Save \/ \E f \in Filters : ChooseUser(f)
  BY <1>1, <1>3, UseUpToDate DEF ShownInv
<1>4. CASE \E i \in DOMAIN flights, ok \in BOOLEAN : Answer(i, ok) \/ Saved(i, ok)
  BY <1>1, <1>4, AnswerUpToDate, SavedUpToDate DEF ShownInv
<1>5. CASE UNCHANGED vars
  <2>1. UpToDate'
    BY <1>5, StillUpToDate DEF ShownInv, vars
  <2> QED BY <1>1, <2>1 DEF ShownInv
<1> QED BY <1>2, <1>3, <1>4, <1>5 DEF Next

(* ShownInv holds in every reachable state.                                 *)
THEOREM ShownCorrect == Spec => []ShownInv
BY InitShown, NextShown, PTL DEF Spec

(* For every set of tenants and any number of requests, answered in any     *)
(* order or failing: at rest a page shows the tenant and the user selected, *)
(* unless the last request failed, was overtaken or was sent before the URL *)
(* had changed (wallets/page.tsx:84, ledger/page.tsx:90).                   *)
THEOREM ShownIsSelectedHolds == Spec => []ShownIsSelected
<1>1. ShownInv => ShownIsSelected
  <2> SUFFICES ASSUME ShownInv, nav = {}, flights = <<>>, NEW i \in DOMAIN Fetched(page),
                      \/ shown[Fetched(page)[i]].why = "current"
                      \/ page = "dashboard" /\ shown[Fetched(page)[i]].why = "early"
               PROVE  /\ shown[Fetched(page)[i]].of = selected
                      /\ shown[Fetched(page)[i]].filter = IF Fetched(page)[i] = "ledger" THEN filter ELSE "ALL"
    BY DEF ShownIsSelected
  <2> DEFINE r == Fetched(page)[i]
             w == Want(page, url, selected, filter, r)
  <2>1. url = selected /\ selected \in Tenants
    BY DEF ShownInv, ViewInv, TypeOK, UrlFollows
  <2>2. UpTo(flights, r, w, shown[r])
    BY DEF ShownInv, UpToDate
  <2>3. Come(flights, r, w, shown[r])
    BY <2>2 DEF UpTo, Coming, Latest
  <2>4. shown[r].of = w.of /\ shown[r].filter = w.filter
    <3>1. w.early <=> page = "dashboard"
      BY DEF Want
    <3> HIDE DEF w, r
    <3>2. shown[r].why = "current" \/ (w.early /\ shown[r].why = "early")
      BY <3>1 DEF r
    <3> QED BY <2>3, <3>2 DEF Come, Current
  <2>5. w.of = selected /\ w.filter = IF r = "ledger" THEN filter ELSE "ALL"
    BY <2>1, TenantViewsAssumption DEF Want, Header
  <2> QED BY <2>4, <2>5
<1> QED BY <1>1, ShownCorrect, PTL
=============================================================================
