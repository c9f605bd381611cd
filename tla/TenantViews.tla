---------------------------- MODULE TenantViews -----------------------------
(***************************************************************************)
(* The pages below frontend/src/app/dashboard and their layout: which      *)
(* tenant is selected, which one the URL names, which one's data the page  *)
(* shows.  The interceptor of lib/api.ts overwrites the tenant a page asks *)
(* for with the one in window.location, which changes only when a          *)
(* navigation of the router has come through.  Answers arrive in any       *)
(* order, or fail.  A request that an effect repeats with the same header  *)
(* is modelled once.                                                       *)
(***************************************************************************)
EXTENDS Integers, Sequences, SequencesExt

CONSTANTS
  Tenants, NoTenant,
  Home,        \* localStorage.tenantId
  MaxFlights   \* bound: requests on their way

ASSUME TenantViewsAssumption ==
  NoTenant \notin Tenants /\ Home \in Tenants /\ MaxFlights \in Nat

VARIABLES
  page,      \* the page of the dashboard
  url,       \* ?tenant of window.location
  selected,  \* selectedTenant of the layout
  nav,       \* where the router is going: a set of at most one place
  filter,    \* selectedUser of the ledger
  flights,   \* requests on their way, in the order they were sent
  shown,     \* what the page got for a resource, and why it may be out of date
  loading,   \* the page shows its spinner
  form       \* the wallets chosen for a transfer, as a set of at most one choice

vars == <<page, url, selected, nav, filter, flights, shown, loading, form>>

Pages == {"dashboard", "wallets", "transfer", "ledger", "settlement"}
Place == [page : Pages, tenant : Tenants]
Filters == {"ALL", "one"}
Resource == {"wallets", "payments", "ledger", "settlement"}

(* What a page fetches, in this order, ... *)
Fetched(p) ==
  CASE p = "dashboard" -> <<"payments", "wallets">>
    [] p = "ledger" -> <<"wallets", "ledger">>
    [] p = "settlement" -> <<"settlement">>
    [] OTHER -> <<"wallets">>

(* ... and of that, what its spinner waits for. *)
Awaited(p) ==
  CASE p = "dashboard" -> {}
    [] p \in {"ledger", "settlement"} -> {p}
    [] OTHER -> {"wallets"}

Nothing == [of |-> NoTenant, filter |-> "ALL", why |-> "kept"]

TypeOK ==
  /\ page \in Pages
  /\ url \in Tenants \cup {NoTenant} /\ selected \in Tenants
  /\ nav \subseteq Place /\ \A p, q \in nav : p = q
  /\ filter \in Filters /\ (filter = "ALL" \/ page = "ledger")
  /\ \A i \in DOMAIN flights :
       flights[i] \in [res : Resource \cup {"save"}, to : Tenants, filter : Filters,
                       early : BOOLEAN, late : BOOLEAN]
  /\ shown \in [Resource -> [of : Tenants \cup {NoTenant}, filter : Filters,
                             why : {"current", "early", "late", "kept"}]]
  /\ loading \in BOOLEAN /\ (loading => Awaited(page) # {})
  /\ form \subseteq [of : Tenants \cup {NoTenant}, clean : BOOLEAN] /\ \A f, g \in form : f = g

-----------------------------------------------------------------------------
(* Requests.                                                                *)

(* Mutant of Header: no look at localStorage. *)
HeaderOfUrl(u) == u

Header(u) == IF u # NoTenant THEN u ELSE Home

(* A request under URL u with sel selected. *)
Flight(r, f, u, sel) ==
  [res |-> r, to |-> Header(u), filter |-> IF r = "ledger" THEN f ELSE "ALL",
   early |-> Header(u) # sel, late |-> FALSE]

FetchAll(p, f, u, sel) == [i \in DOMAIN Fetched(p) |-> Flight(Fetched(p)[i], f, u, sel)]

Room(more) == Len(flights) + Len(more) <= MaxFlights

Send(more) ==
  /\ Room(more)
  /\ flights' = flights \o more
  /\ loading' = (loading \/ \E i \in DOMAIN more : more[i].res \in Awaited(page))

(* Mutant of Reset: the form stays. *)
ResetNothing == filter' = "ALL" /\ UNCHANGED form

(* What the pages reset when the tenant changes: the transfer its form, the *)
(* ledger its filter.                                                       *)
Reset ==
  /\ filter' = "ALL"
  /\ form' = {}

(* Mutant of Refetch: the effect runs once. *)
RefetchNever(u, sel) == UNCHANGED <<flights, loading, filter, form>>

(* The page's effects when URL and selection become u and sel.  The ledger  *)
(* asks with the old filter before it asks without.                         *)
Refetch(u, sel) ==
  LET again == IF filter = "ALL" THEN <<>> ELSE <<Flight("ledger", "ALL", u, sel)>> IN
  \/ /\ page = "dashboard" /\ u # url
     /\ Send(FetchAll(page, filter, u, sel))
     /\ UNCHANGED <<filter, form>>
  \/ /\ page # "dashboard" /\ sel # selected
     /\ Send(FetchAll(page, filter, u, sel) \o again)
     /\ Reset
  \/ /\ IF page = "dashboard" THEN u = url ELSE sel = selected
     /\ UNCHANGED <<flights, loading, filter, form>>

(* A page is shown for the first time: what the former one waited for is    *)
(* of no interest.                                                          *)
Mount(p, u, sel) ==
  /\ flights' = FetchAll(p, "ALL", u, sel)
  /\ loading' = (Awaited(p) # {})
  /\ shown' = [r \in Resource |-> Nothing]
  /\ filter' = "ALL" /\ form' = {}

(* The layout's first effect: with no tenant in the URL, one stored before  *)
(* is selected and navigated to; the dashboard asks nothing until then.     *)
Init ==
  /\ page \in Pages /\ url \in Tenants \cup {NoTenant}
  /\ selected \in IF url = NoTenant THEN Tenants ELSE {url}
  /\ nav = IF url = NoTenant THEN {[page |-> page, tenant |-> selected]} ELSE {}
  /\ flights = IF page = "dashboard" /\ url = NoTenant THEN <<>>
               ELSE FetchAll(page, "ALL", url, selected)
  /\ loading = (Awaited(page) # {})
  /\ shown = [r \in Resource |-> Nothing]
  /\ filter = "ALL" /\ form = {}

-----------------------------------------------------------------------------
(* Going places.  A navigation discards the one before.                     *)

(* Mutant of handleTenantChange: no router.push. *)
handleTenantChangeStaying(t) ==
  /\ t # selected
  /\ selected' = t
  /\ Refetch(url, t)
  /\ UNCHANGED <<page, url, nav, shown>>

handleTenantChange(t) ==
  /\ t # selected
  /\ selected' = t
  /\ nav' = {[page |-> page, tenant |-> t]}
  /\ Refetch(url, t)
  /\ UNCHANGED <<page, url, shown>>

Go(p) ==
  /\ nav' = {[page |-> p, tenant |-> selected]}
  /\ UNCHANGED <<page, url, selected, filter, flights, shown, loading, form>>

(* The URL is that of place, the layout selects its tenant. *)
Arrive(place) ==
  /\ page' = place.page /\ url' = place.tenant /\ selected' = place.tenant
  /\ nav' = {}
  /\ IF place.page # page THEN Mount(place.page, place.tenant, place.tenant)
     ELSE Refetch(place.tenant, place.tenant) /\ UNCHANGED shown

NavArrives == \E place \in nav : Arrive(place)

(* To another place: the layout's effect does not run again for the same.   *)
Back == \E place \in Place \ {[page |-> page, tenant |-> url]} : Arrive(place)

-----------------------------------------------------------------------------
(* Using a page.                                                            *)

(* The wallets' button, the dashboard's SWITCH TENANT VIEW. *)
Again ==
  /\ page \in {"dashboard", "wallets"} /\ ~loading
  /\ Send(FetchAll(page, filter, url, selected))
  /\ UNCHANGED <<page, url, selected, nav, filter, shown, form>>

ChooseUser(f) ==
  /\ page = "ledger" /\ f # filter
  /\ filter' = f
  /\ Send(<<Flight("ledger", f, url, selected)>>)
  /\ UNCHANGED <<page, url, selected, nav, shown, form>>

ChooseWallet ==
  /\ page = "transfer" /\ ~loading
  /\ shown["wallets"].of # NoTenant
  /\ form' = {[of |-> shown["wallets"].of, clean |-> shown["wallets"].of = selected]}
  /\ UNCHANGED <<page, url, selected, nav, filter, flights, shown, loading>>

(* A payment is created, completed or deleted, a wallet created, or money   *)
(* transferred, if the wallet is in the list; one transfer at a time.       *)
Save ==
  /\ page \in {"dashboard", "transfer", "wallets"} /\ ~loading
  /\ page = "transfer" => /\ form # {} /\ shown["wallets"].of # NoTenant
                          /\ \A i \in DOMAIN flights : flights[i].res # "save"
  /\ Send(<<Flight("save", filter, url, selected)>>)
  /\ UNCHANGED <<page, url, selected, nav, filter, shown, form>>

(* The requests before i for the same resource are late from now on. *)
Without(i) ==
  RemoveAt([j \in DOMAIN flights |->
              IF j < i /\ flights[j].res = flights[i].res THEN [flights[j] EXCEPT !.late = TRUE]
              ELSE flights[j]], i)

Why(fl) == IF fl.late THEN "late" ELSE IF fl.early THEN "early" ELSE "current"

(* Mutant of Loaded: not in a finally. *)
LoadedUnlessFailed(r, ok) == loading' = (loading /\ ~(ok /\ r \in Awaited(page)))

(* The finally of a fetch. *)
Loaded(r, ok) == loading' = (loading /\ r \notin Awaited(page))

Answer(i, ok) ==
  LET fl == flights[i]  r == fl.res IN
  /\ r \in Resource
  /\ flights' = Without(i)
  /\ Loaded(r, ok)
  /\ shown' =
       IF ok THEN [shown EXCEPT ![r] = [of |-> fl.to, filter |-> fl.filter, why |-> Why(fl)]]
       ELSE IF fl.late THEN shown ELSE [shown EXCEPT ![r].why = "kept"]
  /\ UNCHANGED <<page, url, selected, nav, filter, form>>

(* After a success the list is fetched again.                               *)
Saved(i, ok) ==
  LET list == IF page = "dashboard" THEN "payments" ELSE "wallets" IN
  /\ flights[i].res = "save"
  /\ flights' = RemoveAt(flights, i) \o IF ok THEN <<Flight(list, filter, url, selected)>> ELSE <<>>
  /\ loading' = (loading \/ (ok /\ list \in Awaited(page)))
  /\ UNCHANGED <<page, url, selected, nav, filter, shown, form>>

Next ==
  \/ \E t \in Tenants : handleTenantChange(t)
  \/ \E p \in Pages : Go(p)
  \/ NavArrives \/ Back \/ Again \/ ChooseWallet \/ Save
  \/ \E f \in Filters : ChooseUser(f)
  \/ \E i \in DOMAIN flights, ok \in BOOLEAN : Answer(i, ok) \/ Saved(i, ok)

Spec == Init /\ [][Next]_vars

-----------------------------------------------------------------------------

(* At rest the page shows the tenant (and the user) selected, unless the    *)
(* last request for it failed, was overtaken, or was sent before the URL    *)
(* had changed; the dashboard asks again then (page.tsx:132), the other     *)
(* pages do not (wallets/page.tsx:84, transfer/page.tsx:60, ledger/page.tsx: *)
(* 90, settlement/page.tsx:62).                                             *)
ShownIsSelected ==
  nav = {} /\ flights = <<>> =>
    \A i \in DOMAIN Fetched(page) :
      LET r == Fetched(page)[i]  s == shown[r] IN
      s.why = "current" \/ (page = "dashboard" /\ s.why = "early")
        => s.of = selected /\ s.filter = IF r = "ledger" THEN filter ELSE "ALL"

(* The transfer is sent to the tenant in whose list its wallets were        *)
(* chosen, however tenants, lists and answers have changed since, once the  *)
(* URL has caught up, if the list was that of the tenant selected           *)
(* (transfer/page.tsx:51 to 60).                                            *)
ChosenWhereSent ==
  page = "transfer" /\ url = selected =>
    \A choice \in form : choice.clean => choice.of = Header(url)

(* A spinner never outlives the request it waits for, however requests      *)
(* overlap and fail (wallets/page.tsx:77, ledger/page.tsx:84, ...).         *)
SpinnerHasRequest ==
  loading => \E i \in DOMAIN flights : flights[i].res \in Awaited(page)

(* When the tenant selected is not the one requests are sent to, the router *)
(* is on its way there (layout.tsx:48 to 57, 83 to 88).                     *)
UrlFollows ==
  url # selected => \E place \in nav : place.tenant = selected
=============================================================================
