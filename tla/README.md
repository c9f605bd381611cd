# Formal verification of the Multi-Tenant Payment Platform

TLA+ specifications of the payment platform in this repository, the TLC
configurations that model-check them on small instances, and theorems about
them that TLAPS checks for every value of the constants.

    tlc -workers 2 -config Wallets.cfg MCWallets      # one run; PROJECT.json lists them all
    tlapm WalletsProofs.tla                           # and the other *Proofs modules

`PROJECT.json` is the index: components and their status, runs, the source
lines each definition stands for, a mutant of the code for every property
(a plausible bug that the property must catch), hazards, findings, theorems.
A run is named `name`, its configuration and module are beside it there.

## 1. The system

A NestJS server (`src/src`) keeps the money of several tenants (banks) in
MongoDB, with Redis for caches, counters and refresh tokens, and a Next.js
dashboard (`src/frontend`) calls it. Every request goes

    TenantMiddleware -> guards (rate limit, JWT, tenant match, roles) -> controller
      -> service -> BaseTenantRepository -> MongoDB

| Component | State it keeps | Operations | Talks to |
|---|---|---|---|
| Wallets and ledger (`wallets/transfer.service.ts`) | wallets, ledger entries (MongoDB) | `transfer`, `deposit`, `createWallet`, reads | MongoDB transactions |
| Payments (`payments/payment.service.ts`) | payments (MongoDB) | `create`, `update`, `remove`, reads | `deposit`, usage counters |
| Usage (`usage/usage-tracking.service.ts`) | monthly counters (Redis) | `trackApiCall`, `trackTransaction`, `hasExceededTransactionLimit` | called by payments and by the guard |
| Tenant lookup (`tenant/tenant.service.ts`) | tenants (MongoDB), cached tenants (Redis, TTL) | `findBySlug`, `findById`, `findByCustomDomain`, `create` | the middleware |
| Cache invalidation (`tenant/tenant-cache-invalidation.service.ts`) | the change stream, reconnect attempts | change events, errors, reconnection | MongoDB change stream, Redis `DEL` |
| Rate limit (`common/guards/rate-limit.guard.ts`) | one counter per tenant and minute (Redis) | `canActivate` | usage, tenant context |
| Tenant resolution and guards (`tenant/tenant.middleware.ts`, `auth/guards`) | the tenant of the request | resolve by subdomain, header, token; compare | tenant lookup |
| Tenant-scoped repository (`common/repositories`) | none | every query gets the request's tenant and `deletedAt: null` | MongoDB |
| Sign-in and sessions (`auth/auth.service.ts`) | refresh tokens (Redis, 7 days), the access cookie | `login`, `refresh`, `logout`, `me` | users |
| Browser sessions (`frontend/src/lib/api.ts`, `login/page.tsx`, `middleware.ts`) | cookies and local storage, shared by the tabs; requests on their way | tenant header, sign-in, refresh after 401, `syncUser` | the API |
| Dashboard pages (`frontend/src/app/dashboard`) | tenant selected, URL, lists, form, spinner of a page | choose a tenant or page, fetch, save | the API, the router |

What is hard in it, and what would make each part correct:

* **Money moves under concurrency.** Requests interleave at every `await`.
  The checks of a transfer are outside its transaction, its writes inside,
  and the callback may run several times. Correct: money and ledger change
  together or not at all, no overdraft, an answer that agrees with what
  happened, opposite transfers do not block each other for ever.
* **A payment spans three stores** (MongoDB document, Redis counter, wallet
  transaction) with no transaction over them. Correct: deposited exactly when
  it becomes completed; the quota holds; deleted payments stay as they are.
* **A cache is invalidated from a stream that may fail**, races with lookups
  that fill it, and is keyed by names that change. Correct: stale only for a
  known reason, and never for ever.
* **A counter decides who is refused.** Correct: never more than the limit per
  window, nobody refused because of someone else's requests, nothing counted
  that was refused.
* **Identity is copied** into tokens, cookies and local storage. Correct: a
  request touches only the tenant it was resolved to, and for ordinary users
  only their own; a deactivated user is out when their tokens have expired;
  cookie, storage and page agree on who is signed in.
* **Answers arrive when they like.** A page shows what it asked for some time
  ago, for a tenant that may no longer be selected; several requests refresh one
  session together. Correct: what is shown belongs to what is selected, money
  goes to the tenant it was meant for, a session ends only when it is no longer
  good, every request ends.

The hazards of the code, each at its line, are in `PROJECT.json` with the
properties that would catch them.

## 2. Plan

| # | Module | Models | Builds on | State |
|---|---|---|---|---|
| 1 | `Accounts` | what wallets and ledger promise, one step per operation | – | done |
| 2 | `Wallets` | `TransferService` between awaits, MongoDB transactions | extends `Accounts`, implements it | done |
| 3 | `WalletsProofs` | theorems about 2 | `Wallets` | done |
| 4 | `Payments` | `PaymentService` with quota and deposits | extends `Accounts` | done |
| 5 | `TenantCache` | tenant lookup, TTL, change stream | – | done |
| 6 | `RateLimit` | the guard's counters | – | done |
| 7 | `TenantRequest` | middleware, guards and repository: from host, header and token to a scoped query, with tenants changing meanwhile | lookups as in 5 | done |
| 8 | `TenantRequestProofs` | theorems about 7 | `TenantRequest` | done |
| 9 | `Sessions` | tokens: sign-in, refresh, logout, deactivation | – | done |
| 10 | `ApiClient` | tabs of a browser: interceptors, sign-in, page guard, `syncUser` | extends `Sessions` | done |
| 11 | `ApiClientProofs` | theorems about 10 | `ApiClient` | done |
| 12 | `ChangeFeed` | what the change stream promises the cache | – | done |
| 13 | `ChangeStream` | streams, listeners, timers, backoff, shutdown | implements `ChangeFeed` | done |
| 14 | `Sums` | what a sum over a finite set is, for the proofs of 3 and 17 to 19 | – | done |
| 15 | `TenantViews` | the dashboard pages: selection, URL, requests, answers | – | done |
| 16 | `TenantViewsProofs` | theorems about 15 | `TenantViews` | done |
| 17 | `RateLimitProofs` | theorems about 6 | `RateLimit`, 14 | done |
| 18 | `PaymentsProofs` | theorems about 4 | `Payments`, 14 | done |
| 19 | `TenantCacheProofs` | theorems about 5 and 13 | `TenantCache`, `ChangeStream`, 14 | done |

`ChangeStream` prefixes its `StreamInit`, `StreamNext`, `StreamSpec`, `StreamTypeOK`
because one module, 19, extends it and `TenantCache` both, as `Accounts` does for
the modules that extend it.

The modules are written to be proved about: constants with named assumptions,
one action per step, no `RECURSIVE`, recursion only through the folds of the
community modules. Runs stay at two or three concurrent actors and two tenants:
the hazards listed need at most two racing actors and one change between them;
for more of everything the theorems stand in.

## 3. Accounts and Wallets

`Accounts` is one tenant's collections `wallets` (`balance`, `currency`) and
`ledger`, with three atomic steps: `Open`, `Transfer(e)` and `Deposit(e)` for a
ledger entry `e`. `opening` is a history variable: the balance a wallet began
with. Every query of the code carries the tenant (`BaseTenantRepository`), so
one tenant at a time is modelled and wallets are keyed by `userId`.

`Wallets` is `TransferService` step by step. `pc[r]` names the await request `r`
is waiting for:

| Code | Actions |
|---|---|
| `transfer`: first read; second read and checks | `StartTransfer`; `ReadTo` (`Admissible`) |
| `withTransaction`: `$gte` debit, credit, ledger entry, commit | `Debit`, `Credit`, `Log`, `Commit` |
| transient error, time limit or other error, lost acknowledgement | `Retry`, `GiveUp`, `CommitUnacked` |
| the two reads that build the answer | `Reread` |
| `deposit` | `StartDeposit`, then `Credit`, `Log`, `Commit` |
| `createWallet` | `StartCreate`, `InsertWallet` (unique index) |
| process stops, or a call outside the transaction throws | `Crash` |

MongoDB is modelled from how the code uses it: `staged` are the writes of an
open transaction, invisible to others; a write to a document another
transaction has written, or has committed since the snapshot (`stale`), is
refused, which is why `Debit` and `Credit` are not enabled then and only
`Retry` or `GiveUp` are.

Abstractions: amounts are natural numbers in the smallest unit (IEEE doubles
are not modelled); `Upper` is `toUpperCase`; descriptions, owner names and
timestamps are left out; reads that change nothing are left out.

| Run | Instance | Shows |
|---|---|---|
| `wallets` | 2 users, 2 requests of any kind, currencies `INR`, `inr`, `USD`, amounts around the balance and below the ledger's minimum, 1 retry | all safety properties, that every step implements `Accounts`, and `AnsweredEventually` |

Two wallets are enough because a step touches at most two; two requests are
enough for opposite transfers, two debits of one wallet, a deposit or a new
wallet between the checks and the writes of a transfer, and a commit that makes
the other's snapshot stale. For more requests the theorems of section 4 stand in.
`MaxTries` bounds the retries that `withTransaction` bounds by 120 seconds.

*Fairness* (`FairSpec`): weak fairness of each request's own next step. Node
runs every settled promise, the driver settles every call (by an answer or its
own time limits, `GiveUp`). No request has to arrive, and no particular outcome
is promised fairness.

## 4. What is proved of Wallets (`WalletsProofs`)

For every set of users, requests, currencies and amounts, from the assumptions
`AccountsAssumption` and `WalletsAssumption` only:

* `TypeCorrect`, `NeverOverdrawn`, `LedgerCurrencyAgrees`, `AnswersTellTheTruth`:
  the invariants of the same subject that TLC checks;
* `DebitsStayCovered`: what an open transaction has debited stays covered until it
  commits, which is what `NeverOverdrawn` rests on;
* `Implementation`: `Spec => AccountsSpec`, the refinement TLC checks as a property.

None of these is inductive alone. `NoOverdraft` at a commit needs to know that
the staged debit is still covered although other transactions committed
meanwhile; that needs that no two open transactions write the same wallet
(`WritersExclude`) and that what is staged is exactly what the program counter
says (`StagedInv`); the currency of an entry needs that the checks made before
the transaction still hold inside it (`RequestInv`: a wallet is never removed
and never changes its currency); that a request has one entry at most needs
that entries belong to requests whose transaction is over (`LedgerInv`).
`WalletsInv` is their conjunction. The proof has one step lemma per conjunct
(`RequestStep`, `StagedStep`, `WritersStep`, `BalanceStep`, `LedgerStep`,
`LedgerCurrencyStep`) and in each a case per action; `StageEffect`, `LogEffect`,
`CommitFacts`, `AddCredited` state what a write or a commit does to the state.
For the refinement `StepRefines` shows that a commit is a `Transfer` or
`Deposit`, an insertion an `Open`, and everything else a stutter.

`LedgerExplains` comes from the refinement: `AccountsCorrect` proves for `Accounts`
that every balance is its opening balance plus what the ledger adds up to, and
`Implementation` carries it over to every interleaving of the code's steps, whose
writes need not be looked at again. `AccountsInv` says besides that the ledger is
finite, so that it has a sum, and that its entries name users with a wallet
(`LedgerCurrency`), so that a new wallet's opening balance is all there is to
explain (`OpeningExplained`); `EntryExplained` is a transfer or deposit, which
changes the balances and the sums by the same amount (`MoneyMoves`).

Only model-checked: `AnsweredEventually`, liveness.

## 5. Payments

`PaymentService` with the monthly counter of `UsageTrackingService`, over the
atomic `Deposit` of `Accounts` (what `Implementation` proves of the real one; it
may also fail without effect, or take effect and be answered with an error).
`create` is `Create` (quota check), `Insert`, `Track`, `DepositToWallet`;
`update` is `Update` (the read), `Write`, `DepositToWallet`; `remove` is one
step. `Fail` and `Crash` can end a call at each await. `completions` is a history
variable counting how often a status became completed; `raced` collects the
payments whose stored status was another at an update's write than at its read.

| Run | Instance | Shows |
|---|---|---|
| `payments_concurrent` | 4 calls, 2 at a time, quota 1, 2 months | a deposit only for a payment that became completed; one per completion, exactly one when nothing failed, with every order of completing, reopening and changing the amount, for payments no two updates raced on; deleted payments are frozen, also for an update already under way; the counter passes the quota by at most the calls in flight less one, also across the month, and never counts more than was created |
| `payments_twice` (violation) | 3 calls at once | two updates to completed deposit twice: what `raced` excludes above |
| `payments_lost` (violation) | one at a time | a failed deposit leaves a completed payment nobody deposits |

`MaxInFlight` is a bound of the model; the server has none, so the quota is passed
by as many calls as are admitted concurrently (`QuotaOvershoot`). Two at a time are
the least that race; for more the theorems stand in. One wallet, one currency and
amounts 1 and 2 are enough: the wallet side is checked in section 3.

*Proved* (`PaymentsProofs`), from `AccountsAssumption` and `PaymentsAssumption`, for
any number of calls, payments, wallets and months: `TypeCorrect`, `DeletedStaysFrozen`,
`DepositsNeedCompletion`, `OneDepositPerCompletion`, `QuotaHolds`. `PaymentsInv`, the
inductive invariant, counts what is still to come with what has happened: `Once`
that the deposits of a payment and the calls about to deposit for it (`Owed`)
together are at most its completions, and as many while nothing has failed;
`QuotaInv` that the counter and the creations admitted and not yet counted
(`Counting`) together stay within the bound; `Earned` that nobody is about to
deposit for a payment that never became completed; `Sound` what each call has
read and is about to write. `Books` states how deposits, calls and completions
change together, and `OnceOfCall` and `OnceStep` apply it to each payment.
`CountersExplained` is about the months together: each payment is counted in one of
them, is still to be counted (`Uncounted`), or never will be, because `Track` failed
or the process stopped (`CounterInv`). Every property the run checks is proved.

## 6. TenantCache

`findWithCache` is `Get`, `Query`, `SetKey` for each lookup; `Expire` is the TTL.
Tenants are created by the API and edited or deleted in MongoDB; an update's
event carries the document as it is at delivery (`updateLookup`), a replacement's
the new document. `handleChange` sends a `DEL`, `Del` executes it. `Drop` loses
the undelivered events and everything until `Reconnect`. A cached entry, and a
lookup about to write one, carries as history whether a `DEL` of its key
overtook it; `missed[t]` says the last change of `t` was not acted upon.

| Run | Instance | Shows |
|---|---|---|
| `cache` | 2 tenants that share 2 slugs and have a domain, are created, renamed and deleted, 1 edit, 1 lookup, all failures | every stale entry has one of the reasons named in `StalenessExplained`, also when a slug moves to another tenant; `EventuallyFresh`: the TTL ends all staleness |
| `cache_stale` (violation) | 1 edit, 1 lookup, no failure | a tenant is stale with no invalidation to come |

The disjuncts of `StalenessExplained` are the ways a tenant stays stale until its
TTL: a slow lookup writes after the `DEL`, a change falls into the time the stream
is down, a `DEL` fails, or the key is a former slug or domain (or, of a deleted
tenant, any but its id). Two of them need no failure; `cache_stale` finds one.

*Fairness*: lookups under way finish, and the time of each key passes; nothing is
assumed of the stream. `MaxRev` and `MaxLookups` bound edits and lookups, so that
`EventuallyFresh` says: when tenants are no longer edited, staleness ends.
The stream is up or down here; what keeps it up is `ChangeStream` (section 9).

*Proved* (`TenantCacheProofs`), from `TenantCacheAssumption`, for any number of tenants,
names, lookups, edits and failures: `TypeCorrect`, `StalenessIsExplained`. `CacheInv`
says of the copies that lookups hold what `StalenessExplained` says of the cached ones
(`CopiesExplained`), with a stronger reason than a pending invalidation: an event
of the tenant, or a `DEL` of this very key (`Explained`). That an event leads to such
a `DEL` holds because the last event of a tenant is handled with its present document,
and there is none while the stream is down (`Telling`). `ExplainedStep` shows that
what is explained stays so until a `DEL` removes or marks it.

## 7. RateLimit

`canActivate` is `Arrive` or `PassAgain` (the time is read, the window chosen) and
`Eval` (the Lua script and everything after it, atomic because nothing is awaited
between the script's answer and the decision). Time is discrete: a window of 2
ticks and a TTL of 3, the scaled 60 and 61 seconds; `Tick` removes counters whose
time has come. `Passes` says how often the guard runs: once for most routes, twice
for payments and wallets, whose controllers apply again the guard that
`app.module.ts` applies to all.

| Run | Instance | Shows |
|---|---|---|
| `limit_windows` | 2 requests, each guarded once or twice, 2 tenants with limits 2 and 1, `MaxClock` 5: 3 windows | never more than the limit per window; nobody refused before the own tenant's runs of the guard used its limit; only runs that let a request through are counted as API calls |
| `limit_twice` (violation) | limit 2, 2 requests guarded twice | the second request is refused |

Two requests make four runs of the guard, two more than the greater limit. A request whose script is
delayed beyond its window is in the model, and excluded from `WindowWithinLimit`
(its counter may have expired). The limit is one per minute of the clock (`rate-limit.guard.ts:41`), and all
three properties speak of such minutes: the end of one and the beginning of the next
together may admit twice the limit, which the documents say a sliding window prevents
(section 13). What can be said of any stretch of a minute is the theorem
`RollingWithinTwiceHolds`; it is not a property of the run, since two requests
cannot come near twice the limit.

*Proved* (`RateLimitProofs`), from `RateLimitAssumption` (finitely many requests, a
TTL longer than the window): `TypeCorrect`, `WindowWithinLimitHolds`. `RateInv` adds
that the counter of the present window counts at least the requests let through in
it (`Counted`), that it outlives every moment of its window (`Lasting`, from the TTL),
and that no request is ahead of the clock (`Past`). That bounds a counter from below;
`RefusedByOwnTrafficHolds` and `CallsWereGrantedHolds` bound it from above. `TrafficInv`
says that a counter is at most the runs of the guard, of requests of its own tenant,
which were counted in its window (`Runs`), and that no request has more runs behind it
than it has in all: so a request that finds the counter at its limit finds others'
runs there, all but its own earlier ones (`RefusalExplained`). `Steps` is what a step of
one request comes to: its tenant and passes stay, its runs grow by one at most, and
the counter of its own window only, which `TalliesGrow` turns into sums.
`RollingWithinTwiceHolds`: a stretch as long as a window touches at most two of them
(`StretchInTwo`), each of which keeps to the limit.

## 8. TenantRequest

A request on its way, from its arrival to its answer, while others are on theirs
and tenants are edited. `req[r].pc` is what it waits for:

| Code | Actions |
|---|---|
| `TenantMiddleware.use` up to its first await | `Arrive` |
| `resolveFromSubdomain`, `resolveFromHeader`, `resolveFromJwt`, and what `use` does with each answer | `ResolveHost`, `ResolveHeader`, `ResolveBearer` (`Ask`, `Admit`) |
| the four guards (`JwtAuthGuard` and `jwt.strategy`, `TenantMatchGuard`, `RolesGuard`; the rate limit as a refusal that may always happen) | `Guard` (`Matches`, `MayUse`) |
| `find`, `findOne`, `findById`; `create`; the updates and `softDelete` | `Find`, `Create`, `Update` (`Scoped`) |
| `login` and `refresh`; `me` | `Login`, `Me` |
| the handler returns or throws | `Answer` |
| a tenant is created (`TenantService.create`); slug, domain, `isActive` or `deletedAt` change in the database | `Edit` |

`ctx` is the request's `TenantContextService`. A lookup answers with the tenant as
it is, with any earlier state of it (`past`: what the cache may still hold,
`TenantCache` says for how long) or, when nobody has the key, with nobody. `touched`,
`by`, `cached`, `unnamed` and `closed` are history: the documents read and written,
what named the tenant, whether that was by an answer no longer true, whether the
host named nobody at some time since the arrival, and which tenants were inactive
or deleted ever since. Header, bearer and cookie are chosen where the code first reads
them; as the choice is from everything that may have been there on arrival (tokens
issued meanwhile included, which only adds behaviours) this loses nothing and
saves states. The middleware decodes the bearer without verifying it, so that it may
claim any tenant; the guards verify a token that need not be the same (the cookie
comes first), and which may be a refresh token: it is signed with the same secret,
`jwt.strategy.ts` does not ask for its kind, and it has no role (`TokensFor`).

Abstractions: a handler makes any queries, in any number and order, that its route
allows (`read`, `create`, `change`), which covers the payment and wallet services;
a session in a transaction, soft deletion and contents are those of sections 3 and
5. Users and roles are constant and so is their `isActive`; the signature of a token
the guards accept is taken as verified. Of the tenants controller only the creation
is modelled (`Edit`): it has no tenant-scoped query.

| Run | Instance | Shows |
|---|---|---|
| `request_isolation` | 2 requests (login, me, change), a host with a tenant, the platform's bare domain and a host without, every header, claim of a bearer and token, 2 tenants of which one was renamed before, 1 edit, an administrator and a super admin | `Isolation`, `GateKept`, `StrictOrder` |

The bare platform domain is looked up as the tenant "platform", as the code does
(`HostKey`, `tenant.middleware.ts:106`). The documents say it names no tenant (section
13), and `Nameless` counts it as such: `StrictOrder` neither asks for that lookup nor
forbids it, it asks that header and token are silent for every other host that names a
tenant.

Two requests are enough for a context shared by mistake, and for a sign-in whose
token the other uses. One edit, at any await, and a former name in `past` are
enough for a name that changes its tenant between two lookups or between lookup
and query; for more of everything the theorems stand in.

*Proved* (`TenantRequestProofs`), from `TenantRequestAssumption` only (names are
not tenant ids, user ids are not record ids): `TypeCorrect`, `TenantsAreIsolated`,
`ClosedTenantsStayOut`, `OrderIsStrict`, that is, everything the run checks, for any
number of tenants, users, requests and edits. `RequestInv`, the inductive
invariant, says of every request on its way that its history is true of the
tenants as they are now (`Honest`), that it has passed what its place requires
(`Passed`: `GateKept` after the middleware, the guards' comparison after them) and
that it touched its own tenant's documents only (`Within`). `Isolation` alone is not
inductive: that a document touched before stays the tenant's needs that records
never change their tenant (`BegunStays`), and that the token compared is the user's
needs that every issued token is true (`TokenTrue`). `Replaced` reduces each action
to the one request it changes; `Edit`, which changes the history of all, is
`EditKeeps`.

## 9. ChangeFeed and ChangeStream

What keeps the stream of section 6 open. `ChangeFeed` is the promise: while the
service listens it acts on every change, what waits when it stops listening may
be lost, and it listens again. `ChangeStream` is
`TenantCacheInvalidationService` without what it does with a change:

| Code | Actions |
|---|---|
| `onModuleInit`, `startChangeStream` returning or throwing | `onModuleInit`, `ReconnectSucceeds`, `ReconnectFails` (`Watch`, `WatchThrows`) |
| `scheduleReconnect` with its delay of 1 to 30 seconds | `scheduleReconnect` (`Delay`) |
| listeners for `error`, `close`, `change` | `Error`, `Close`, `Deliver` |
| `onModuleDestroy` | `onModuleDestroy` |
| an update or deletion of a tenant | `Change` (external) |

`stream[s]` is a stream with its listeners, of which there may be several, and
`timers` the bag of delays of the timeouts that have not fired; they fire in any
order, which covers every relation of the delays. The refinement maps `listening`
to "some stream is open" and `waiting` to what some stream has yet to deliver and
none has delivered.

| Run | Instance | Shows |
|---|---|---|
| `stream` | 2 changes, 2 errors, 3 streams, closes and failing reconnections without bound | `FeedSpec` (with the liveness of `ChangeFeed`), `NeverGivesUp`, `OneMorePerError` |

Three streams are as many as two errors can leave (`OneMorePerError`), so the bound
on streams refuses nothing; with two errors a stream fails while another is open and
timers of different delays are pending.

*Fairness*: the module is initialised, a timer fires and `watch` does not throw for
ever, an open stream emits what it has, and the driver emits `close` after an error
or a `close()`. A stream need not fail, nor close by itself. Timers fire after
`onModuleDestroy` too, as long as the process lives: the liveness of `FeedSpec` rests
on that when the last stream was closed there. `NeverGivesUp` asks nothing of a
destroyed module, since the code's comment wants the stream closed then (section 13).

*Proved* (`TenantCacheProofs`), from `ChangeStreamAssumption` (finitely many streams,
more than errors), for any number of streams, changes and errors: `AlwaysReconnects`;
`FeedImplemented`, that every step is one of `ChangeFeed` or a stutter (the safety half
of `FeedSpec`); `StreamTypeCorrect`, `OneMorePerErrorHolds`.
`StreamInv` adds to the types of what the refinement reads that only open streams have
changes to deliver and that what is handled was made. `TimersInv` adds to
`OneMorePerError` that nothing has happened before `onModuleInit`, whose call of `watch`
is the one in excess; `OneTimerMore`, `OneTimerLess` and `OneStream` say what a timer
set, a timer fired and a stream opened or closed add to the count.

Observed while modelling: an error is followed by a close and each schedules a
reconnection (lines 86 to 94), so that every error leaves one more stream for good
and each change is handled that many times (`OneMorePerError` says by how much
streams multiply, it does not forbid it); `main.ts` enables no shutdown hooks, so
that `onModuleDestroy` runs only if some code closes the application.

## 10. Sessions and ApiClient

`Sessions` is `AuthService` with the routes of its controller: refresh tokens in
Redis, of users who may be deactivated. A token is its subject and its age; `Tick`
lets all ages grow, so that two tokens signed for one user at one moment are equal,
as JWTs with the same claims are. Both kinds of token are signed with one secret and
`jwt.strategy.ts` looks at neither kind nor Redis nor `isActive`, so that a refresh
token opens every guarded route that needs no role for its seven days (`Accepted`,
`getAsBearer`), while the cookie ends after 15 minutes (`Cookie`, `get`). The browser
never sends a refresh token that way; others may (`Bearers`). `ApiClient` is a browser in front of it, with tabs
that share cookies and local storage:

| Code | Actions |
|---|---|
| `frontend/src/middleware.ts`, loading a page, the router | `Visit`, `Navigate` (`Seen`, `Load`) |
| request interceptor (`api.ts`) and the server's answer | `Send` (`Header`, `Request`) |
| sign-in answered (`login/page.tsx`) | `SignedIn` (`Detected`) |
| `syncUser` and other answers | `Answered` |
| response interceptor: second 401, refresh, repetition, failed refresh | `Rejected`, `Refresh`, `Refreshed` (`Again`), `RefreshRefused` (`SignOut`) |
| no answer | `Lost` |
| `logout` route, `isActive` cleared, time | `Logout`, `Disable`, `Tick` |

The server answers at the moment of sending and the answer arrives at any later one,
or never: between the two every other action may happen, which is what the client
can observe of any order inside the server (that is `TenantRequest`). Each call has
its tab; a page that is loaded forgets the calls of the one before. Passwords are left
out (a wrong one is answered as an unknown user is). `logout` is a route no page calls,
so anybody who holds a token may call it.

| Run | Instance | Shows |
|---|---|---|
| `sessions` | 2 tabs with a call each, a clerk (who may be deactivated) and a super admin, 3 requests started, access for 1 tick and refresh for 2; a deployment whose API host names no tenant and one where it names the platform | `OneIdentity`, `DeactivationBites`, `SessionEndsForAReason`, `LandsInOwnTenant`, `AnsweredEventually` |

Two calls are enough for two refreshes of one session and for a sign-in that crosses
a refresh; with three requests started a sign-in is followed by both. One tick of access and
two of refreshing is the least at which a cookie expires before its session does.
`DeactivationBites` has a bound for each kind of token: `AccessLife` after a
deactivation no access token of the user is accepted, and `RefreshLife` after it no
refresh token is, which until then passes the guards as a bearer. Refreshing does not
prolong either, because `refresh` looks the user up.
Users of a deployment are all of the platform there; what tenants may not do to
each other is section 8.

*Fairness*: each call's next step (`Arrive`): a request is answered or fails, and
the browser runs the interceptor. Nobody has to start anything.

*Proved* (`ApiClientProofs`), from `SessionsAssumption` and `ApiClientAssumption`,
for any number of tabs, calls, users and requests: `TypeCorrect`, `OneIdentityHolds`,
`DeactivationBitesHolds`, `SessionEndsForAReasonHolds`, `LandsInOwnTenantHolds`, that is,
everything the run checks but liveness. `OneIdentity` is not inductive: an answer on its way brings
a token that will become cookie and refresh token, so `SessionInv` says whose the
tokens on their way are (`Single`: an answer names one person; `Same`: cookie, refresh
token and what answers bring are the shown user's, unless a sign-in was `mixed`);
`Aging` says that the cookie, every token on its way to become one and every bearer
were signed before their user was deactivated. `ReasonInv` strengthens it for the two action
properties: a session ends when a refusal arrives, and the refusal was made earlier,
so `Accounted` keeps its reason true until then: of every refused refresh that the
token was logged out, has expired, or is of a user no longer active or of another
tenant than the host's (`Void`, which no later step undoes), and of every other token
that Redis still has it or one of these happened (`Known`). `Placed` says of a sign-in
on its way back to its page that its tokens are of the page's tenant.

Observed while modelling:

* where the API's host names no tenant, a refresh is always refused: it is sent
  past the interceptor and so without `X-Tenant-ID` (`api.ts:46`);
* a refresh token is accepted as an access token (`auth.service.ts:39`,
  `jwt.strategy.ts:11` to `36`), after its logout too: no document says whether it
  should be, and no role goes with it;
* a super admin who looks at another tenant is signed out by `syncUser`: `me` answers
  401 there because they are no user of that tenant (`layout.tsx:70` to `81`), and
  the refresh is refused for the same reason;
* after the redirect to `/login` the page has no tenant, signs in with the header
  that local storage has left, and lands on "platform" (`login/page.tsx:78`, `83`):
  `LandsInOwnTenant` speaks of login pages with a tenant only;
* a refresh renews the API's cookie and not `isAuthenticated`, so that pages send a
  user with a good session to `/login` after 15 minutes;
* a refusal that comes late ends a session which another tab has renewed
  meanwhile (third reason of `SessionEndsForAReason`).

## 11. TenantViews

The pages below `frontend/src/app/dashboard` with their layout. Three things say
which tenant is meant, and change at different times: `selected` (the layout's
state), `url` (`window.location`, which follows when the router is done) and the
header, which the interceptor takes from the URL whatever the page asks for.

| Code | Actions |
|---|---|
| the layout's selection and its effects, links, back button | `handleTenantChange`, `Go`, `NavArrives`, `Back` (`Arrive`) |
| the pages' effects: first fetch, fetch after a change | `Mount`, `Refetch` (`Reset`) |
| refresh buttons, the ledger's filter | `Again`, `ChooseUser` |
| choosing wallets and sending a transfer, creating, completing, deleting | `ChooseWallet`, `Save` |
| answers | `Answer`, `Saved` (with the fetch that follows) |

`flights` are the requests on their way; each knows the tenant it was sent to,
whether that was not the tenant selected (`early`) and whether a later one for the
same resource was answered before it (`late`). `shown` is what a page has for each
resource and, as history, why it may not be what is selected. The dashboard sends
nothing while its URL has no tenant. Going back to the place one is at is left out:
with a selection pending there, the layout's effect does not run again. An effect that
repeats a request with the same header is modelled once; the forms' contents are
left out except for the wallets of a transfer.

| Run | Instance | Shows |
|---|---|---|
| `views` | 2 tenants, 5 pages, 3 requests on their way | `ShownIsSelected`, `ChosenWhereSent`, `SpinnerHasRequest`, `UrlFollows` |

Three requests are two of the page before a change and one after it, or one change
while two lists load: enough for two answers of one resource in the wrong order and
a third resource between them.

*Proved* (`TenantViewsProofs`), for any number of tenants and requests:
`TypeCorrect`, `UrlFollowsHolds`, `ChosenWhereSentHolds`, `SpinnerHolds`,
`ShownIsSelectedHolds`, that is, everything the run checks. `ViewInv`
adds to them that a choice marked as of the selected tenant is of the tenant
selected now (`Clean`), which holds because a change of tenant empties the form. `ShownIsSelected` speaks of a page at
rest; `ShownInv` says the same of every moment: for each resource of the page, the
last request on its way asks for what is wanted now (`Coming`), or what is shown was
answered to such a request and whatever else is on its way comes too late (`Come`).
A step that changes what is wanted also asks for it (`SentComes`); an answer turns the
first case into the second (`AnsweredUpTo`).

Observed while modelling: after a change of tenant the wallets, transfer, ledger and
settlement pages ask as soon as the selection changes, before the URL has; the
interceptor then overrides the header the page asked with (`api.ts:22`,
`layout.tsx:85` to `87`), so that they show the former tenant until the next request
(`early`, excluded from `ShownIsSelected`); the dashboard's SWITCH TENANT VIEW has no
effect on its requests for the same reason; the wallet id of the dashboard's payment
form is not reset when the tenant changes (`page.tsx:38`).

## 12. Proofs

Every theorem is checked to its last leaf, from the named `ASSUME`s of the modules
only; those say that model values differ (`NoToken`, `Absent`, `Unborn`, names and ids),
that bounds are natural numbers, and, in `RateLimit` and `ChangeStream`, that there are
finitely many requests and streams. Each module has the same shape: an inductive invariant as a conjunction
of named parts, a lemma for what each part says of one step, with a case per action,
and theorems that follow from the invariant by name.

Sums over sets (money in the ledger, payments over months, runs of the guard,
timers) are all `SumFunctionOnSet` of the community modules, and `Sums` proves what it
computes. Its definition is a recursive function, and induction over a set is not
available as a rule that takes a predicate; `Sums` argues with a smallest
counterexample instead, which is a statement about sets only: the finite sets are
well-founded under inclusion (`Smallest`), so that among the sets for which there is no
function giving all their subsets' sums there is a smallest, to which `OneMore` gives
one. `FoldAdds` identifies the fold with it, and the lemmas after that are what the
other modules cite: the sum over nothing, over one element more, with one value
changed, with no value less.

Only model-checked:

| What | Why |
|---|---|
| `AnsweredEventually` (of `Wallets` and of `ApiClient`), `EventuallyFresh`, the liveness half of `FeedSpec` | liveness under fairness is out of the prover's reach |

Every other property of a passing run is a theorem: the runs show it on the
instances of sections 3 to 11, the theorem for all.

## 13. Findings

Each is a run with a counterexample; `PROJECT.json` quotes the sentences.

1. A payment set to completed by two concurrent updates is deposited twice
   (`payment.service.ts:64`; `payments_twice`).
2. A payment whose deposit fails stays completed and is never deposited
   (`payment.service.ts:57`; `payments_lost`).
3. A slow lookup restores a stale tenant after the invalidation, and the keys of
   a former slug are not invalidated (`tenant.service.ts:98`,
   `tenant-cache-invalidation.service.ts:148`; `cache_stale`).
4. Payment and wallet requests count twice against the rate limit
   (`payment.controller.ts:9`, `wallet.controller.ts:9`; `limit_twice`).

Four more disagreements are no runs of their own. The models have the code's
behaviour, and no property passes by calling it right:

5. The rate limit counts per minute of the clock (`rate-limit.guard.ts:41`), so that
   twice the limit passes around the turn of a minute. "Sliding window prevents this by
   tracking the current rolling 60-second period regardless of clock boundaries"
   (`.agents/skills/rate-limiting/SKILL.md:164`, likewise
   `.agents/rules/project-context.md:72`). `WindowWithinLimit` and
   `RefusedByOwnTraffic` speak of minutes of the clock; `RollingWithinTwiceHolds`
   proves that it is never more than twice.
6. The bare platform domain is resolved to the tenant "platform"
   (`tenant.middleware.ts:106`). "root domain, no subdomain" says line 84, "Must fall
   through to header / JWT resolution" `tenant.middleware.spec.ts:191`, "skip"
   `.agents/skills/tenant-resolution/SKILL.md:68`. `StrictOrder` leaves that host open.
7. `onModuleDestroy` closes the stream, and the `close` listener schedules another
   (`tenant-cache-invalidation.service.ts:57`, `91`). "Gracefully close the Change
   Stream when the application shuts down" (line 53). `NeverGivesUp` speaks of the
   module while it is up.
8. `reconnectAttempts` is reset as soon as `watch` returns (line 96), so that the delay
   only grows while `watch` itself throws: an outage that shows in `error` events is
   met with a reconnection after a second or two, for each error and each close. "Automatic
   reconnection with exponential backoff" (line 25, likewise 187 to 188). No property
   speaks of the delay but for its cap, in `StreamTypeOK`.

What else the code does that a reader may not expect, without a sentence that
says otherwise, is under "Observed while modelling" in sections 9 to 11.

## 14. Not modelled

* The seed script (it only provides initial states), dependency injection and
  configuration: no behaviour of their own.
* Layout, formatting and messages of the pages, the dashboard's tenants form and
  the contents of its payment form, the rate-limit bar: nothing they do feeds
  back into what is modelled.
* Password hashing and token signatures, taken as correct; floating-point
  arithmetic; reads that change nothing.
* A user whose role or tenant changes: the code has no operation that does it.
* `TenantController`: creating tenants is `CreateTenant` of section 6 and part of
  `Edit` in section 8, other changes are made in MongoDB; its lists change nothing.
