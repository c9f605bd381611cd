----------------------------- MODULE Payments -----------------------------
(***************************************************************************)
(* PaymentService (src/payments/payment.service.ts) with the monthly       *)
(* transaction counter of UsageTrackingService: concurrent create, update  *)
(* and remove calls of one tenant, step by step between awaits.  A deposit *)
(* is the atomic step of Accounts that TransferService implements          *)
(* (Implementation in WalletsProofs); it may also fail without effect, or  *)
(* take effect and be answered with an error.                              *)
(***************************************************************************)
EXTENDS Accounts

CONSTANTS
  Requests,     \* calls of create, update and remove
  CreateDtos,   \* bodies of POST /payments
  UpdateDtos,   \* bodies of PATCH /payments/:id; Absent where a field is missing
  Absent,
  Quota,        \* maxTransactionsPerMonth, 0 for unlimited
  Months,       \* bound: calendar months 1..n a behaviour may see
  MaxInFlight   \* bound: calls the server works on at a time

Statuses == {"pending", "completed", "failed"}
PaymentDto(Users_, Amounts_, Currencies_, Statuses_) ==
  [wallet: Users_, amount: Amounts_, currency: Currencies_, status: Statuses_]

ASSUME PaymentsAssumption ==
  /\ Requests \subseteq EntryIds
  /\ CreateDtos \subseteq PaymentDto(Users, Amounts, Currencies, Statuses)
  /\ UpdateDtos \subseteq PaymentDto(Users \cup {Absent}, Amounts \cup {Absent},
                                     Currencies \cup {Absent}, Statuses \cup {Absent})
  /\ Absent \notin Statuses
  /\ Quota \in Nat /\ MaxInFlight \in Nat \ {0} /\ Months \in Nat \ {0}

VARIABLES
  payments,     \* the payments collection: id -> document
  month,        \* the calendar month
  count,        \* count[m]: usage:{tenantId}:{m}:txn in Redis
  pc,           \* pc[r]: the next step of call r, or how it was answered
  call,         \* call[r]: the operation, the payment's id, the body
  doc,          \* doc[r]: the document r read or wrote last
  completions,  \* history: how often p's status became completed
  raced         \* history: payments whose status changed under an update

paymentVars == <<payments, month, count, pc, call, doc, completions, raced>>
vars == <<accountVars, paymentVars>>

Payment == [wallet: Users, amount: Amounts, currency: Currencies,
            status: Statuses, deleted: BOOLEAN]
Call == [op: {"none", "create", "update", "remove"}, id: Requests,
         dto: CreateDtos \cup UpdateDtos \cup {Absent}]
Waiting == {"insert", "track", "write", "deposit"}
Final == {"ok", "error", "unknown", "crashed"}

TypeOK ==
  /\ AccountsTypeOK
  /\ DOMAIN payments \subseteq Requests
  /\ payments \in [DOMAIN payments -> Payment]
  /\ month \in 1..Months
  /\ count \in [1..Months -> Nat]
  /\ pc \in [Requests -> {"idle"} \cup Waiting \cup Final]
  /\ call \in [Requests -> Call]
  /\ doc \in [Requests -> Payment \cup {Absent}]
  /\ completions \in [Requests -> Nat]
  /\ raced \subseteq Requests

Init ==
  /\ AccountsInit
  /\ payments = <<>>
  /\ month = 1
  /\ count = [m \in 1..Months |-> 0]
  /\ pc = [r \in Requests |-> "idle"]
  /\ call = [r \in Requests |-> [op |-> "none", id |-> r, dto |-> Absent]]
  /\ doc = [r \in Requests |-> Absent]
  /\ completions = [p \in Requests |-> 0]
  /\ raced = {}

GoTo(r, label) == pc' = [pc EXCEPT ![r] = label]
Live(p) == p \in DOMAIN payments /\ ~payments[p].deleted
InFlight == {r \in Requests : pc[r] \in Waiting}

Arrives(r, op, id, dto) ==
  /\ pc[r] = "idle"
  /\ Cardinality(InFlight) < MaxInFlight
  /\ call' = [call EXCEPT ![r] = [op |-> op, id |-> id, dto |-> dto]]

(* p's stored document becomes d; the caller decides by what it read. *)
Store(p, d, read) ==
  /\ payments' = [q \in DOMAIN payments \cup {p} |-> IF q = p THEN d ELSE payments[q]]
  /\ completions' =
       IF d.status = "completed" /\ ~(p \in DOMAIN payments /\ payments[p].status = "completed")
         THEN [completions EXCEPT ![p] = @ + 1] ELSE completions
  /\ raced' = IF p \in DOMAIN payments /\ payments[p].status # read.status
                THEN raced \cup {p} ELSE raced

-----------------------------------------------------------------------------
(* create *)

(* Mutant of hasExceededTransactionLimit: > for >=. *)
limitIsPassed == Quota # 0 /\ count[month] > Quota

hasExceededTransactionLimit == Quota # 0 /\ count[month] >= Quota

(* Mutant of Create: the call is counted when it is admitted. *)
CreateCountsFirst(r) ==
  /\ \E dto \in CreateDtos : Arrives(r, "create", r, dto)
  /\ IF hasExceededTransactionLimit
       THEN GoTo(r, "error") /\ UNCHANGED count
       ELSE GoTo(r, "insert") /\ count' = [count EXCEPT ![month] = @ + 1]
  /\ UNCHANGED <<accountVars, payments, month, doc, completions, raced>>

(* The payment made by call r has r for its _id. *)
Create(r) ==
  /\ \E dto \in CreateDtos : Arrives(r, "create", r, dto)
  /\ IF hasExceededTransactionLimit THEN GoTo(r, "error") ELSE GoTo(r, "insert")
  /\ UNCHANGED <<accountVars, payments, month, count, doc, completions, raced>>

Insert(r) ==
  /\ pc[r] = "insert"
  /\ LET dto == call[r].dto
         d == [wallet |-> dto.wallet, amount |-> dto.amount, currency |-> dto.currency,
               status |-> dto.status, deleted |-> FALSE]
     IN Store(r, d, d) /\ doc' = [doc EXCEPT ![r] = d]
  /\ GoTo(r, "track")
  /\ UNCHANGED <<accountVars, month, count, call>>

(* incr and expireat on the month's key; a failure is swallowed. *)
Track(r) ==
  /\ pc[r] = "track"
  /\ \/ count' = [count EXCEPT ![month] = @ + 1]
     \/ UNCHANGED count
  /\ GoTo(r, IF doc[r].status = "completed" THEN "deposit" ELSE "ok")
  /\ UNCHANGED <<accountVars, payments, month, call, doc, completions, raced>>

-----------------------------------------------------------------------------
(* update and remove *)

Update(r) ==
  /\ \E p \in Requests, dto \in UpdateDtos :
       /\ Arrives(r, "update", p, dto)
       /\ IF Live(p)
            THEN doc' = [doc EXCEPT ![r] = payments[p]] /\ GoTo(r, "write")
            ELSE GoTo(r, "error") /\ UNCHANGED doc
  /\ UNCHANGED <<accountVars, payments, month, count, completions, raced>>

Or(value, default) == IF value = Absent THEN default ELSE value

(* Mutant of Updated: fields missing from the body are stored as missing. *)
UpdatedBlindly(d, dto) ==
  [wallet |-> dto.wallet, amount |-> dto.amount, currency |-> dto.currency,
   status |-> dto.status, deleted |-> d.deleted]

Updated(d, dto) ==
  [wallet |-> Or(dto.wallet, d.wallet), amount |-> Or(dto.amount, d.amount),
   currency |-> Or(dto.currency, d.currency), status |-> Or(dto.status, d.status),
   deleted |-> d.deleted]

(* Mutant of BecomesCompleted: existing.status is not compared. *)
AsksForCompleted(existing, dto) == dto.status = "completed"

(* Mutant of BecomesCompleted: dto.status is not compared. *)
WasNotCompleted(existing, dto) == existing.status # "completed"

(* existing, read an await ago, and the dto decide; the stored status at    *)
(* the moment of the write is not looked at.                                *)
BecomesCompleted(existing, dto) ==
  existing.status # "completed" /\ dto.status = "completed"

(* Mutant of Write: the filter has no deletedAt: null. *)
WriteDeletedToo(r) ==
  /\ pc[r] = "write"
  /\ LET p == call[r].id
         d == Updated(payments[p], call[r].dto)
     IN /\ Store(p, d, doc[r])
        /\ doc' = [doc EXCEPT ![r] = d]
        /\ GoTo(r, IF BecomesCompleted(doc[r], call[r].dto) THEN "deposit" ELSE "ok")
  /\ UNCHANGED <<accountVars, month, count, call>>

Write(r) ==
  /\ pc[r] = "write"
  /\ LET p == call[r].id
         d == Updated(payments[p], call[r].dto)
     IN IF Live(p)
          THEN /\ Store(p, d, doc[r])
               /\ doc' = [doc EXCEPT ![r] = d]
               /\ GoTo(r, IF BecomesCompleted(doc[r], call[r].dto) THEN "deposit" ELSE "ok")
          ELSE /\ GoTo(r, "error")
               /\ UNCHANGED <<payments, doc, completions, raced>>
  /\ UNCHANGED <<accountVars, month, count, call>>

(* remove: one findOneAndUpdate. *)
Remove(r) ==
  /\ \E p \in Requests :
       /\ Arrives(r, "remove", p, Absent)
       /\ IF Live(p)
            THEN GoTo(r, "ok") /\ payments' = [payments EXCEPT ![p].deleted = TRUE]
            ELSE GoTo(r, "error") /\ UNCHANGED payments
  /\ UNCHANGED <<accountVars, month, count, doc, completions, raced>>

-----------------------------------------------------------------------------
(* The deposit, failures, and the world around *)

DepositEntry(r) ==
  [id |-> r, type |-> "DEPOSIT", from |-> NoUser, to |-> doc[r].wallet,
   amount |-> doc[r].amount, currency |-> Upper[doc[r].currency]]

DepositToWallet(r) ==
  /\ pc[r] = "deposit"
  /\ Deposit(DepositEntry(r))
  /\ GoTo(r, "ok") \/ GoTo(r, "unknown")
  /\ UNCHANGED <<payments, month, count, call, doc, completions, raced>>

(* A database or Redis call throws without effect: the wallet is missing,   *)
(* in another currency, the transaction aborted, a connection lost.  What   *)
(* the call wrote before stays.                                             *)
Fail(r) ==
  /\ pc[r] \in {"insert", "write", "deposit"}
  /\ GoTo(r, "error")
  /\ UNCHANGED <<accountVars, payments, month, count, call, doc, completions, raced>>

(* The process stops in the middle of a call. *)
Crash(r) ==
  /\ pc[r] \in Waiting
  /\ GoTo(r, "crashed")
  /\ UNCHANGED <<accountVars, payments, month, count, call, doc, completions, raced>>

OpenWallet ==
  /\ \E u \in Users, c \in Currencies, b \in OpeningBalances : Open(u, c, b)
  /\ UNCHANGED paymentVars

NextMonth ==
  /\ month < Months
  /\ month' = month + 1
  /\ UNCHANGED <<accountVars, payments, count, pc, call, doc, completions, raced>>

Serve(r) ==
  \/ Create(r) \/ Insert(r) \/ Track(r)
  \/ Update(r) \/ Write(r) \/ Remove(r)
  \/ DepositToWallet(r) \/ Fail(r) \/ Crash(r)

Next == (\E r \in Requests : Serve(r)) \/ OpenWallet \/ NextMonth

Spec == Init /\ [][Next]_vars

-----------------------------------------------------------------------------

Deposits(p) == {e \in ledger : call[e.id].id = p}

(* The monthly counter exceeds the quota by at most the calls that were     *)
(* already past the check when it was reached, one fewer than are served at *)
(* a time, even when some of them were checked in the month before.         *)
QuotaOvershoot ==
  Quota # 0 => \A m \in 1..Months : count[m] <= Quota + MaxInFlight - 1

(* No call is counted that did not create a payment, although creating and  *)
(* counting are separate and either may fail.                               *)
CounterNeverOvercounts == SumFunctionOnSet(count, 1..Months) <= Cardinality(DOMAIN payments)

(* Money is deposited only for a payment that became completed. *)
NoDepositWithoutCompletion ==
  \A p \in Requests : Deposits(p) # {} => completions[p] > 0

(* A deleted payment stays as it was deleted: an update that found it live  *)
(* an await ago cannot change it any more.                                  *)
DeletedIsFrozen ==
  [][\A p \in DOMAIN payments : payments[p].deleted => payments'[p] = payments[p]]_vars

(* "If status changed to COMPLETED, deposit to wallet" (payment.service.ts  *)
(* line 63): a payment is deposited at most as often as its status became   *)
(* completed, and exactly as often when nothing failed or is under way; but *)
(* for payments whose status changed between an update's read and write.    *)
DepositOncePerCompletion ==
  \A p \in Requests \ raced :
    /\ Cardinality(Deposits(p)) <= completions[p]
    /\ (\A r \in Requests : pc[r] \in {"idle", "ok"}) =>
         Cardinality(Deposits(p)) = completions[p]

(* The same sentence, for all payments. *)
NeverDepositedTwice ==
  \A p \in Requests : Cardinality(Deposits(p)) <= completions[p]

(* The same sentence the other way round: when no call is being served, a  *)
(* payment whose status has become completed has been deposited.            *)
CompletedIsDeposited ==
  InFlight = {} =>
    \A p \in Requests : completions[p] > 0 => Deposits(p) # {}
=============================================================================
