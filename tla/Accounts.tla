------------------------------ MODULE Accounts ------------------------------
(***************************************************************************)
(* What the wallet and ledger collections of ONE tenant promise, with      *)
(* every operation of TransferService (src/wallets/transfer.service.ts)    *)
(* taken as a single step.  Each movement of money is one ledger entry     *)
(* and the matching change of balances, together or not at all.            *)
(*                                                                         *)
(* Wallets.tla is the detailed specification (reads, checks, the MongoDB   *)
(* transaction, retries, crashes); WalletsProofs.tla proves that it        *)
(* implements this one.  Payments.tla builds on this one directly.         *)
(*                                                                         *)
(* BaseTenantRepository scopes every query to the tenant of the request,   *)
(* so wallets are keyed here by userId alone.                              *)
(***************************************************************************)
EXTENDS Integers, FiniteSets, Functions

CONSTANTS
  Users,            \* userIds that can own a wallet
  NoUser,           \* the absent fromUserId of a deposit
  Currencies,       \* currency strings, in any letter case
  Upper,            \* Upper[c] is c.toUpperCase()
  DefaultCurrency,  \* 'INR', the schema default
  EntryIds,         \* identities (_id) of ledger entries
  Amounts,          \* amounts of money, in the smallest unit in use
  OpeningBalances   \* balances a wallet can be created or seeded with

ASSUME AccountsAssumption ==
  /\ NoUser \notin Users
  /\ Upper \in [Currencies -> Currencies]
  /\ \A c \in Currencies : Upper[Upper[c]] = Upper[c]
  /\ DefaultCurrency \in Currencies
  /\ Amounts \subseteq Nat
  /\ OpeningBalances \subseteq Nat

VARIABLES
  wallets,   \* users that have a wallet document
  balance,   \* balance[u], 0 without a wallet
  currency,  \* currency[u] as stored, DefaultCurrency without a wallet
  opening,   \* history: the balance u's wallet was created with
  ledger     \* the ledger entries

accountVars == <<wallets, balance, currency, opening, ledger>>

Entry == [id: EntryIds, type: {"TRANSFER", "DEPOSIT"}, from: Users \cup {NoUser},
          to: Users, amount: Amounts, currency: Currencies]

AccountsTypeOK ==
  /\ wallets \subseteq Users
  /\ balance \in [Users -> Int]
  /\ currency \in [Users -> Currencies]
  /\ opening \in [Users -> OpeningBalances \cup {0}]
  /\ ledger \subseteq Entry

(* Wallets that exist before the server takes requests (seed.ts). *)
AccountsInit ==
  /\ wallets \in SUBSET Users
  /\ balance \in [Users -> OpeningBalances \cup {0}]
  /\ currency \in [Users -> Currencies]
  /\ \A u \in Users \ wallets : balance[u] = 0 /\ currency[u] = DefaultCurrency
  /\ opening = balance
  /\ ledger = {}

-----------------------------------------------------------------------------

IsFresh(id) == \A e \in ledger : e.id # id

(* u's wallet is created with currency c and balance b. *)
Open(u, c, b) ==
  /\ u \notin wallets
  /\ wallets' = wallets \cup {u}
  /\ balance' = [balance EXCEPT ![u] = b]
  /\ currency' = [currency EXCEPT ![u] = c]
  /\ opening' = [opening EXCEPT ![u] = b]
  /\ UNCHANGED ledger

(* The money of entry e moves between two funded wallets of its currency. *)
Transfer(e) ==
  /\ e.type = "TRANSFER" /\ e.from # e.to
  /\ IsFresh(e.id)
  /\ e.from \in wallets /\ Upper[currency[e.from]] = e.currency
  /\ e.to \in wallets /\ Upper[currency[e.to]] = e.currency
  /\ balance[e.from] >= e.amount
  /\ balance' = [balance EXCEPT ![e.from] = @ - e.amount, ![e.to] = @ + e.amount]
  /\ ledger' = ledger \cup {e}
  /\ UNCHANGED <<wallets, currency, opening>>

(* Entry e brings money in from outside the platform. *)
Deposit(e) ==
  /\ e.type = "DEPOSIT" /\ e.from = NoUser
  /\ IsFresh(e.id)
  /\ e.to \in wallets /\ Upper[currency[e.to]] = e.currency
  /\ balance' = [balance EXCEPT ![e.to] = @ + e.amount]
  /\ ledger' = ledger \cup {e}
  /\ UNCHANGED <<wallets, currency, opening>>

AccountsNext ==
  \/ \E u \in Users, c \in Currencies, b \in OpeningBalances : Open(u, c, b)
  \/ \E e \in ledger' \ ledger : e \in Entry /\ (Transfer(e) \/ Deposit(e))

AccountsSpec == AccountsInit /\ [][AccountsNext]_accountVars

-----------------------------------------------------------------------------

Amount == [e \in ledger |-> e.amount]
MoneyIn(u)  == SumFunctionOnSet(Amount, {e \in ledger : e.to = u})
MoneyOut(u) == SumFunctionOnSet(Amount, {e \in ledger : e.from = u})

(* Every balance is the opening balance plus what the ledger says came in  *)
(* less what it says went out: no step of any request changes a balance    *)
(* without its ledger entry, or writes an entry without the balances.      *)
LedgerExplainsBalances ==
  \A u \in Users : balance[u] = opening[u] + MoneyIn(u) - MoneyOut(u)

(* No wallet is overdrawn: the debit's { balance: { $gte: amount } } filter *)
(* holds against every concurrent request (the schema's min: 0 does not     *)
(* apply to findOneAndUpdate).                                              *)
NoOverdraft == \A u \in Users : balance[u] >= 0

(* An entry is always in the normalised currency of the wallets it names,  *)
(* although the currencies are compared before the transaction begins.     *)
LedgerCurrency ==
  \A e \in ledger : \A u \in {e.from, e.to} \cap Users :
    u \in wallets /\ Upper[currency[u]] = e.currency
=============================================================================
