------------------------------ MODULE Wallets ------------------------------
(***************************************************************************)
(* TransferService (src/wallets/transfer.service.ts): concurrent requests  *)
(* that create wallets, transfer between them and deposit into them, step  *)
(* by step between awaits.  Reads happen outside the MongoDB transaction,  *)
(* writes inside it; withTransaction retries the whole callback on a       *)
(* transient error.  A request that never starts stays "idle".             *)
(*                                                                         *)
(* MongoDB's transactions, as the code uses them: writes are invisible     *)
(* until the commit; a write to a document that another transaction has    *)
(* written and not committed, or has committed since this one's snapshot,  *)
(* is refused at once with a transient error (nobody waits for a lock).    *)
(***************************************************************************)
EXTENDS Accounts

CONSTANTS
  Requests,         \* calls of transfer, deposit and createWallet
  TransferAmounts,  \* amounts TransferDto admits (Min(1))
  DepositAmounts,   \* amounts a completed payment can carry (IsPositive)
  LedgerMin,        \* least amount the ledger schema accepts (min: 0.01)
  MaxTries          \* bound: retries within withTransaction's 120 seconds

ASSUME WalletsAssumption ==
  /\ TransferAmounts \cup DepositAmounts \subseteq Amounts \ {0}
  /\ LedgerMin \in Nat /\ MaxTries \in Nat
  /\ EntryIds = Requests \X (0..MaxTries)

VARIABLES
  pc,      \* pc[r]: the next step of request r, or how it was answered
  req,     \* req[r]: the operation and its arguments
  seen,    \* seen[r]: the source wallet as the first await returned it
  staged,  \* staged[r]: uncommitted increments and ledger entries of r
  stale,   \* stale[r]: wallets other requests changed since r's snapshot
  tries    \* tries[r]: how often the callback was started again

requestVars == <<pc, req, seen, staged, stale, tries>>
vars == <<accountVars, requestVars>>

Request ==
  [op: {"transfer"}, from: Users, to: Users, amount: TransferAmounts, currency: Currencies]
  \cup
  [op: {"deposit"}, from: {NoUser}, to: Users, amount: DepositAmounts, currency: Currencies]
  \cup
  [op: {"create"}, from: {NoUser}, to: Users, amount: OpeningBalances, currency: Currencies]
NoRequest == [op |-> "none"]

Txn     == {"debit", "credit", "log", "commit"}          \* inside withTransaction
Running == {"readTo", "insert", "reread"} \cup Txn       \* an await is pending
Final   == {"ok", "error", "unknown", "crashed"}

Read(u) == [found |-> u \in wallets, balance |-> balance[u], currency |-> currency[u]]
Unread  == [found |-> FALSE, balance |-> 0, currency |-> DefaultCurrency]
Nothing == [delta |-> [u \in Users |-> 0], log |-> {}]
FirstWrite(q) == IF q.op = "transfer" THEN "debit" ELSE "credit"

TypeOK ==
  /\ AccountsTypeOK
  /\ pc \in [Requests -> {"idle"} \cup Running \cup Final]
  /\ req \in [Requests -> Request \cup {NoRequest}]
  /\ seen \in [Requests -> [found: BOOLEAN, balance: Int, currency: Currencies]]
  /\ staged \in [Requests -> [delta: [Users -> Int], log: SUBSET Entry]]
  /\ stale \in [Requests -> SUBSET Users]
  /\ tries \in [Requests -> 0..MaxTries]

Init ==
  /\ AccountsInit
  /\ pc = [r \in Requests |-> "idle"]
  /\ req = [r \in Requests |-> NoRequest]
  /\ seen = [r \in Requests |-> Unread]
  /\ staged = [r \in Requests |-> Nothing]
  /\ stale = [r \in Requests |-> {}]
  /\ tries = [r \in Requests |-> 0]

GoTo(r, label) == pc' = [pc EXCEPT ![r] = label]

-----------------------------------------------------------------------------
(* transfer, outside the transaction *)

StartTransfer(r) ==
  /\ pc[r] = "idle"
  /\ \E q \in Request :
       /\ q.op = "transfer"
       /\ req' = [req EXCEPT ![r] = q]
       /\ \/ /\ q.from = q.to
             /\ GoTo(r, "error")
             /\ UNCHANGED seen
          \/ /\ q.from # q.to
             /\ seen' = [seen EXCEPT ![r] = Read(q.from)]
             /\ GoTo(r, "readTo")
  /\ UNCHANGED <<accountVars, staged, stale, tries>>

(* Mutant of Admissible: the two wallets' currencies are not compared. *)
AdmissibleAnyDestination(q, source, destination) ==
  /\ source.found /\ destination.found
  /\ Upper[source.currency] = Upper[q.currency]
  /\ source.balance >= q.amount

(* The destination is read now, the source was read an await ago. *)
Admissible(q, source, destination) ==
  /\ source.found /\ destination.found
  /\ Upper[source.currency] = Upper[destination.currency]
  /\ Upper[source.currency] = Upper[q.currency]
  /\ source.balance >= q.amount

ReadTo(r) ==
  /\ pc[r] = "readTo"
  /\ IF Admissible(req[r], seen[r], Read(req[r].to))
       THEN GoTo(r, "debit") ELSE GoTo(r, "error")
  /\ UNCHANGED <<accountVars, req, seen, staged, stale, tries>>

(* The two reads that build the answer; a wallet is never removed. *)
Reread(r) ==
  /\ pc[r] = "reread"
  /\ IF {req[r].from, req[r].to} \subseteq wallets
       THEN GoTo(r, "ok") ELSE GoTo(r, "error")
  /\ UNCHANGED <<accountVars, req, seen, staged, stale, tries>>

(* deposit up to its transaction *)

StartDeposit(r) ==
  /\ pc[r] = "idle"
  /\ \E q \in Request :
       /\ q.op = "deposit"
       /\ req' = [req EXCEPT ![r] = q]
       /\ IF q.to \in wallets /\ Upper[currency[q.to]] = Upper[q.currency]
            THEN GoTo(r, "credit") ELSE GoTo(r, "error")
  /\ UNCHANGED <<accountVars, seen, staged, stale, tries>>

(* createWallet: look for the user, then insert *)

StartCreate(r) ==
  /\ pc[r] = "idle"
  /\ \E q \in Request :
       /\ q.op = "create"
       /\ req' = [req EXCEPT ![r] = q]
       /\ IF q.to \in wallets THEN GoTo(r, "error") ELSE GoTo(r, "insert")
  /\ UNCHANGED <<accountVars, seen, staged, stale, tries>>

InsertWallet(r) ==
  /\ pc[r] = "insert"
  /\ \/ /\ Open(req[r].to, req[r].currency, req[r].amount)
        /\ GoTo(r, "ok")
     \/ /\ req[r].to \in wallets              \* the unique index refuses it
        /\ GoTo(r, "error")
        /\ UNCHANGED accountVars
  /\ UNCHANGED <<req, seen, staged, stale, tries>>

-----------------------------------------------------------------------------
(* inside withTransaction *)

Holds(r, u) == staged[r].delta[u] # 0
WriteConflict(r, u) == u \in stale[r] \/ \E s \in Requests \ {r} : Holds(s, u)

Stage(r, u, amount) == staged' = [staged EXCEPT ![r].delta[u] = @ + amount]
Discard(r) ==
  /\ staged' = [staged EXCEPT ![r] = Nothing]
  /\ stale' = [stale EXCEPT ![r] = {}]

(* Mutant of Debit: the filter has no balance: { $gte: amount }. *)
DebitWithoutGte(r) ==
  /\ pc[r] = "debit"
  /\ ~WriteConflict(r, req[r].from)
  /\ Stage(r, req[r].from, -req[r].amount)
  /\ GoTo(r, "credit")
  /\ UNCHANGED <<accountVars, req, seen, stale, tries>>

(* findOneAndUpdate({ userId, balance: { $gte } }), the first operation of  *)
(* the transaction: it takes the snapshot.                                  *)
Debit(r) ==
  /\ pc[r] = "debit"
  /\ LET q == req[r] IN
       \/ /\ q.from \in wallets /\ balance[q.from] >= q.amount
          /\ ~WriteConflict(r, q.from)
          /\ Stage(r, q.from, -q.amount)
          /\ GoTo(r, "credit")
       \/ /\ ~(q.from \in wallets /\ balance[q.from] >= q.amount)
          /\ GoTo(r, "error")                 \* 'Insufficient funds (concurrent request)'
          /\ UNCHANGED staged
  /\ UNCHANGED <<accountVars, req, seen, stale, tries>>

(* Mutant of Credit: the session is not passed, the write is immediate. *)
CreditWithoutSession(r) ==
  /\ pc[r] = "credit"
  /\ balance' = [balance EXCEPT ![req[r].to] = @ + req[r].amount]
  /\ GoTo(r, "log")
  /\ UNCHANGED <<wallets, currency, opening, ledger, req, seen, staged, stale, tries>>

(* The result of this findOneAndUpdate is not looked at: a wallet that is   *)
(* not there is not credited.                                               *)
Credit(r) ==
  /\ pc[r] = "credit"
  /\ LET q == req[r] IN
       \/ /\ q.to \in wallets
          /\ ~WriteConflict(r, q.to)
          /\ Stage(r, q.to, q.amount)
       \/ /\ q.to \notin wallets
          /\ UNCHANGED staged
  /\ GoTo(r, "log")
  /\ UNCHANGED <<accountVars, req, seen, stale, tries>>

(* Mutant of EntryOf: source and destination exchanged. *)
EntryReversed(r) ==
  LET q == req[r] IN
    [id |-> <<r, tries[r]>>, type |-> IF q.op = "transfer" THEN "TRANSFER" ELSE "DEPOSIT",
     from |-> q.to, to |-> q.from, amount |-> q.amount, currency |-> Upper[q.currency]]

EntryOf(r) ==
  LET q == req[r] IN
    [id |-> <<r, tries[r]>>, type |-> IF q.op = "transfer" THEN "TRANSFER" ELSE "DEPOSIT",
     from |-> q.from, to |-> q.to, amount |-> q.amount, currency |-> Upper[q.currency]]

(* Mutant of Log: the session is not passed, the entry is visible at once. *)
LogWithoutSession(r) ==
  /\ pc[r] = "log"
  /\ ledger' = ledger \cup {EntryOf(r)}
  /\ GoTo(r, "commit")
  /\ UNCHANGED <<wallets, balance, currency, opening, req, seen, staged, stale, tries>>

(* An amount below the schema's minimum fails validation and the            *)
(* transaction is aborted.                                                  *)
Log(r) ==
  /\ pc[r] = "log"
  /\ \/ /\ req[r].amount >= LedgerMin
        /\ staged' = [staged EXCEPT ![r].log = @ \cup {EntryOf(r)}]
        /\ GoTo(r, "commit")
        /\ UNCHANGED stale
     \/ /\ req[r].amount < LedgerMin
        /\ Discard(r)
        /\ GoTo(r, "error")
  /\ UNCHANGED <<accountVars, req, seen, tries>>

(* The staged writes become visible together; transactions that already     *)
(* took their snapshot can no longer write these wallets.                   *)
Apply(r) ==
  /\ balance' = [u \in Users |-> balance[u] + staged[r].delta[u]]
  /\ ledger' = ledger \cup staged[r].log
  /\ staged' = [staged EXCEPT ![r] = Nothing]
  /\ stale' = [s \in Requests |->
                 IF s # r /\ staged[s] # Nothing
                   THEN stale[s] \cup {u \in Users : Holds(r, u)}
                   ELSE IF s = r THEN {} ELSE stale[s]]
  /\ UNCHANGED <<wallets, currency, opening>>

Commit(r) ==
  /\ pc[r] = "commit"
  /\ Apply(r)
  /\ GoTo(r, IF req[r].op = "transfer" THEN "reread" ELSE "ok")
  /\ UNCHANGED <<req, seen, tries>>

(* Mutant of CommitUnacked: a lost acknowledgement starts the callback again. *)
CommitRunAgain(r) ==
  /\ pc[r] = "commit" /\ tries[r] < MaxTries
  /\ Apply(r)
  /\ tries' = [tries EXCEPT ![r] = @ + 1]
  /\ GoTo(r, FirstWrite(req[r]))
  /\ UNCHANGED <<req, seen>>

(* The commit takes effect and every acknowledgement is lost: the caller    *)
(* gets an error for money that has moved.                                  *)
CommitUnacked(r) ==
  /\ pc[r] = "commit"
  /\ Apply(r)
  /\ GoTo(r, "unknown")
  /\ UNCHANGED <<req, seen, tries>>

(* Mutant of Retry: no limit on the retries. *)
RetryForever(r) ==
  /\ pc[r] \in Txn
  /\ Discard(r)
  /\ GoTo(r, FirstWrite(req[r]))
  /\ UNCHANGED <<accountVars, req, seen, tries>>

(* TransientTransactionError at any step: the callback starts again. *)
Retry(r) ==
  /\ pc[r] \in Txn
  /\ tries[r] < MaxTries
  /\ Discard(r)
  /\ tries' = [tries EXCEPT ![r] = @ + 1]
  /\ GoTo(r, FirstWrite(req[r]))
  /\ UNCHANGED <<accountVars, req, seen>>

(* The time limit, or an error that is not transient. *)
GiveUp(r) ==
  /\ pc[r] \in Txn
  /\ Discard(r)
  /\ GoTo(r, "error")
  /\ UNCHANGED <<accountVars, req, seen, tries>>

(* The process stops, or a database call outside the transaction throws:    *)
(* nobody is told what happened, an open transaction is aborted.            *)
Crash(r) ==
  /\ pc[r] \in Running
  /\ Discard(r)
  /\ GoTo(r, "crashed")
  /\ UNCHANGED <<accountVars, req, seen, tries>>

-----------------------------------------------------------------------------

Start(r) == StartTransfer(r) \/ StartDeposit(r) \/ StartCreate(r)

Step(r) ==
  \/ ReadTo(r) \/ Reread(r) \/ InsertWallet(r)
  \/ Debit(r) \/ Credit(r) \/ Log(r) \/ Commit(r) \/ CommitUnacked(r)
  \/ Retry(r) \/ GiveUp(r)

Next == \E r \in Requests : Start(r) \/ Step(r) \/ Crash(r)

Spec == Init /\ [][Next]_vars

(* Every pending await is answered; no request has to arrive. *)
FairSpec == Spec /\ \A r \in Requests : WF_vars(Step(r))

-----------------------------------------------------------------------------

(* The answer tells the truth: after "ok" the ledger has exactly one entry  *)
(* of the request, although withTransaction may have run the callback      *)
(* several times; after "error" it has none.  ("unknown" may be either.)    *)
OutcomeMatchesLedger ==
  \A r \in Requests :
    LET mine == {e \in ledger : e.id[1] = r} IN
      /\ pc[r] = "ok" /\ req[r].op # "create" => Cardinality(mine) = 1
      /\ pc[r] = "error" => mine = {}
      /\ Cardinality(mine) <= 1

(* A debit in an open transaction stays covered by the committed balance    *)
(* until it commits, whatever the other requests commit meanwhile: the      *)
(* check of $gte and the $inc are not separated by another debit.           *)
DebitCovered ==
  \A r \in Requests, u \in Users : balance[u] + staged[r].delta[u] >= 0

(* Every request is answered: opposite transfers, which take their wallets  *)
(* in opposite orders, do not wait for each other for ever.                 *)
AnsweredEventually ==
  \A r \in Requests : pc[r] \in Running ~> pc[r] \in Final
=============================================================================
