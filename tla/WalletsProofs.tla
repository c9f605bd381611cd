--------------------------- MODULE WalletsProofs ---------------------------
(***************************************************************************)
(* Theorems about Wallets for every set of users, requests, currencies and *)
(* amounts.  WalletsInv is the inductive invariant: what an open           *)
(* transaction has staged is determined by how far it is (StagedInv), the  *)
(* checks made before the transaction still hold (RequestInv), no wallet   *)
(* is written by two open transactions (WritersExclude), and entries in    *)
(* the ledger belong to requests whose transaction is over (LedgerInv).    *)
(***************************************************************************)
EXTENDS Wallets, Sums, FiniteSetTheorems, TLAPS

Agrees(u, c) == u \in wallets /\ Upper[currency[u]] = Upper[c]

RequestOK(r) ==
  LET q == req[r] IN
    /\ pc[r] # "idle" => q \in Request
    /\ pc[r] \in {"readTo", "debit", "reread"} => q.op = "transfer"
    /\ pc[r] = "insert" => q.op = "create"
    /\ pc[r] \in Txn => q.op \in {"transfer", "deposit"}
    /\ pc[r] \in Running /\ q.op = "transfer" => q.from # q.to
    /\ pc[r] = "readTo" /\ seen[r].found =>
         q.from \in wallets /\ seen[r].currency = currency[q.from]
    /\ pc[r] \in Txn => Agrees(q.to, q.currency)
    /\ pc[r] \in Txn /\ q.op = "transfer" => Agrees(q.from, q.currency)
    /\ pc[r] = "reread" => {q.from, q.to} \subseteq wallets

RequestInv == \A r \in Requests : RequestOK(r)

(* The increments staged by a transfer or deposit q after its debit. *)
Debited(q)  == [u \in Users |-> IF u = q.from THEN -q.amount ELSE 0]
Credited(q) == [u \in Users |-> IF u = q.from THEN -q.amount
                                ELSE IF u = q.to THEN q.amount ELSE 0]

StagedOK(r) ==
  /\ pc[r] \notin Txn \/ pc[r] = "debit" => staged[r] = Nothing
  /\ pc[r] = "credit" => staged[r] = [delta |-> Debited(req[r]), log |-> {}]
  /\ pc[r] = "log" => staged[r] = [delta |-> Credited(req[r]), log |-> {}]
  /\ pc[r] = "commit" => staged[r] = [delta |-> Credited(req[r]), log |-> {EntryOf(r)}]

StagedInv == \A r \in Requests : StagedOK(r)

(* No wallet is written by two open transactions at once. *)
WritersExclude ==
  \A r, s \in Requests, u \in Users : Holds(r, u) /\ Holds(s, u) => r = s

(* A request has entries only after its transaction, and then one. *)
LedgerInv ==
  /\ \A e \in ledger : /\ e.id[1] \in Requests
                       /\ pc[e.id[1]] \in {"reread", "ok", "unknown", "crashed"}
  /\ \A e, f \in ledger : e.id[1] = f.id[1] => e = f
  /\ \A r \in Requests :
       pc[r] = "reread" \/ (pc[r] = "ok" /\ req[r].op # "create") =>
         \E e \in ledger : e.id[1] = r

WalletsInv ==
  /\ TypeOK
  /\ RequestInv
  /\ StagedInv
  /\ WritersExclude
  /\ NoOverdraft
  /\ DebitCovered
  /\ LedgerInv
  /\ LedgerCurrency
-----------------------------------------------------------------------------
(* Data *)

(* What the fields of an admitted request are. *)
LEMMA RequestFields ==
  ASSUME NEW q \in Request
  PROVE  /\ q.op \in {"transfer", "deposit", "create"}
         /\ q.to \in Users /\ q.currency \in Currencies
         /\ q.amount \in Nat
         /\ q.op = "transfer" => q.from \in Users
         /\ q.op # "transfer" => q.from = NoUser
         /\ q.op = "create" => q.amount \in OpeningBalances
         /\ q.op # "create" => q.amount \in Amounts \ {0}
BY AccountsAssumption, WalletsAssumption DEF Request

(* The entry of a transfer or deposit is a well-formed ledger entry. *)
LEMMA EntryOfType ==
  ASSUME TypeOK, NEW r \in Requests, req[r] \in Request, req[r].op # "create"
  PROVE  /\ EntryOf(r) \in Entry
         /\ EntryOf(r).id[1] = r
<1> DEFINE q == req[r]
<1>1. /\ q.to \in Users /\ q.amount \in Amounts /\ Upper[q.currency] \in Currencies
      /\ q.from \in Users \cup {NoUser}
  BY RequestFields, AccountsAssumption
<1>2. <<r, tries[r]>> \in EntryIds
  BY WalletsAssumption DEF TypeOK
<1> QED
  BY <1>1, <1>2 DEF EntryOf, Entry

(* A wallet read has the type of seen. *)
LEMMA ReadType ==
  ASSUME TypeOK, NEW u \in Users
  PROVE  Read(u) \in [found: BOOLEAN, balance: Int, currency: Currencies]
<1>1. (u \in wallets) \in BOOLEAN
  OBVIOUS
<1>2. balance[u] \in Int /\ currency[u] \in Currencies
  BY DEF TypeOK, AccountsTypeOK
<1> QED
  BY <1>1, <1>2, Zenon DEF Read

(* Nothing staged is a well-typed value of staged. *)
LEMMA NothingType == Nothing \in [delta: [Users -> Int], log: SUBSET Entry]
BY DEF Nothing

(* What staging an increment does to the staged writes. *)
LEMMA StageEffect ==
  ASSUME TypeOK, NEW r \in Requests, NEW u \in Users, NEW n \in Int, Stage(r, u, n)
  PROVE  /\ staged' \in [Requests -> [delta: [Users -> Int], log: SUBSET Entry]]
         /\ staged'[r].delta = [staged[r].delta EXCEPT ![u] = @ + n]
         /\ staged'[r].log = staged[r].log
         /\ \A s \in Requests \ {r} : staged'[s] = staged[s]
<1> DEFINE w == [staged[r] EXCEPT !.delta[u] = @ + n]
           d == [staged[r].delta EXCEPT ![u] = @ + n]
<1>1. staged[r] \in [delta: [Users -> Int], log: SUBSET Entry]
  BY DEF TypeOK
<1>2. d \in [Users -> Int]
  BY <1>1
<1>3. w = [delta |-> d, log |-> staged[r].log]
  BY <1>1
<1>4. staged' = [staged EXCEPT ![r] = w]
  BY DEF Stage
<1> HIDE DEF w, d
<1>5. w \in [delta: [Users -> Int], log: SUBSET Entry] /\ w.delta = d /\ w.log = staged[r].log
  BY <1>1, <1>2, <1>3
<1>6. staged \in [Requests -> [delta: [Users -> Int], log: SUBSET Entry]]
  BY DEF TypeOK
<1>7. staged' \in [Requests -> [delta: [Users -> Int], log: SUBSET Entry]] /\ staged'[r] = w
  BY <1>4, <1>5, <1>6
<1> QED
  BY <1>4, <1>5, <1>6, <1>7 DEF d

(* What logging does to them. *)
LEMMA LogEffect ==
  ASSUME TypeOK, NEW r \in Requests, NEW e \in Entry,
         staged' = [staged EXCEPT ![r].log = @ \cup {e}]
  PROVE  /\ staged' \in [Requests -> [delta: [Users -> Int], log: SUBSET Entry]]
         /\ staged'[r].delta = staged[r].delta
         /\ staged'[r].log = staged[r].log \cup {e}
         /\ \A s \in Requests \ {r} : staged'[s] = staged[s]
<1> DEFINE w == [staged[r] EXCEPT !.log = @ \cup {e}]
<1>1. staged[r] \in [delta: [Users -> Int], log: SUBSET Entry]
  BY DEF TypeOK
<1>2. w = [delta |-> staged[r].delta, log |-> staged[r].log \cup {e}]
  BY <1>1
<1>3. staged' = [staged EXCEPT ![r] = w]
  OBVIOUS
<1> HIDE DEF w
<1>4. /\ w \in [delta: [Users -> Int], log: SUBSET Entry]
      /\ w.delta = staged[r].delta /\ w.log = staged[r].log \cup {e}
  BY <1>1, <1>2
<1>5. staged \in [Requests -> [delta: [Users -> Int], log: SUBSET Entry]]
  BY DEF TypeOK
<1> QED
  BY <1>3, <1>4, <1>5

-----------------------------------------------------------------------------
(* Type correctness *)

(* The program starts in a well-typed state. *)
LEMMA TypeInit == Init => TypeOK
<1> SUFFICES ASSUME Init PROVE TypeOK
  OBVIOUS
<1>1. AccountsTypeOK
  <2>1. balance \in [Users -> OpeningBalances \cup {0}] /\ OpeningBalances \cup {0} \subseteq Int
    BY AccountsAssumption DEF Init, AccountsInit
  <2>2. balance \in [Users -> Int]
    BY <2>1
  <2> QED
    BY <2>1, <2>2 DEF Init, AccountsInit, AccountsTypeOK
<1>2. Unread \in [found: BOOLEAN, balance: Int, currency: Currencies]
  BY AccountsAssumption DEF Unread
<1>3. MaxTries \in Nat /\ 0 \in 0..MaxTries
  BY WalletsAssumption
<1> QED
  BY <1>1, <1>2, <1>3, NothingType DEF Init, TypeOK

(* Every step of a request keeps the types. *)
LEMMA TypeStep ==
  ASSUME TypeOK, RequestInv, Next
  PROVE  TypeOK'
<1> USE DEF GoTo, accountVars
<1> PICK r \in Requests : Start(r) \/ Step(r) \/ Crash(r)
  BY DEF Next
<1>q. pc[r] # "idle" => req[r] \in Request
  BY DEF RequestInv, RequestOK
<1>1. CASE StartTransfer(r)
  <2>1. PICK q \in Request :
          /\ q.op = "transfer"
          /\ req' = [req EXCEPT ![r] = q]
          /\ \/ GoTo(r, "error") /\ UNCHANGED seen
             \/ GoTo(r, "readTo") /\ seen' = [seen EXCEPT ![r] = Read(q.from)]
    BY <1>1 DEF StartTransfer
  <2>2. Read(q.from) \in [found: BOOLEAN, balance: Int, currency: Currencies]
    BY <2>1, RequestFields, ReadType
  <2> HIDE DEF Read
  <2>3. seen' \in [Requests -> [found: BOOLEAN, balance: Int, currency: Currencies]]
    BY <2>1, <2>2 DEF TypeOK
  <2>4. pc' \in [Requests -> {"idle"} \cup Running \cup Final]
    BY <2>1 DEF TypeOK, Running, Final
  <2>5. req' \in [Requests -> Request \cup {NoRequest}]
    BY <2>1 DEF TypeOK
  <2> QED
    BY <1>1, <2>3, <2>4, <2>5 DEF StartTransfer, TypeOK, AccountsTypeOK
<1>2. CASE StartDeposit(r)
  <2>1. pc' \in [Requests -> {"idle"} \cup Running \cup Final]
    BY <1>2 DEF StartDeposit, TypeOK, Running, Final, Txn
  <2>2. req' \in [Requests -> Request \cup {NoRequest}]
    BY <1>2 DEF StartDeposit, TypeOK
  <2> QED
    BY <1>2, <2>1, <2>2 DEF StartDeposit, TypeOK, AccountsTypeOK
<1>3. CASE StartCreate(r)
  <2>1. pc' \in [Requests -> {"idle"} \cup Running \cup Final]
    BY <1>3 DEF StartCreate, TypeOK, Running, Final
  <2>2. req' \in [Requests -> Request \cup {NoRequest}]
    BY <1>3 DEF StartCreate, TypeOK
  <2> QED
    BY <1>3, <2>1, <2>2 DEF StartCreate, TypeOK, AccountsTypeOK
<1>4. CASE ReadTo(r)
  BY <1>4 DEF ReadTo, TypeOK, AccountsTypeOK, Running, Final, Txn
<1>5. CASE Reread(r)
  BY <1>5 DEF Reread, TypeOK, AccountsTypeOK, Running, Final
<1>6. CASE InsertWallet(r)
  <2>1. req[r].to \in Users /\ req[r].currency \in Currencies
        /\ req[r].amount \in OpeningBalances /\ req[r].amount \in Int
    BY <1>6, <1>q, RequestFields DEF InsertWallet, RequestInv, RequestOK
  <2> QED
    BY <1>6, <2>1 DEF InsertWallet, Open, TypeOK, AccountsTypeOK, Running, Final
<1>7. CASE Debit(r)
  <2>1. req[r].from \in Users /\ req[r].amount \in Int
    BY <1>7, <1>q, RequestFields DEF Debit, RequestInv, RequestOK
  <2>2. staged' \in [Requests -> [delta: [Users -> Int], log: SUBSET Entry]]
    <3>1. -req[r].amount \in Int
      BY <2>1
    <3> QED
      BY <1>7, <2>1, <3>1, StageEffect DEF Debit, TypeOK
  <2>3. pc' \in [Requests -> {"idle"} \cup Running \cup Final]
    BY <1>7 DEF Debit, TypeOK, Running, Final, Txn
  <2> QED
    BY <1>7, <2>2, <2>3 DEF Debit, TypeOK, AccountsTypeOK
<1>8. CASE Credit(r)
  <2>1. req[r].to \in Users /\ req[r].amount \in Int
    BY <1>8, <1>q, RequestFields DEF Credit
  <2>2. staged' \in [Requests -> [delta: [Users -> Int], log: SUBSET Entry]]
    BY <1>8, <2>1, StageEffect DEF Credit, TypeOK
  <2>3. pc' \in [Requests -> {"idle"} \cup Running \cup Final]
    BY <1>8 DEF Credit, TypeOK, Running, Txn
  <2> QED
    BY <1>8, <2>2, <2>3 DEF Credit, TypeOK, AccountsTypeOK
<1>9. CASE Log(r)
  <2>1. EntryOf(r) \in Entry
    BY <1>9, <1>q, EntryOfType DEF Log, RequestInv, RequestOK, Txn
  <2>2. staged' \in [Requests -> [delta: [Users -> Int], log: SUBSET Entry]]
    <3>1. CASE staged' = [staged EXCEPT ![r] = Nothing]
      BY <3>1, NothingType DEF TypeOK
    <3> QED
      BY <1>9, <2>1, <3>1, LogEffect DEF Log, Discard
  <2>3. pc' \in [Requests -> {"idle"} \cup Running \cup Final] /\ stale' \in [Requests -> SUBSET Users]
    BY <1>9 DEF Log, Discard, TypeOK, Running, Final, Txn
  <2> QED
    BY <1>9, <2>2, <2>3 DEF Log, TypeOK, AccountsTypeOK
<1>10. CASE Commit(r) \/ CommitUnacked(r)
  <2>1. balance' \in [Users -> Int] /\ ledger' \subseteq Entry
    BY <1>10 DEF Commit, CommitUnacked, Apply, TypeOK, AccountsTypeOK
  <2>2. staged' \in [Requests -> [delta: [Users -> Int], log: SUBSET Entry]]
    BY <1>10, NothingType DEF Commit, CommitUnacked, Apply, TypeOK
  <2>3. stale' \in [Requests -> SUBSET Users]
    BY <1>10 DEF Commit, CommitUnacked, Apply, TypeOK
  <2> QED
    BY <1>10, <2>1, <2>2, <2>3
    DEF Commit, CommitUnacked, Apply, TypeOK, AccountsTypeOK, Running, Final
<1>11. CASE Retry(r)
  BY <1>11, NothingType, WalletsAssumption
  DEF Retry, Discard, FirstWrite, TypeOK, AccountsTypeOK, Running, Txn
<1>12. CASE GiveUp(r) \/ Crash(r)
  <2>1. staged' \in [Requests -> [delta: [Users -> Int], log: SUBSET Entry]]
    BY <1>12, NothingType DEF GiveUp, Crash, Discard, TypeOK
  <2>2. pc' \in [Requests -> {"idle"} \cup Running \cup Final] /\ stale' \in [Requests -> SUBSET Users]
    BY <1>12 DEF GiveUp, Crash, Discard, TypeOK, Running, Final
  <2> QED
    BY <1>12, <2>1, <2>2 DEF GiveUp, Crash, TypeOK, AccountsTypeOK
<1> QED
  BY <1>1, <1>2, <1>3, <1>4, <1>5, <1>6, <1>7, <1>8, <1>9, <1>10, <1>11, <1>12
  DEF Start, Step
-----------------------------------------------------------------------------
(* What a step leaves alone *)

Act(r) == Start(r) \/ Step(r) \/ Crash(r)

(* A step of r touches nothing that belongs to another request but its      *)
(* stale set.                                                               *)
LEMMA Local ==
  ASSUME TypeOK, RequestInv, NEW r \in Requests, Act(r), NEW s \in Requests, s # r
  PROVE  /\ pc'[s] = pc[s] /\ req'[s] = req[s] /\ seen'[s] = seen[s]
         /\ tries'[s] = tries[s] /\ staged'[s] = staged[s]
<1> USE DEF GoTo, TypeOK
<1>1. CASE Start(r)
  BY <1>1 DEF Start, StartTransfer, StartDeposit, StartCreate
<1>2. CASE ReadTo(r) \/ Reread(r) \/ InsertWallet(r)
  BY <1>2 DEF ReadTo, Reread, InsertWallet
<1>3. CASE Debit(r) \/ Credit(r) \/ Log(r)
  BY <1>3 DEF Debit, Credit, Log, Stage, Discard
<1>4. CASE Commit(r) \/ CommitUnacked(r)
  BY <1>4 DEF Commit, CommitUnacked, Apply
<1>5. CASE Retry(r) \/ GiveUp(r) \/ Crash(r)
  BY <1>5 DEF Retry, GiveUp, Crash, Discard
<1> QED
  BY <1>1, <1>2, <1>3, <1>4, <1>5 DEF Act, Step

(* Wallets are never removed and never change currency. *)
LEMMA WalletsPersist ==
  ASSUME TypeOK, RequestInv, NEW r \in Requests, Act(r)
  PROVE  /\ wallets \subseteq wallets'
         /\ \A u \in wallets : currency'[u] = currency[u]
<1> USE DEF accountVars
<1>1. CASE InsertWallet(r)
  BY <1>1 DEF InsertWallet, Open, TypeOK, AccountsTypeOK
<1>2. CASE Start(r)
  BY <1>2 DEF Start, StartTransfer, StartDeposit, StartCreate
<1>3. CASE ReadTo(r) \/ Reread(r) \/ Debit(r) \/ Credit(r) \/ Log(r)
  BY <1>3 DEF ReadTo, Reread, Debit, Credit, Log
<1>4. CASE Commit(r) \/ CommitUnacked(r)
  BY <1>4 DEF Commit, CommitUnacked, Apply
<1>5. CASE Retry(r) \/ GiveUp(r) \/ Crash(r)
  BY <1>5 DEF Retry, GiveUp, Crash
<1> QED
  BY <1>1, <1>2, <1>3, <1>4, <1>5 DEF Act, Step

-----------------------------------------------------------------------------
(* The checks made before the transaction still hold in it *)

(* Every step keeps what the requests have checked. *)
LEMMA RequestStep ==
  ASSUME TypeOK, RequestInv, NEW r \in Requests, Act(r)
  PROVE  RequestInv'
<1> SUFFICES ASSUME NEW s \in Requests PROVE RequestOK(s)'
  BY DEF RequestInv
<1>q. RequestOK(s) /\ RequestOK(r)
  BY DEF RequestInv
<1>1. CASE s # r
  BY <1>1, <1>q, Local, WalletsPersist DEF RequestOK, Agrees
<1>2. CASE s = r
  <2> USE <1>2 DEF GoTo, accountVars
  <2>1. CASE StartTransfer(r)
    <3>1. PICK q \in Request :
            /\ q.op = "transfer"
            /\ req'[r] = q
            /\ \/ pc'[r] = "error"
               \/ /\ q.from # q.to
                  /\ pc'[r] = "readTo"
                  /\ seen'[r] = Read(q.from)
      BY <2>1 DEF StartTransfer, TypeOK
    <3>2. ASSUME pc'[r] = "readTo", seen'[r].found
          PROVE  q.from \in wallets /\ seen'[r].currency = currency[q.from]
      <4>1. seen'[r] = Read(q.from)
        BY <3>1, <3>2
      <4>2. Read(q.from).found
        BY <3>2, <4>1
      <4>3. q.from \in wallets
        BY <4>2, Zenon DEF Read
      <4>4. Read(q.from).currency = currency[q.from]
        BY DEF Read
      <4> QED
        BY <4>1, <4>3, <4>4
    <3>3. wallets' = wallets /\ currency' = currency
      BY <2>1 DEF StartTransfer
    <3> HIDE DEF Read
    <3> QED
      BY <3>1, <3>2, <3>3 DEF RequestOK, Running, Txn
  <2>2. CASE StartDeposit(r)
    <3>1. PICK q \in Request :
            /\ q.op = "deposit"
            /\ req'[r] = q
            /\ \/ pc'[r] = "error"
               \/ pc'[r] = "credit" /\ Agrees(q.to, q.currency)
      BY <2>2 DEF StartDeposit, TypeOK, Agrees
    <3> QED
      BY <2>2, <3>1 DEF StartDeposit, RequestOK, Agrees, Txn
  <2>3. CASE StartCreate(r)
    <3>1. PICK q \in Request :
            q.op = "create" /\ req'[r] = q /\ pc'[r] \in {"error", "insert"}
      BY <2>3 DEF StartCreate, TypeOK
    <3> QED
      BY <3>1 DEF RequestOK, Txn
  <2>4. CASE ReadTo(r)
    <3>1. req' = req /\ pc'[r] \in {"debit", "error"}
      BY <2>4 DEF ReadTo, TypeOK
    <3>2. pc'[r] = "debit" => Agrees(req[r].from, req[r].currency) /\ Agrees(req[r].to, req[r].currency)
      BY <2>4, <1>q DEF ReadTo, Admissible, Read, Agrees, RequestOK, TypeOK
    <3> QED
      BY <2>4, <3>1, <3>2, <1>q DEF ReadTo, RequestOK, Agrees, Txn, Running
  <2>5. CASE Reread(r) \/ InsertWallet(r)
    <3>1. req' = req /\ pc'[r] \in {"ok", "error"} /\ pc[r] # "idle"
      BY <2>5 DEF Reread, InsertWallet, TypeOK
    <3> QED
      BY <3>1, <1>q DEF RequestOK, Txn, Running
  <2>6. CASE Debit(r) \/ Credit(r) \/ Log(r)
    <3>1. /\ req' = req /\ wallets' = wallets /\ currency' = currency
          /\ pc[r] \in Txn /\ pc'[r] \in {"credit", "log", "commit", "error"}
      BY <2>6 DEF Debit, Credit, Log, TypeOK, Txn
    <3> QED
      BY <3>1, <1>q DEF RequestOK, Agrees, Txn, Running
  <2>7. CASE Commit(r) \/ CommitUnacked(r)
    <3>1. /\ req' = req /\ wallets' = wallets /\ currency' = currency
          /\ pc[r] \in Txn /\ pc'[r] \in {"reread", "ok", "unknown"}
          /\ pc'[r] = "reread" => req[r].op = "transfer"
      BY <2>7 DEF Commit, CommitUnacked, Apply, TypeOK, Txn
    <3> QED
      BY <3>1, <1>q DEF RequestOK, Agrees, Txn, Running
  <2>8. CASE Retry(r)
    <3>1. /\ req' = req /\ wallets' = wallets /\ currency' = currency
          /\ pc[r] \in Txn /\ pc'[r] = FirstWrite(req[r])
      BY <2>8 DEF Retry, TypeOK
    <3> QED
      BY <3>1, <1>q DEF RequestOK, Agrees, Txn, Running, FirstWrite
  <2>9. CASE GiveUp(r) \/ Crash(r)
    <3>1. req' = req /\ pc'[r] \in {"error", "crashed"} /\ pc[r] # "idle"
      BY <2>9 DEF GiveUp, Crash, TypeOK, Txn, Running
    <3> QED
      BY <3>1, <1>q DEF RequestOK, Txn, Running
  <2> QED
    BY <2>1, <2>2, <2>3, <2>4, <2>5, <2>6, <2>7, <2>8, <2>9 DEF Act, Start, Step
<1> QED
  BY <1>1, <1>2
-----------------------------------------------------------------------------
(* What a transaction has staged is determined by how far it is *)

(* A deposit has no source wallet to debit. *)
LEMMA DepositStagesNoDebit ==
  ASSUME NEW q, q.from = NoUser
  PROVE  [delta |-> Debited(q), log |-> {}] = Nothing
BY AccountsAssumption DEF Debited, Nothing

(* The fields of an empty set of staged writes. *)
LEMMA NothingFields ==
  Nothing.delta = [u \in Users |-> 0] /\ Nothing.log = {}
BY DEF Nothing

(* Every step stages or discards exactly what its position says. *)
LEMMA StagedStep ==
  ASSUME TypeOK, RequestInv, StagedInv, NEW r \in Requests, Act(r)
  PROVE  StagedInv'
<1> SUFFICES ASSUME NEW s \in Requests PROVE StagedOK(s)'
  BY DEF StagedInv
<1>q. StagedOK(s) /\ StagedOK(r) /\ RequestOK(r)
  BY DEF StagedInv, RequestInv
<1>t. TypeOK'
  BY TypeStep DEF Next, Act
<1>1. CASE s # r
  BY <1>1, <1>q, Local DEF StagedOK, EntryOf
<1>2. CASE s = r
  <2> USE <1>2 DEF GoTo
  <2>1. CASE StartTransfer(r) \/ StartCreate(r)
    <3>1. staged' = staged /\ pc[r] = "idle" /\ pc'[r] \in {"error", "readTo", "insert"}
      BY <2>1 DEF StartTransfer, StartCreate, TypeOK
    <3> QED
      BY <3>1, <1>q DEF StagedOK, Txn
  <2>2. CASE StartDeposit(r)
    <3>1. staged' = staged /\ pc[r] = "idle" /\ pc'[r] \in {"error", "credit"}
      BY <2>2 DEF StartDeposit, TypeOK
    <3>2. req'[r] \in Request /\ req'[r].op = "deposit"
      BY <2>2 DEF StartDeposit, TypeOK
    <3>3. [delta |-> Debited(req'[r]), log |-> {}] = Nothing
      BY <3>2, RequestFields, DepositStagesNoDebit
    <3> QED
      BY <3>1, <3>3, <1>q DEF StagedOK, Txn, Debited
  <2>3. CASE ReadTo(r) \/ Reread(r) \/ InsertWallet(r)
    <3>1. staged' = staged /\ pc[r] \notin Txn /\ pc'[r] \in {"error", "ok", "debit"}
      BY <2>3 DEF ReadTo, Reread, InsertWallet, TypeOK, Txn
    <3> QED
      BY <3>1, <1>q DEF StagedOK, Txn
  <2>4. CASE Debit(r)
    <3> DEFINE q == req[r]
    <3>1. q \in Request /\ q.op = "transfer" /\ q.from \in Users /\ -q.amount \in Int
      BY <2>4, <1>q, RequestFields DEF Debit, RequestOK
    <3>2. staged[r] = Nothing /\ req' = req
      BY <2>4, <1>q DEF Debit, StagedOK
    <3>3. CASE pc'[r] = "error"
      BY <2>4, <3>2, <3>3, <1>q DEF Debit, StagedOK, Txn, TypeOK
    <3>4. CASE pc'[r] = "credit"
      <4>1. Stage(r, q.from, -q.amount)
        BY <2>4, <3>4 DEF Debit, TypeOK
      <4>2. /\ staged'[r].delta = [Nothing.delta EXCEPT ![q.from] = @ + -q.amount]
            /\ staged'[r].log = {}
        BY <4>1, <3>1, <3>2, StageEffect, NothingFields
      <4>3. staged'[r].delta = Debited(q)
        BY <4>2, <3>1, NothingFields DEF Debited
      <4>4. staged'[r] \in [delta: [Users -> Int], log: SUBSET Entry]
        BY <1>t DEF TypeOK
      <4> QED
        BY <4>2, <4>3, <4>4, <3>2, <3>4 DEF StagedOK, Txn, Debited
    <3> QED
      BY <2>4, <3>3, <3>4 DEF Debit, TypeOK
  <2>5. CASE Credit(r)
    <3> DEFINE q == req[r]
    <3>1. /\ q \in Request /\ q.op \in {"transfer", "deposit"} /\ q.to \in wallets
          /\ q.to \in Users /\ q.amount \in Int /\ q.from # q.to
      <4>1. q \in Request /\ q.op \in {"transfer", "deposit"} /\ q.to \in wallets
        BY <2>5, <1>q DEF Credit, RequestOK, Agrees, Txn
      <4>2. q.op = "transfer" => q.from # q.to
        BY <2>5, <1>q DEF Credit, RequestOK, Txn, Running
      <4> QED
        BY <4>1, <4>2, RequestFields, AccountsAssumption
    <3>2. staged[r] = [delta |-> Debited(q), log |-> {}] /\ req' = req /\ pc'[r] = "log"
      BY <2>5, <1>q DEF Credit, StagedOK, TypeOK
    <3>3. Stage(r, q.to, q.amount)
      BY <2>5, <3>1 DEF Credit
    <3>4. /\ staged'[r].delta = [Debited(q) EXCEPT ![q.to] = @ + q.amount]
          /\ staged'[r].log = {}
      BY <3>1, <3>2, <3>3, StageEffect
    <3>5. staged'[r].delta = Credited(q)
      BY <3>1, <3>4 DEF Debited, Credited
    <3>6. staged'[r] \in [delta: [Users -> Int], log: SUBSET Entry]
      BY <1>t DEF TypeOK
    <3> QED
      BY <3>2, <3>4, <3>5, <3>6 DEF StagedOK, Txn, Credited
  <2>6. CASE Log(r)
    <3>1. EntryOf(r) \in Entry /\ EntryOf(r)' = EntryOf(r) /\ req' = req
      BY <2>6, <1>q, EntryOfType DEF Log, RequestOK, Txn, EntryOf
    <3>2. staged[r] = [delta |-> Credited(req[r]), log |-> {}]
      BY <2>6, <1>q DEF Log, StagedOK
    <3>3. CASE pc'[r] = "error" /\ Discard(r)
      BY <3>3 DEF Discard, StagedOK, Txn, TypeOK
    <3>4. CASE pc'[r] = "commit" /\ staged' = [staged EXCEPT ![r].log = @ \cup {EntryOf(r)}]
      <4>1. staged'[r].delta = Credited(req[r]) /\ staged'[r].log = {EntryOf(r)}
        <5>1. /\ staged'[r].delta = staged[r].delta
              /\ staged'[r].log = staged[r].log \cup {EntryOf(r)}
          BY <3>1, <3>4, LogEffect
        <5> QED
          BY <5>1, <3>2 DEF Credited
      <4>2. staged'[r] \in [delta: [Users -> Int], log: SUBSET Entry]
        BY <1>t DEF TypeOK
      <4>3. staged'[r] = [delta |-> Credited(req[r]), log |-> {EntryOf(r)}]
        BY <4>1, <4>2
      <4>4. req' = req /\ tries' = tries
        BY <2>6 DEF Log
      <4> QED
        BY <4>3, <4>4, <3>4 DEF StagedOK, Txn, Credited, EntryOf
    <3> QED
      BY <2>6, <3>3, <3>4 DEF Log, TypeOK
  <2>7. CASE Commit(r) \/ CommitUnacked(r)
    <3>1. staged'[r] = Nothing /\ pc'[r] \in {"reread", "ok", "unknown"}
      BY <2>7 DEF Commit, CommitUnacked, Apply, TypeOK
    <3> QED
      BY <3>1 DEF StagedOK, Txn, Nothing
  <2>8. CASE Retry(r)
    <3>1. staged'[r] = Nothing /\ req' = req /\ pc'[r] = FirstWrite(req[r])
      BY <2>8 DEF Retry, Discard, TypeOK
    <3>2. req[r].op = "deposit" => [delta |-> Debited(req[r]), log |-> {}] = Nothing
      BY <2>8, <1>q, RequestFields, DepositStagesNoDebit DEF Retry, RequestOK, Txn
    <3>3. req[r].op \in {"transfer", "deposit"}
      BY <2>8, <1>q DEF Retry, RequestOK
    <3> QED
      BY <3>1, <3>2, <3>3 DEF StagedOK, Txn, FirstWrite, Nothing, Debited
  <2>9. CASE GiveUp(r) \/ Crash(r)
    <3>1. staged'[r] = Nothing /\ pc'[r] \in {"error", "crashed"}
      BY <2>9 DEF GiveUp, Crash, Discard, TypeOK
    <3> QED
      BY <3>1 DEF StagedOK, Txn, Nothing
  <2> QED
    BY <2>1, <2>2, <2>3, <2>4, <2>5, <2>6, <2>7, <2>8, <2>9 DEF Act, Start, Step
<1> QED
  BY <1>1, <1>2
-----------------------------------------------------------------------------
(* No two open transactions write the same wallet *)

(* A step of r either holds nothing new or takes a wallet nobody holds. *)
LEMMA Acquire ==
  ASSUME TypeOK, RequestInv, StagedInv, NEW r \in Requests, Act(r),
         NEW u \in Users, Holds(r, u)'
  PROVE  Holds(r, u) \/ \A s \in Requests \ {r} : ~Holds(s, u)
<1>q. StagedOK(r) /\ RequestOK(r)
  BY DEF StagedInv, RequestInv
<1>1. CASE Start(r)
  BY <1>1 DEF Start, StartTransfer, StartDeposit, StartCreate, Holds
<1>2. CASE ReadTo(r) \/ Reread(r) \/ InsertWallet(r)
  BY <1>2 DEF ReadTo, Reread, InsertWallet, Holds
<1>3. CASE Debit(r)
  <2>1. req[r].from \in Users /\ req[r].amount \in Int /\ -req[r].amount \in Int
    BY <1>3, <1>q, RequestFields DEF Debit, RequestOK
  <2>2. CASE staged' = staged
    BY <2>2 DEF Holds
  <2>3. CASE Stage(r, req[r].from, -req[r].amount) /\ ~WriteConflict(r, req[r].from)
    <3>1. staged'[r].delta = [staged[r].delta EXCEPT ![req[r].from] = @ + -req[r].amount]
      BY <2>1, <2>3, StageEffect
    <3>2. u # req[r].from => Holds(r, u)
      BY <3>1 DEF Holds, TypeOK
    <3> QED
      BY <2>3, <3>2 DEF WriteConflict
  <2> QED
    BY <1>3, <2>2, <2>3 DEF Debit
<1>4. CASE Credit(r)
  <2>1. req[r].to \in Users /\ req[r].amount \in Int
    BY <1>4, <1>q, RequestFields DEF Credit, RequestOK
  <2>2. CASE staged' = staged
    BY <2>2 DEF Holds
  <2>3. CASE Stage(r, req[r].to, req[r].amount) /\ ~WriteConflict(r, req[r].to)
    <3>1. staged'[r].delta = [staged[r].delta EXCEPT ![req[r].to] = @ + req[r].amount]
      BY <2>1, <2>3, StageEffect
    <3>2. u # req[r].to => Holds(r, u)
      BY <3>1 DEF Holds, TypeOK
    <3> QED
      BY <2>3, <3>2 DEF WriteConflict
  <2> QED
    BY <1>4, <2>2, <2>3 DEF Credit
<1>5. CASE Log(r)
  <2>1. EntryOf(r) \in Entry
    BY <1>5, <1>q, EntryOfType DEF Log, RequestOK, Txn
  <2>2. CASE staged' = [staged EXCEPT ![r].log = @ \cup {EntryOf(r)}]
    BY <2>1, <2>2, LogEffect DEF Holds
  <2>3. CASE Discard(r)
    BY <2>3, NothingFields DEF Discard, Holds, TypeOK
  <2> QED
    BY <1>5, <2>2, <2>3 DEF Log
<1>6. CASE Commit(r) \/ CommitUnacked(r)
  BY <1>6, NothingFields DEF Commit, CommitUnacked, Apply, Holds, TypeOK
<1>7. CASE Retry(r) \/ GiveUp(r) \/ Crash(r)
  BY <1>7, NothingFields DEF Retry, GiveUp, Crash, Discard, Holds, TypeOK
<1> QED
  BY <1>1, <1>2, <1>3, <1>4, <1>5, <1>6, <1>7 DEF Act, Step

(* Every step keeps the writers of a wallet apart. *)
LEMMA WritersStep ==
  ASSUME TypeOK, RequestInv, StagedInv, WritersExclude, NEW r \in Requests, Act(r)
  PROVE  WritersExclude'
<1> SUFFICES ASSUME NEW s \in Requests, NEW t \in Requests, NEW u \in Users,
                    Holds(s, u)', Holds(t, u)', s # t
             PROVE  FALSE
  BY DEF WritersExclude
<1>1. \A x \in Requests \ {r} : Holds(x, u)' <=> Holds(x, u)
  BY Local DEF Holds
<1>2. CASE s # r /\ t # r
  BY <1>1, <1>2 DEF WritersExclude
<1>3. CASE s = r
  BY <1>1, <1>3, Acquire DEF WritersExclude
<1>4. CASE t = r
  BY <1>1, <1>4, Acquire DEF WritersExclude
<1> QED
  BY <1>2, <1>3, <1>4

-----------------------------------------------------------------------------
(* Balances *)

(* Only wallets that exist are written. *)
LEMMA HeldExists ==
  ASSUME TypeOK, RequestInv, StagedInv, NEW r \in Requests, NEW u \in Users, Holds(r, u)
  PROVE  u \in wallets
<1> DEFINE q == req[r]
<1>1. StagedOK(r) /\ RequestOK(r)
  BY DEF StagedInv, RequestInv
<1>2. pc[r] \in {"credit", "log", "commit"}
  BY <1>1, NothingFields DEF StagedOK, Holds, Txn
<1>3. u = q.from \/ u = q.to
  BY <1>1, <1>2 DEF StagedOK, Holds, Debited, Credited
<1>4. q \in Request /\ q.to \in wallets /\ (q.op = "transfer" => q.from \in wallets)
  BY <1>1, <1>2 DEF RequestOK, Txn, Agrees
<1> QED
  BY <1>3, <1>4, RequestFields, AccountsAssumption

(* The committed balances, and each with the uncommitted increments of any  *)
(* one transaction, stay non-negative.                                      *)
LEMMA BalanceStep ==
  ASSUME TypeOK, RequestInv, StagedInv, WritersExclude, NoOverdraft, DebitCovered,
         NEW r \in Requests, Act(r)
  PROVE  NoOverdraft' /\ DebitCovered'
<1>q. StagedOK(r) /\ RequestOK(r)
  BY DEF StagedInv, RequestInv
<1>t. TypeOK' /\ StagedInv'
  BY TypeStep, StagedStep DEF Next, Act
<1>b. \A s \in Requests, u \in Users :
        balance[u] \in Int /\ staged[s].delta[u] \in Int
        /\ balance'[u] \in Int /\ staged'[s].delta[u] \in Int
  BY <1>t DEF TypeOK, AccountsTypeOK
<1> DEFINE Covered(s) == \A u \in Users : balance'[u] + staged'[s].delta[u] >= 0
<1>1. CASE Start(r) \/ ReadTo(r) \/ Reread(r)
  BY <1>1 DEF Start, StartTransfer, StartDeposit, StartCreate, ReadTo, Reread,
              accountVars, NoOverdraft, DebitCovered
<1>2. CASE InsertWallet(r)
  <2>1. CASE UNCHANGED <<accountVars, staged>>
    BY <2>1 DEF accountVars, NoOverdraft, DebitCovered
  <2>2. CASE Open(req[r].to, req[r].currency, req[r].amount)
    <3>1. req[r].amount \in Nat /\ req[r].to \in Users
      BY <1>2, <1>q, RequestFields DEF InsertWallet, RequestOK
    <3>2. balance' = [balance EXCEPT ![req[r].to] = req[r].amount] /\ staged' = staged
          /\ req[r].to \notin wallets
      BY <1>2, <2>2 DEF Open, InsertWallet
    <3>3. \A s \in Requests : staged[s].delta[req[r].to] = 0
      BY <3>1, <3>2, HeldExists DEF Holds
    <3> QED
      BY <3>1, <3>2, <3>3, <1>b DEF NoOverdraft, DebitCovered, TypeOK, AccountsTypeOK
  <2> QED
    BY <1>2, <2>1, <2>2 DEF InsertWallet
<1>3. CASE Debit(r)
  <2>1. balance' = balance
    BY <1>3 DEF Debit, accountVars
  <2>2. Covered(r)
    <3>1. CASE staged' = staged
      BY <2>1, <3>1 DEF DebitCovered
    <3>2. CASE staged' # staged
      <4>1. balance[req[r].from] >= req[r].amount /\ pc'[r] = "credit" /\ req' = req
        BY <1>3, <3>2 DEF Debit, GoTo, TypeOK
      <4>2. staged'[r].delta = Debited(req[r])
        <5>1. StagedOK(r)'
          BY <1>t DEF StagedInv
        <5>2. staged'[r] = [delta |-> Debited(req[r])', log |-> {}]
          BY <5>1, <4>1 DEF StagedOK
        <5> QED
          BY <5>2, <4>1 DEF Debited
      <4>3. req[r].amount \in Nat
        BY <1>3, <1>q, RequestFields DEF Debit, RequestOK
      <4> QED
        BY <2>1, <4>1, <4>2, <4>3, <1>b DEF Debited, NoOverdraft
    <3> QED
      BY <3>1, <3>2
  <2> QED
    BY <2>1, <2>2, Local DEF NoOverdraft, DebitCovered
<1>4. CASE Credit(r)
  <2>1. balance' = balance
    BY <1>4 DEF Credit, accountVars
  <2>2. Covered(r)
    <3>1. CASE staged' = staged
      BY <2>1, <3>1 DEF DebitCovered
    <3>2. CASE Stage(r, req[r].to, req[r].amount)
      <4>1. req[r].amount \in Nat /\ req[r].to \in Users
        BY <1>4, <1>q, RequestFields DEF Credit, RequestOK
      <4>2. staged'[r].delta = [staged[r].delta EXCEPT ![req[r].to] = @ + req[r].amount]
        BY <3>2, <4>1, StageEffect
      <4>3. \A u \in Users : staged'[r].delta[u] >= staged[r].delta[u]
        BY <4>1, <4>2, <1>b DEF TypeOK
      <4> QED
        BY <2>1, <4>3, <1>b DEF DebitCovered
    <3> QED
      BY <1>4, <3>1, <3>2 DEF Credit
  <2> QED
    BY <2>1, <2>2, Local DEF NoOverdraft, DebitCovered
<1>5. CASE Log(r)
  <2>1. balance' = balance
    BY <1>5 DEF Log, accountVars
  <2>2. Covered(r)
    <3>1. EntryOf(r) \in Entry
      BY <1>5, <1>q, EntryOfType DEF Log, RequestOK, Txn
    <3>2. CASE staged' = [staged EXCEPT ![r].log = @ \cup {EntryOf(r)}]
      BY <2>1, <3>1, <3>2, LogEffect DEF DebitCovered
    <3>3. CASE Discard(r)
      BY <2>1, <3>3, NothingFields, <1>b DEF Discard, NoOverdraft, TypeOK
    <3> QED
      BY <1>5, <3>2, <3>3 DEF Log
  <2> QED
    BY <2>1, <2>2, Local DEF NoOverdraft, DebitCovered
<1>6. CASE Commit(r) \/ CommitUnacked(r)
  <2>1. /\ \A u \in Users : balance'[u] = balance[u] + staged[r].delta[u]
        /\ staged'[r] = Nothing
    BY <1>6 DEF Commit, CommitUnacked, Apply, TypeOK
  <2>2. NoOverdraft'
    BY <2>1 DEF DebitCovered, NoOverdraft
  <2>3. Covered(r)
    BY <2>1, <2>2, <1>b, NothingFields DEF NoOverdraft
  <2>4. ASSUME NEW s \in Requests, s # r PROVE Covered(s)
    <3>1. staged'[s] = staged[s]
      BY <2>4, Local
    <3>2. \A u \in Users : staged[s].delta[u] = 0 \/ staged[r].delta[u] = 0
      BY <2>4 DEF WritersExclude, Holds
    <3> QED
      BY <2>1, <2>2, <3>1, <3>2, <1>b DEF DebitCovered, NoOverdraft
  <2> QED
    BY <2>2, <2>3, <2>4 DEF DebitCovered
<1>7. CASE Retry(r) \/ GiveUp(r) \/ Crash(r)
  <2>1. balance' = balance /\ staged'[r] = Nothing
    BY <1>7 DEF Retry, GiveUp, Crash, Discard, accountVars, TypeOK
  <2>2. Covered(r)
    BY <2>1, <1>b, NothingFields DEF NoOverdraft
  <2> QED
    BY <2>1, <2>2, Local DEF NoOverdraft, DebitCovered
<1> QED
  BY <1>1, <1>2, <1>3, <1>4, <1>5, <1>6, <1>7 DEF Act, Step
-----------------------------------------------------------------------------
(* The ledger *)

Booked == {"reread", "ok", "unknown", "crashed"}

(* What a transaction that is about to commit has staged. *)
LEMMA StagedAtCommit ==
  ASSUME StagedInv, NEW r \in Requests, pc[r] = "commit"
  PROVE  staged[r].delta = Credited(req[r]) /\ staged[r].log = {EntryOf(r)}
<1>1. StagedOK(r)
  BY DEF StagedInv
<1>2. staged[r] = [delta |-> Credited(req[r]), log |-> {EntryOf(r)}]
  BY <1>1 DEF StagedOK
<1> HIDE DEF Credited, EntryOf
<1> QED
  BY <1>2

(* A step adds at most r's own entry, and only when it commits. *)
LEMMA LedgerGrows ==
  ASSUME TypeOK, RequestInv, StagedInv, NEW r \in Requests, Act(r)
  PROVE  \/ ledger' = ledger
         \/ /\ Commit(r) \/ CommitUnacked(r)
            /\ ledger' = ledger \cup {EntryOf(r)}
<1> USE DEF accountVars
<1>1. CASE Start(r)
  BY <1>1 DEF Start, StartTransfer, StartDeposit, StartCreate
<1>2. CASE ReadTo(r) \/ Reread(r) \/ Debit(r) \/ Credit(r) \/ Log(r)
  BY <1>2 DEF ReadTo, Reread, Debit, Credit, Log
<1>3. CASE InsertWallet(r)
  BY <1>3 DEF InsertWallet, Open
<1>4. CASE Commit(r) \/ CommitUnacked(r)
  <2>1. staged[r].log = {EntryOf(r)}
    BY <1>4, StagedAtCommit DEF Commit, CommitUnacked
  <2> QED
    BY <1>4, <2>1 DEF Commit, CommitUnacked, Apply
<1>5. CASE Retry(r) \/ GiveUp(r) \/ Crash(r)
  BY <1>5 DEF Retry, GiveUp, Crash
<1> QED
  BY <1>1, <1>2, <1>3, <1>4, <1>5 DEF Act, Step

(* A request that is booked stays booked. *)
LEMMA BookedStays ==
  ASSUME TypeOK, RequestInv, NEW r \in Requests, Act(r), NEW s \in Requests, pc[s] \in Booked
  PROVE  pc'[s] \in Booked
<1>1. CASE s # r
  BY <1>1, Local
<1>2. CASE s = r
  <2>1. pc[r] \in Booked /\ RequestOK(r)
    BY <1>2 DEF RequestInv
  <2>2. CASE Reread(r)
    BY <1>2, <2>1, <2>2 DEF Reread, RequestOK, GoTo, Booked, TypeOK
  <2>3. CASE Crash(r)
    BY <1>2, <2>3 DEF Crash, GoTo, Booked, TypeOK
  <2>4. ~Start(r)
    BY <2>1 DEF Start, StartTransfer, StartDeposit, StartCreate, Booked
  <2>5. ~(ReadTo(r) \/ InsertWallet(r) \/ Debit(r) \/ Credit(r) \/ Log(r))
    BY <2>1 DEF ReadTo, InsertWallet, Debit, Credit, Log, Booked
  <2>6. ~(Commit(r) \/ CommitUnacked(r) \/ Retry(r) \/ GiveUp(r))
    BY <2>1 DEF Commit, CommitUnacked, Retry, GiveUp, Booked, Txn
  <2> QED
    BY <2>2, <2>3, <2>4, <2>5, <2>6 DEF Act, Step
<1> QED
  BY <1>1, <1>2

(* The facts about r that make its entry a good one. *)
LEMMA CommitFacts ==
  ASSUME TypeOK, RequestInv, StagedInv, NEW r \in Requests, Commit(r) \/ CommitUnacked(r)
  PROVE  LET q == req[r] IN
         /\ q \in Request /\ q.op \in {"transfer", "deposit"}
         /\ pc'[r] \in Booked /\ pc[r] \notin Booked
         /\ EntryOf(r) \in Entry /\ EntryOf(r).id[1] = r
         /\ Agrees(q.to, q.currency)
         /\ q.op = "transfer" => q.from # q.to /\ Agrees(q.from, q.currency)
         /\ staged[r].delta = Credited(q)
<1>1. StagedOK(r) /\ RequestOK(r) /\ pc[r] = "commit"
  BY DEF StagedInv, RequestInv, Commit, CommitUnacked
<1>2. /\ req[r] \in Request /\ req[r].op \in {"transfer", "deposit"}
      /\ Agrees(req[r].to, req[r].currency)
      /\ req[r].op = "transfer" => req[r].from # req[r].to /\ Agrees(req[r].from, req[r].currency)
  BY <1>1 DEF RequestOK, Txn, Running
<1>3. pc'[r] \in Booked /\ pc[r] \notin Booked
  BY <1>1 DEF Commit, CommitUnacked, GoTo, Booked, TypeOK
<1>4. staged[r].delta = Credited(req[r])
  BY <1>1, StagedAtCommit
<1> QED
  BY <1>2, <1>3, <1>4, EntryOfType

(* Every step keeps at most one entry per request, of a finished transaction. *)
LEMMA LedgerStep ==
  ASSUME TypeOK, RequestInv, StagedInv, LedgerInv, NEW r \in Requests, Act(r)
  PROVE  LedgerInv'
<1>1. \A e \in ledger : e.id[1] \in Requests /\ pc[e.id[1]] \in Booked
  BY DEF LedgerInv, Booked
<1>2. CASE ledger' = ledger
  <2>1. \A e \in ledger' : e.id[1] \in Requests /\ pc'[e.id[1]] \in Booked
    BY <1>1, <1>2, BookedStays
  <2>2. ASSUME NEW s \in Requests, pc'[s] = "reread" \/ (pc'[s] = "ok" /\ req'[s].op # "create")
        PROVE  \E e \in ledger' : e.id[1] = s
    <3>1. CASE s # r
      BY <1>2, <2>2, <3>1, Local DEF LedgerInv
    <3>2. CASE s = r
      <4>1. RequestOK(r)
        BY DEF RequestInv
      <4>2. CASE Reread(r)
        BY <1>2, <3>2, <4>2 DEF Reread, LedgerInv
      <4>3. ~InsertWallet(r)
        BY <2>2, <3>2, <4>1 DEF InsertWallet, RequestOK, GoTo, TypeOK
      <4>4. ~Start(r)
        BY <2>2, <3>2 DEF Start, StartTransfer, StartDeposit, StartCreate, GoTo, TypeOK
      <4>5. ~(ReadTo(r) \/ Debit(r) \/ Credit(r) \/ Log(r))
        BY <2>2, <3>2 DEF ReadTo, Debit, Credit, Log, GoTo, TypeOK
      <4>6. ~(Retry(r) \/ GiveUp(r) \/ Crash(r))
        BY <2>2, <3>2 DEF Retry, GiveUp, Crash, GoTo, FirstWrite, TypeOK
      <4>7. CASE Commit(r) \/ CommitUnacked(r)
        <5>1. staged[r].log = {EntryOf(r)}
          BY <4>7, StagedAtCommit DEF Commit, CommitUnacked
        <5> QED
          BY <3>2, <4>7, <5>1, CommitFacts DEF Commit, CommitUnacked, Apply
      <4> QED
        BY <4>2, <4>3, <4>4, <4>5, <4>6, <4>7 DEF Act, Step
    <3> QED
      BY <3>1, <3>2
  <2> QED
    BY <1>2, <2>1, <2>2 DEF LedgerInv, Booked
<1>3. CASE (Commit(r) \/ CommitUnacked(r)) /\ ledger' = ledger \cup {EntryOf(r)}
  <2>1. EntryOf(r).id[1] = r /\ pc'[r] \in Booked /\ pc[r] \notin Booked
    BY <1>3, CommitFacts
  <2>2. \A e \in ledger' : e.id[1] \in Requests /\ pc'[e.id[1]] \in Booked
    BY <1>1, <1>3, <2>1, BookedStays
  <2>3. \A e, f \in ledger' : e.id[1] = f.id[1] => e = f
    BY <1>1, <1>3, <2>1 DEF LedgerInv
  <2>4. ASSUME NEW s \in Requests, pc'[s] = "reread" \/ (pc'[s] = "ok" /\ req'[s].op # "create")
        PROVE  \E e \in ledger' : e.id[1] = s
    BY <1>3, <2>1, <2>4, Local DEF LedgerInv
  <2> QED
    BY <2>2, <2>3, <2>4 DEF LedgerInv, Booked
<1> QED
  BY <1>2, <1>3, LedgerGrows

(* Every step keeps the ledger's currencies in agreement with the wallets. *)
LEMMA LedgerCurrencyStep ==
  ASSUME TypeOK, RequestInv, StagedInv, LedgerCurrency, NEW r \in Requests, Act(r)
  PROVE  LedgerCurrency'
<1> SUFFICES ASSUME NEW e \in ledger', NEW u \in {e.from, e.to} \cap Users
             PROVE  u \in wallets' /\ Upper[currency'[u]] = e.currency
  BY DEF LedgerCurrency
<1>1. CASE e \in ledger
  BY <1>1, WalletsPersist DEF LedgerCurrency
<1>2. CASE e = EntryOf(r) /\ (Commit(r) \/ CommitUnacked(r))
  <2>1. u \in wallets /\ Upper[currency[u]] = e.currency
    BY <1>2, CommitFacts, RequestFields, AccountsAssumption DEF EntryOf, Agrees
  <2> QED
    BY <2>1, WalletsPersist
<1> QED
  BY <1>1, <1>2, LedgerGrows

-----------------------------------------------------------------------------
(* The inductive invariant *)

(* The invariant holds before any request arrives. *)
LEMMA InvInit == Init => WalletsInv
<1> SUFFICES ASSUME Init PROVE WalletsInv
  OBVIOUS
<1> USE DEF Init
<1>1. TypeOK
  BY TypeInit
<1>2. RequestInv
  BY DEF RequestInv, RequestOK, Txn, Running
<1>3. StagedInv
  BY DEF StagedInv, StagedOK, Txn
<1>4. \A r \in Requests : staged[r].delta = [u \in Users |-> 0]
  BY NothingFields
<1>5. WritersExclude
  BY <1>4 DEF WritersExclude, Holds
<1>6. \A u \in Users : balance[u] \in Int /\ balance[u] >= 0
  <2>1. balance \in [Users -> OpeningBalances \cup {0}] /\ OpeningBalances \cup {0} \subseteq Nat
    BY AccountsAssumption DEF AccountsInit
  <2> QED
    BY <2>1
<1>7. NoOverdraft /\ DebitCovered
  BY <1>4, <1>6 DEF NoOverdraft, DebitCovered
<1>8. LedgerInv /\ LedgerCurrency
  BY DEF LedgerInv, LedgerCurrency, AccountsInit
<1> QED
  BY <1>1, <1>2, <1>3, <1>5, <1>7, <1>8 DEF WalletsInv

(* Every step of every request keeps the invariant. *)
LEMMA InvStep == WalletsInv /\ [Next]_vars => WalletsInv'
<1> SUFFICES ASSUME WalletsInv, [Next]_vars PROVE WalletsInv'
  OBVIOUS
<1>1. CASE Next
  <2>1. PICK r \in Requests : Act(r)
    BY <1>1 DEF Next, Act
  <2> QED
    BY <1>1, <2>1, TypeStep, RequestStep, StagedStep, WritersStep, BalanceStep, LedgerStep,
       LedgerCurrencyStep DEF WalletsInv
<1>2. CASE UNCHANGED vars
  BY <1>2 DEF vars, requestVars, accountVars, WalletsInv, TypeOK, AccountsTypeOK,
     RequestInv, RequestOK, Agrees, StagedInv, StagedOK, Debited, Credited, EntryOf,
     WritersExclude, Holds, NoOverdraft, DebitCovered, LedgerInv, LedgerCurrency
<1> QED
  BY <1>1, <1>2

(* The invariant holds in every state of TransferService. *)
LEMMA Invariance == Spec => []WalletsInv
BY InvInit, InvStep, PTL DEF Spec
-----------------------------------------------------------------------------
(* The theorems *)

(* Every variable keeps its type in every behaviour of TransferService. *)
THEOREM TypeCorrect == Spec => []TypeOK
BY Invariance, PTL DEF WalletsInv

(* No wallet is ever overdrawn, whatever transfers, deposits, retries and   *)
(* crashes interleave: the $gte filter of the debit suffices.               *)
THEOREM NeverOverdrawn == Spec => []NoOverdraft
BY Invariance, PTL DEF WalletsInv

(* A debit that is staged and not yet committed stays covered by the        *)
(* committed balance, so that committing it cannot overdraw the wallet.     *)
THEOREM DebitsStayCovered == Spec => []DebitCovered
BY Invariance, PTL DEF WalletsInv

(* Ledger entries are in the currency of both wallets, although it was      *)
(* compared before the transaction began.                                   *)
THEOREM LedgerCurrencyAgrees == Spec => []LedgerCurrency
BY Invariance, PTL DEF WalletsInv

(* "ok" means exactly one ledger entry, "error" none, and no request ever   *)
(* has two, however often withTransaction ran its callback.                 *)
THEOREM AnswersTellTheTruth == Spec => []OutcomeMatchesLedger
<1>1. ASSUME WalletsInv PROVE OutcomeMatchesLedger
  <2> SUFFICES ASSUME NEW r \in Requests
               PROVE  LET mine == {e \in ledger : e.id[1] = r} IN
                        /\ pc[r] = "ok" /\ req[r].op # "create" => Cardinality(mine) = 1
                        /\ pc[r] = "error" => mine = {}
                        /\ Cardinality(mine) <= 1
    BY DEF OutcomeMatchesLedger
  <2> DEFINE mine == {e \in ledger : e.id[1] = r}
  <2>1. LedgerInv
    BY <1>1 DEF WalletsInv
  <2>2. \A e, f \in mine : e = f
    BY <2>1 DEF LedgerInv
  <2>3. mine = {} \/ \E e : mine = {e}
    BY <2>2
  <2>4. Cardinality(mine) = IF mine = {} THEN 0 ELSE 1
    BY <2>3, FS_EmptySet, FS_Singleton
  <2>5. pc[r] = "error" => mine = {}
    BY <2>1 DEF LedgerInv
  <2>6. pc[r] = "ok" /\ req[r].op # "create" => mine # {}
    BY <2>1 DEF LedgerInv
  <2> HIDE DEF mine
  <2> QED
    BY <2>4, <2>5, <2>6 DEF mine
<1> QED
  BY <1>1, Invariance, PTL

(* Adding the staged increments is what Accounts writes with EXCEPT. *)
LEMMA AddCredited ==
  ASSUME NEW b \in [Users -> Int], NEW q, q.to \in Users, q.amount \in Int
  PROVE  /\ q.from \notin Users =>
              [u \in Users |-> b[u] + Credited(q)[u]] = [b EXCEPT ![q.to] = @ + q.amount]
         /\ q.from \in Users /\ q.from # q.to =>
              [u \in Users |-> b[u] + Credited(q)[u]] =
              [b EXCEPT ![q.from] = @ - q.amount, ![q.to] = @ + q.amount]
<1> DEFINE f == [u \in Users |-> b[u] + Credited(q)[u]]
<1>1. CASE q.from \notin Users
  <2>1. \A u \in Users : f[u] = IF u = q.to THEN b[u] + q.amount ELSE b[u]
    BY <1>1 DEF Credited
  <2> QED
    BY <1>1, <2>1
<1>2. CASE q.from \in Users /\ q.from # q.to
  <2>1. \A u \in Users : f[u] = IF u = q.from THEN b[u] - q.amount
                                ELSE IF u = q.to THEN b[u] + q.amount ELSE b[u]
    BY <1>2 DEF Credited
  <2> QED
    BY <1>2, <2>1
<1> QED
  BY <1>1, <1>2

(* Every step of TransferService is one atomic operation of Accounts or     *)
(* none: the MongoDB transaction and the checks around it make transfers,   *)
(* deposits and wallet creations atomic for every observer of the wallets   *)
(* and the ledger.                                                          *)
LEMMA StepRefines ==
  ASSUME WalletsInv, [Next]_vars
  PROVE  [AccountsNext]_accountVars
<1> SUFFICES ASSUME ~UNCHANGED accountVars PROVE AccountsNext
  OBVIOUS
<1>i. TypeOK /\ RequestInv /\ StagedInv /\ DebitCovered /\ LedgerInv
  BY DEF WalletsInv
<1>1. PICK r \in Requests : Act(r)
  BY DEF Next, Act, vars
<1>2. CASE InsertWallet(r)
  <2>1. Open(req[r].to, req[r].currency, req[r].amount)
    BY <1>2 DEF InsertWallet
  <2>2. /\ req[r].to \in Users /\ req[r].currency \in Currencies
        /\ req[r].amount \in OpeningBalances
    BY <1>2, <1>i, RequestFields DEF InsertWallet, RequestInv, RequestOK
  <2> QED
    BY <2>1, <2>2 DEF AccountsNext
<1>3. CASE Commit(r) \/ CommitUnacked(r)
  <2> DEFINE q == req[r]  e == EntryOf(r)
  <2>1. /\ q \in Request /\ q.op \in {"transfer", "deposit"}
        /\ pc[r] \notin Booked
        /\ e \in Entry /\ e.id[1] = r
        /\ Agrees(q.to, q.currency)
        /\ q.op = "transfer" => q.from # q.to /\ Agrees(q.from, q.currency)
        /\ staged[r].delta = Credited(q)
    BY <1>3, <1>i, CommitFacts
  <2>2. /\ e.from = q.from /\ e.to = q.to /\ e.amount = q.amount
        /\ e.currency = Upper[q.currency]
        /\ e.type = IF q.op = "transfer" THEN "TRANSFER" ELSE "DEPOSIT"
    BY DEF EntryOf
  <2>3. IsFresh(e.id) /\ e \notin ledger
    BY <2>1, <1>i DEF IsFresh, LedgerInv, Booked
  <2>4. ledger' = ledger \cup {e}
    BY <1>3, <1>i, StagedAtCommit DEF Commit, CommitUnacked, Apply
  <2>5. balance' = [u \in Users |-> balance[u] + Credited(q)[u]]
    BY <1>3, <2>1 DEF Commit, CommitUnacked, Apply
  <2>6. UNCHANGED <<wallets, currency, opening>>
    BY <1>3 DEF Commit, CommitUnacked, Apply
  <2>7. q.to \in Users /\ q.amount \in Nat /\ balance \in [Users -> Int]
    BY <2>1, <1>i, RequestFields DEF TypeOK, AccountsTypeOK
  <2> HIDE DEF q, e
  <2>8. Transfer(e) \/ Deposit(e)
    <3>1. CASE q.op = "transfer"
      <4>1. q.from \in Users /\ q.from # q.to
        BY <2>1, <3>1, RequestFields
      <4>2. Credited(q)[q.from] = -q.amount
        BY <4>1 DEF Credited
      <4>3. balance[q.from] >= q.amount
        BY <4>1, <4>2, <2>1, <2>7, <1>i DEF DebitCovered
      <4>4. balance' = [balance EXCEPT ![q.from] = @ - q.amount, ![q.to] = @ + q.amount]
        <5>1. q.amount \in Int
          BY <2>7
        <5>2. [u \in Users |-> balance[u] + Credited(q)[u]] =
              [balance EXCEPT ![q.from] = @ - q.amount, ![q.to] = @ + q.amount]
          BY <2>7, <4>1, <5>1, AddCredited
        <5> QED
          BY <2>5, <5>2
      <4> QED
        BY <2>1, <2>2, <2>3, <2>4, <2>6, <3>1, <4>1, <4>3, <4>4 DEF Transfer, Agrees
    <3>2. CASE q.op = "deposit"
      <4>1. q.from = NoUser
        BY <2>1, <3>2, RequestFields
      <4>2. balance' = [balance EXCEPT ![q.to] = @ + q.amount]
        <5>1. q.amount \in Int /\ q.from \notin Users
          BY <2>7, <4>1, AccountsAssumption
        <5>2. [u \in Users |-> balance[u] + Credited(q)[u]] = [balance EXCEPT ![q.to] = @ + q.amount]
          BY <2>7, <5>1, AddCredited
        <5> QED
          BY <2>5, <5>2
      <4> QED
        BY <2>1, <2>2, <2>3, <2>4, <2>6, <3>2, <4>1, <4>2 DEF Deposit, Agrees
    <3> QED
      BY <2>1, <3>1, <3>2
  <2>9. e \in ledger' \ ledger
    BY <2>3, <2>4
  <2> QED
    BY <2>1, <2>8, <2>9 DEF AccountsNext
<1>4. CASE Start(r) \/ ReadTo(r) \/ Reread(r) \/ Debit(r) \/ Credit(r) \/ Log(r)
  BY <1>4 DEF Start, StartTransfer, StartDeposit, StartCreate, ReadTo, Reread,
              Debit, Credit, Log
<1>5. CASE Retry(r) \/ GiveUp(r) \/ Crash(r)
  BY <1>5 DEF Retry, GiveUp, Crash
<1> QED
  BY <1>1, <1>2, <1>3, <1>4, <1>5 DEF Act, Step

(* TransferService implements the atomic accounts: transfers, deposits and   *)
(* wallet creations are atomic for everybody who reads wallets and ledger.  *)
THEOREM Implementation == Spec => AccountsSpec
<1>1. Init => AccountsInit
  BY DEF Init
<1>2. WalletsInv /\ [Next]_vars => [AccountsNext]_accountVars
  BY StepRefines
<1> QED
  BY <1>1, <1>2, Invariance, PTL DEF Spec, AccountsSpec

-----------------------------------------------------------------------------
(* What the ledger explains.  The sums are over finitely many entries, and  *)
(* no entry is of a user without a wallet.                                  *)
AccountsInv ==
  /\ AccountsTypeOK
  /\ LedgerCurrency
  /\ IsFiniteSet(ledger)
  /\ LedgerExplainsBalances

(* What an entry more makes of a sum over the entries with one user in one  *)
(* of the fields.                                                           *)
LEMMA EntrySummed ==
  ASSUME AccountsTypeOK, IsFiniteSet(ledger), NEW e \in Entry, e \notin ledger, ledger' = ledger \cup {e},
         NEW S \in SUBSET ledger
  PROVE  /\ SumFunctionOnSet(Amount, S) \in Int
         /\ SumFunctionOnSet(Amount', S) = SumFunctionOnSet(Amount, S)
         /\ SumFunctionOnSet(Amount', S \cup {e}) = SumFunctionOnSet(Amount, S) + e.amount
<1>1. ASSUME NEW x \in Entry PROVE x.amount \in Int
  <2>1. x.amount \in Amounts
    BY DEF Entry
  <2>2. x.amount \in Nat
    BY <2>1, AccountsAssumption
  <2> QED BY <2>2
<1>2. \A x \in ledger : Amount[x] = x.amount /\ Amount'[x] = x.amount
  BY DEF Amount
<1>3. Amount'[e] = e.amount /\ e.amount \in Int
  BY <1>1 DEF Amount
<1>4. IsFiniteSet(S) /\ e \notin S
  BY FS_Subset
<1>5. \A x \in S : Amount[x] \in Int /\ Amount'[x] \in Int /\ Amount'[x] = Amount[x]
  BY <1>1, <1>2 DEF AccountsTypeOK
<1>6. SumFunctionOnSet(Amount, S) \in Int
  BY <1>4, <1>5, SumIs
<1>7. SumFunctionOnSet(Amount', S) = SumFunctionOnSet(Amount, S)
  BY <1>4, <1>5, SumOfSame
<1>8. SumFunctionOnSet(Amount', S \cup {e}) = SumFunctionOnSet(Amount', S) + e.amount
  BY <1>3, <1>4, <1>5, SumWithOne
<1> QED BY <1>6, <1>7, <1>8

(* An entry adds to what came in for its receiver and to what went out for  *)
(* its sender.                                                              *)
LEMMA MoneyMoves ==
  ASSUME AccountsTypeOK, IsFiniteSet(ledger), NEW e \in Entry, e \notin ledger, ledger' = ledger \cup {e},
         NEW u \in Users
  PROVE  /\ MoneyIn(u) \in Int /\ MoneyOut(u) \in Int
         /\ MoneyIn(u)' = MoneyIn(u) + IF e.to = u THEN e.amount ELSE 0
         /\ MoneyOut(u)' = MoneyOut(u) + IF e.from = u THEN e.amount ELSE 0
<1> DEFINE In == {x \in ledger : x.to = u}
           Out == {x \in ledger : x.from = u}
<1>1. /\ In' = IF e.to = u THEN In \cup {e} ELSE In
      /\ Out' = IF e.from = u THEN Out \cup {e} ELSE Out
  OBVIOUS
<1>2. /\ MoneyIn(u) = SumFunctionOnSet(Amount, In) /\ MoneyIn(u)' = SumFunctionOnSet(Amount', In')
      /\ MoneyOut(u) = SumFunctionOnSet(Amount, Out) /\ MoneyOut(u)' = SumFunctionOnSet(Amount', Out')
  BY DEF MoneyIn, MoneyOut
<1>3. In \in SUBSET ledger /\ Out \in SUBSET ledger
  OBVIOUS
<1> HIDE DEF In, Out
<1>4. /\ SumFunctionOnSet(Amount, In) \in Int
      /\ SumFunctionOnSet(Amount', In) = SumFunctionOnSet(Amount, In)
      /\ SumFunctionOnSet(Amount', In \cup {e}) = SumFunctionOnSet(Amount, In) + e.amount
  BY <1>3, EntrySummed
<1>5. /\ SumFunctionOnSet(Amount, Out) \in Int
      /\ SumFunctionOnSet(Amount', Out) = SumFunctionOnSet(Amount, Out)
      /\ SumFunctionOnSet(Amount', Out \cup {e}) = SumFunctionOnSet(Amount, Out) + e.amount
  BY <1>3, EntrySummed
<1>6. MoneyIn(u)' = MoneyIn(u) + IF e.to = u THEN e.amount ELSE 0
  BY <1>1, <1>2, <1>4
<1>7. MoneyOut(u)' = MoneyOut(u) + IF e.from = u THEN e.amount ELSE 0
  BY <1>1, <1>2, <1>5
<1> QED BY <1>2, <1>4, <1>5, <1>6, <1>7

(* A transfer or a deposit changes balances by what its entry says.         *)
LEMMA EntryExplained ==
  ASSUME AccountsInv, NEW e \in Entry, e \notin ledger, Transfer(e) \/ Deposit(e)
  PROVE  AccountsInv'
<1>1. /\ AccountsTypeOK /\ LedgerCurrency /\ IsFiniteSet(ledger) /\ LedgerExplainsBalances
      /\ balance \in [Users -> Int] /\ opening \in [Users -> OpeningBalances \cup {0}]
  BY DEF AccountsInv, AccountsTypeOK
<1>2. /\ ledger' = ledger \cup {e} /\ UNCHANGED <<wallets, currency, opening>>
      /\ e.to \in wallets /\ Upper[currency[e.to]] = e.currency
  BY DEF Transfer, Deposit
<1>3. e.to \in Users /\ e.from \in Users \cup {NoUser} /\ e.amount \in Nat /\ NoUser \notin Users
  BY AccountsAssumption DEF Entry
<1>4. /\ balance' \in [Users -> Int]
      /\ \A u \in Users : balance'[u] = balance[u] + (IF e.to = u THEN e.amount ELSE 0)
                                       - (IF e.from = u THEN e.amount ELSE 0)
  <2>1. CASE Transfer(e)
    <3>1. e.from # e.to /\ balance' = [balance EXCEPT ![e.from] = @ - e.amount, ![e.to] = @ + e.amount]
      BY <2>1 DEF Transfer
    <3> QED BY <1>1, <1>3, <3>1
  <2>2. CASE Deposit(e)
    <3>1. e.from = NoUser /\ balance' = [balance EXCEPT ![e.to] = @ + e.amount]
      BY <2>2 DEF Deposit
    <3> QED BY <1>1, <1>3, <3>1
  <2> QED BY <2>1, <2>2
<1>5. AccountsTypeOK'
  BY <1>1, <1>2, <1>4 DEF AccountsTypeOK
<1>6. LedgerCurrency'
  <2>1. e.from \in Users => e.from \in wallets /\ Upper[currency[e.from]] = e.currency
    BY <1>3 DEF Transfer, Deposit
  <2> QED BY <1>1, <1>2, <2>1 DEF LedgerCurrency
<1>7. IsFiniteSet(ledger')
  BY <1>1, <1>2, FS_AddElement
<1>8. ASSUME NEW u \in Users
      PROVE  balance'[u] = opening'[u] + MoneyIn(u)' - MoneyOut(u)'
  <2>1. /\ MoneyIn(u) \in Int /\ MoneyOut(u) \in Int
        /\ MoneyIn(u)' = MoneyIn(u) + IF e.to = u THEN e.amount ELSE 0
        /\ MoneyOut(u)' = MoneyOut(u) + IF e.from = u THEN e.amount ELSE 0
    BY <1>1, <1>2, MoneyMoves
  <2>2. balance[u] = opening[u] + MoneyIn(u) - MoneyOut(u)
    BY <1>1 DEF LedgerExplainsBalances
  <2>3. opening[u] \in Int /\ opening'[u] = opening[u] /\ balance[u] \in Int
    <3>1. opening[u] \in OpeningBalances \cup {0}
      BY <1>1
    <3>2. \A b \in OpeningBalances \cup {0} : b \in Int
      BY AccountsAssumption
    <3>3. opening[u] \in Int
      BY <3>1, <3>2
    <3> QED BY <1>1, <1>2, <3>3
  <2> QED BY <1>3, <1>4, <2>1, <2>2, <2>3
<1>9. LedgerExplainsBalances'
  BY <1>8 DEF LedgerExplainsBalances
<1> QED BY <1>5, <1>6, <1>7, <1>9 DEF AccountsInv

(* A wallet is created with the balance it is explained by: nothing came in *)
(* or went out before.                                                      *)
LEMMA OpeningExplained ==
  ASSUME AccountsInv, NEW u \in Users, NEW c \in Currencies, NEW b \in OpeningBalances, Open(u, c, b)
  PROVE  AccountsInv'
<1>1. /\ AccountsTypeOK /\ LedgerCurrency /\ IsFiniteSet(ledger) /\ LedgerExplainsBalances
      /\ balance \in [Users -> Int] /\ opening \in [Users -> OpeningBalances \cup {0}]
      /\ currency \in [Users -> Currencies] /\ wallets \subseteq Users
  BY DEF AccountsInv, AccountsTypeOK
<1>2. /\ u \notin wallets /\ wallets' = wallets \cup {u} /\ ledger' = ledger
      /\ balance' = [balance EXCEPT ![u] = b] /\ currency' = [currency EXCEPT ![u] = c]
      /\ opening' = [opening EXCEPT ![u] = b] /\ b \in Int
  BY AccountsAssumption DEF Open
<1>3. AccountsTypeOK'
  BY <1>1, <1>2 DEF AccountsTypeOK
<1>4. LedgerCurrency'
  BY <1>1, <1>2 DEF LedgerCurrency
<1>5. \A v \in Users : MoneyIn(v)' = MoneyIn(v) /\ MoneyOut(v)' = MoneyOut(v)
  BY <1>2, Zenon DEF MoneyIn, MoneyOut, Amount
<1>6. MoneyIn(u) = 0 /\ MoneyOut(u) = 0
  <2>1. {e \in ledger : e.to = u} = {} /\ {e \in ledger : e.from = u} = {}
    BY <1>1, <1>2 DEF LedgerCurrency
  <2> QED BY <2>1, SumOfNothing, Zenon DEF MoneyIn, MoneyOut
<1>7. ASSUME NEW v \in Users PROVE balance'[v] = opening'[v] + MoneyIn(v)' - MoneyOut(v)'
  <2>1. CASE v = u
    BY <1>1, <1>2, <1>5, <1>6, <2>1
  <2>2. CASE v # u
    <3>1. balance'[v] = balance[v] /\ opening'[v] = opening[v]
      BY <1>1, <1>2, <2>2
    <3> QED BY <1>1, <1>5, <3>1 DEF LedgerExplainsBalances
  <2> QED BY <2>1, <2>2
<1>8. LedgerExplainsBalances'
  BY <1>7 DEF LedgerExplainsBalances
<1> QED BY <1>1, <1>2, <1>3, <1>4, <1>8 DEF AccountsInv

(* In Accounts, balances are explained by the ledger, ...                   *)
THEOREM AccountsCorrect == AccountsSpec => []AccountsInv
<1>1. AccountsInit => AccountsInv
  <2> SUFFICES ASSUME AccountsInit PROVE AccountsInv
    OBVIOUS
  <2>1. /\ ledger = {} /\ opening = balance /\ balance \in [Users -> OpeningBalances \cup {0}]
        /\ currency \in [Users -> Currencies] /\ wallets \subseteq Users
    BY DEF AccountsInit
  <2>2. \A b \in OpeningBalances \cup {0} : b \in Int
    BY AccountsAssumption
  <2>3. AccountsTypeOK /\ LedgerCurrency
    BY <2>1, <2>2 DEF AccountsTypeOK, LedgerCurrency
  <2>4. IsFiniteSet(ledger)
    BY <2>1, FS_EmptySet
  <2>5. \A u \in Users : MoneyIn(u) = 0 /\ MoneyOut(u) = 0
    <3>1. \A u \in Users : {e \in ledger : e.to = u} = {} /\ {e \in ledger : e.from = u} = {}
      BY <2>1
    <3> QED BY <3>1, SumOfNothing, Zenon DEF MoneyIn, MoneyOut
  <2>6. LedgerExplainsBalances
    BY <2>1, <2>2, <2>5 DEF LedgerExplainsBalances
  <2> QED BY <2>3, <2>4, <2>6 DEF AccountsInv
<1>2. AccountsInv /\ [AccountsNext]_accountVars => AccountsInv'
  <2> SUFFICES ASSUME AccountsInv, [AccountsNext]_accountVars PROVE AccountsInv'
    OBVIOUS
  <2>1. CASE UNCHANGED accountVars
    BY <2>1 DEF accountVars, AccountsInv, AccountsTypeOK, LedgerCurrency, LedgerExplainsBalances,
                MoneyIn, MoneyOut, Amount
  <2>2. ASSUME NEW u \in Users, NEW c \in Currencies, NEW b \in OpeningBalances, Open(u, c, b)
        PROVE  AccountsInv'
    BY <2>2, OpeningExplained
  <2>3. ASSUME NEW e \in ledger' \ ledger, e \in Entry, Transfer(e) \/ Deposit(e)
        PROVE  AccountsInv'
    BY <2>3, EntryExplained
  <2> QED BY <2>1, <2>2, <2>3 DEF AccountsNext
<1> QED BY <1>1, <1>2, PTL DEF AccountsSpec

(* ... and so they are in TransferService: whatever is retried, aborted,    *)
(* left by a crash or committed without anybody hearing of it, no balance   *)
(* changes without an entry that says so.                                   *)
THEOREM LedgerExplains == Spec => []LedgerExplainsBalances
<1>1. AccountsInv => LedgerExplainsBalances
  BY DEF AccountsInv
<1> QED BY <1>1, Implementation, AccountsCorrect, PTL
=============================================================================
