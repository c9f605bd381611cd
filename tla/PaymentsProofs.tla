--------------------------- MODULE PaymentsProofs ---------------------------
(***************************************************************************)
(* Theorems about Payments, for any number of payments, calls, wallets and *)
(* months. The properties are not inductive alone: that a deposit is       *)
(* earned needs what every call on its way is about to do (Sound, Due),    *)
(* that there is one for each completion needs the deposits still to come  *)
(* counted with those made (Once), and that the counter stays bounded      *)
(* needs the creations admitted and not yet counted (Counting).            *)
(***************************************************************************)
EXTENDS Payments, Sums, FiniteSetTheorems, TLAPS

(* What the place of a call says about its payment, its body and what it    *)
(* has read.                                                                *)
Sound ==
  \A r \in Requests :
    /\ pc[r] \in {"idle", "insert"} => r \notin DOMAIN payments
    /\ pc[r] \in {"insert", "track"} => call[r].id = r
    /\ pc[r] = "insert" => call[r].dto \in CreateDtos
    /\ pc[r] = "write" => call[r].dto \in UpdateDtos /\ call[r].id \in DOMAIN payments
    /\ pc[r] \in {"track", "write", "deposit"} => doc[r] \in Payment

-----------------------------------------------------------------------------
(* Types.                                                                   *)

(* What storing a document does to payments and their history, ...          *)
LEMMA StoreEffect ==
  ASSUME TypeOK, NEW p \in Requests, NEW d \in Payment, NEW read, Store(p, d, read)
  PROVE  /\ DOMAIN payments' = DOMAIN payments \cup {p}
         /\ payments'[p] = d
         /\ \A q \in DOMAIN payments : q # p => payments'[q] = payments[q]
         /\ payments' \in [DOMAIN payments' -> Payment]
         /\ completions' \in [Requests -> Nat]
         /\ raced' \subseteq Requests /\ raced \subseteq raced'
         /\ \A q \in Requests : q # p => completions'[q] = completions[q]
         /\ IF d.status = "completed" /\ ~(p \in DOMAIN payments /\ payments[p].status = "completed")
              THEN completions'[p] = completions[p] + 1 ELSE completions'[p] = completions[p]
         /\ p \in DOMAIN payments /\ payments[p].status # read.status => p \in raced'
<1>1. payments' = [q \in DOMAIN payments \cup {p} |-> IF q = p THEN d ELSE payments[q]]
  BY DEF Store
<1>2. payments' \in [DOMAIN payments' -> Payment]
  BY <1>1 DEF TypeOK
<1>3. completions \in [Requests -> Nat] /\ raced \subseteq Requests
  BY DEF TypeOK
<1>4. /\ completions' \in [Requests -> Nat]
      /\ \A q \in Requests : q # p => completions'[q] = completions[q]
      /\ IF d.status = "completed" /\ ~(p \in DOMAIN payments /\ payments[p].status = "completed")
           THEN completions'[p] = completions[p] + 1 ELSE completions'[p] = completions[p]
  BY <1>3 DEF Store
<1>5. /\ raced' \subseteq Requests /\ raced \subseteq raced'
      /\ p \in DOMAIN payments /\ payments[p].status # read.status => p \in raced'
  BY <1>3 DEF Store
<1> QED BY <1>1, <1>2, <1>4, <1>5

(* ... and that the types remain.                                           *)
LEMMA StoreTypes ==
  ASSUME TypeOK, NEW p \in Requests, NEW d \in Payment, NEW read, Store(p, d, read)
  PROVE  /\ DOMAIN payments' \subseteq Requests /\ payments' \in [DOMAIN payments' -> Payment]
         /\ completions' \in [Requests -> Nat] /\ raced' \subseteq Requests
<1>1. DOMAIN payments \subseteq Requests
  BY DEF TypeOK
<1>2. DOMAIN payments' = DOMAIN payments \cup {p}
  BY StoreEffect
<1>3. /\ payments' \in [DOMAIN payments' -> Payment]
      /\ completions' \in [Requests -> Nat] /\ raced' \subseteq Requests
  BY StoreEffect
<1> QED BY <1>1, <1>2, <1>3

(* The body of a creation, and what an update makes of a payment, are       *)
(* payments.                                                                *)
LEMMA DocumentTypes ==
  /\ \A dto \in CreateDtos :
       [wallet |-> dto.wallet, amount |-> dto.amount, currency |-> dto.currency,
        status |-> dto.status, deleted |-> FALSE] \in Payment
  /\ \A d \in Payment, dto \in UpdateDtos : Updated(d, dto) \in Payment
<1>1. ASSUME NEW dto \in CreateDtos
      PROVE  [wallet |-> dto.wallet, amount |-> dto.amount, currency |-> dto.currency,
              status |-> dto.status, deleted |-> FALSE] \in Payment
  <2>1. dto \in PaymentDto(Users, Amounts, Currencies, Statuses)
    BY PaymentsAssumption
  <2> QED BY <2>1 DEF PaymentDto, Payment, Statuses
<1>2. ASSUME NEW d \in Payment, NEW dto \in UpdateDtos
      PROVE  Updated(d, dto) \in Payment
  <2>1. dto \in PaymentDto(Users \cup {Absent}, Amounts \cup {Absent},
                           Currencies \cup {Absent}, Statuses \cup {Absent})
    BY PaymentsAssumption
  <2>2. /\ Or(dto.wallet, d.wallet) \in Users /\ Or(dto.amount, d.amount) \in Amounts
        /\ Or(dto.currency, d.currency) \in Currencies /\ Or(dto.status, d.status) \in Statuses
        /\ d.deleted \in BOOLEAN
    BY <2>1 DEF PaymentDto, Payment, Or, Statuses
  <2> QED BY <2>2 DEF Updated, Payment, Statuses
<1> QED BY <1>1, <1>2

(* The step of one call changes what is said of that call only.             *)
LEMMA OneCall ==
  ASSUME TypeOK, Sound, NEW r \in Requests, Serve(r)
  PROVE  /\ \A s \in Requests : s # r => pc'[s] = pc[s] /\ call'[s] = call[s] /\ doc'[s] = doc[s]
         /\ DOMAIN payments \subseteq DOMAIN payments'
         /\ \A p \in DOMAIN payments' : p \in DOMAIN payments \/ (p = r /\ pc[r] = "insert")
         /\ pc'[r] # "idle"
<1>1. pc \in [Requests -> {"idle"} \cup Waiting \cup Final] /\ call \in [Requests -> Call]
      /\ doc \in [Requests -> Payment \cup {Absent}]
  BY DEF TypeOK
<1>2. CASE Create(r)
  BY <1>1, <1>2 DEF Create, Arrives, GoTo
<1>3. CASE Insert(r)
  BY <1>1, <1>3 DEF Insert, GoTo, Store, Sound
<1>4. CASE Track(r)
  BY <1>1, <1>4 DEF Track, GoTo
<1>5. CASE Update(r)
  BY <1>1, <1>5 DEF Update, Arrives, GoTo
<1>6. CASE Write(r)
  <2>1. call[r].id \in DOMAIN payments
    BY <1>6 DEF Write, Sound
  <2> QED BY <1>1, <1>6, <2>1 DEF Write, GoTo, Store
<1>7. CASE Remove(r)
  BY <1>1, <1>7 DEF Remove, Arrives, GoTo, Live
<1>8. CASE DepositToWallet(r)
  BY <1>1, <1>8 DEF DepositToWallet, GoTo
<1>9. CASE Fail(r) \/ Crash(r)
  BY <1>1, <1>9 DEF Fail, Crash, GoTo, Waiting
<1> QED BY <1>2, <1>3, <1>4, <1>5, <1>6, <1>7, <1>8, <1>9 DEF Serve

(* A deposit's entry.                                                       *)
LEMMA EntryTypes ==
  ASSUME NEW r \in Requests, doc[r] \in Payment
  PROVE  DepositEntry(r) \in Entry /\ DepositEntry(r).id = r
<1>1. r \in EntryIds /\ Upper \in [Currencies -> Currencies]
  BY PaymentsAssumption, AccountsAssumption
<1> QED BY <1>1 DEF DepositEntry, Entry, Payment

(* The types and what belongs to the place of each call, call by call.      *)
LEMMA CallStep ==
  ASSUME TypeOK, Sound, NEW r \in Requests, Serve(r)
  PROVE  TypeOK' /\ Sound'
<1> USE DEF Waiting, Final
<1>1. /\ AccountsTypeOK
      /\ DOMAIN payments \subseteq Requests /\ payments \in [DOMAIN payments -> Payment]
      /\ month \in 1..Months /\ count \in [1..Months -> Nat]
      /\ pc \in [Requests -> {"idle"} \cup Waiting \cup Final] /\ call \in [Requests -> Call]
      /\ doc \in [Requests -> Payment \cup {Absent}]
      /\ completions \in [Requests -> Nat] /\ raced \subseteq Requests
  BY DEF TypeOK
<1>2. ASSUME UNCHANGED accountVars PROVE AccountsTypeOK'
  BY <1>1, <1>2 DEF accountVars, AccountsTypeOK, Entry
<1>3. ASSUME TypeOK',
             /\ pc'[r] \in {"idle", "insert"} => r \notin DOMAIN payments'
             /\ pc'[r] \in {"insert", "track"} => call'[r].id = r
             /\ pc'[r] = "insert" => call'[r].dto \in CreateDtos
             /\ pc'[r] = "write" => call'[r].dto \in UpdateDtos /\ call'[r].id \in DOMAIN payments'
             /\ pc'[r] \in {"track", "write", "deposit"} => doc'[r] \in Payment
      PROVE  TypeOK' /\ Sound'
  <2> SUFFICES ASSUME NEW s \in Requests, s # r
               PROVE  /\ pc'[s] \in {"idle", "insert"} => s \notin DOMAIN payments'
                      /\ pc'[s] \in {"insert", "track"} => call'[s].id = s
                      /\ pc'[s] = "insert" => call'[s].dto \in CreateDtos
                      /\ pc'[s] = "write" => call'[s].dto \in UpdateDtos /\ call'[s].id \in DOMAIN payments'
                      /\ pc'[s] \in {"track", "write", "deposit"} => doc'[s] \in Payment
    BY <1>3 DEF Sound
  <2> QED BY OneCall DEF Sound
<1>4. CASE Create(r)
  <2>1. PICK dto \in CreateDtos : Arrives(r, "create", r, dto)
    BY <1>4 DEF Create
  <2>2. /\ pc[r] = "idle" /\ call'[r] = [op |-> "create", id |-> r, dto |-> dto]
        /\ call' \in [Requests -> Call]
    BY <1>1, <2>1 DEF Arrives, Call
  <2>3. /\ pc' \in [Requests -> {"idle"} \cup Waiting \cup Final] /\ pc'[r] \in {"error", "insert"}
        /\ UNCHANGED <<accountVars, payments, month, count, doc, completions, raced>>
    BY <1>1, <1>4 DEF Create, GoTo
  <2>4. TypeOK'
    BY <1>1, <1>2, <2>2, <2>3 DEF TypeOK
  <2> QED BY <1>3, <2>2, <2>3, <2>4 DEF Sound
<1>5. CASE Insert(r)
  <2> DEFINE dto == call[r].dto
             d == [wallet |-> dto.wallet, amount |-> dto.amount, currency |-> dto.currency,
                   status |-> dto.status, deleted |-> FALSE]
  <2>1. pc[r] = "insert" /\ call[r].id = r /\ d \in Payment
    BY <1>5, DocumentTypes DEF Insert, Sound
  <2>2. /\ Store(r, d, d) /\ doc' = [doc EXCEPT ![r] = d] /\ pc' = [pc EXCEPT ![r] = "track"]
        /\ UNCHANGED <<accountVars, month, count, call>>
    BY <1>5 DEF Insert, GoTo
  <2> HIDE DEF d
  <2>3. /\ pc' \in [Requests -> {"idle"} \cup Waiting \cup Final] /\ pc'[r] = "track"
        /\ doc' \in [Requests -> Payment \cup {Absent}] /\ doc'[r] = d
    BY <1>1, <2>1, <2>2
  <2>4. /\ DOMAIN payments' \subseteq Requests /\ payments' \in [DOMAIN payments' -> Payment]
        /\ completions' \in [Requests -> Nat] /\ raced' \subseteq Requests
    BY <2>1, <2>2, StoreTypes
  <2>5. TypeOK'
    BY <1>1, <1>2, <2>2, <2>3, <2>4 DEF TypeOK
  <2> QED BY <1>3, <2>1, <2>2, <2>3, <2>5
<1>6. CASE Track(r)
  <2>1. /\ pc[r] = "track" /\ doc[r] \in Payment
        /\ UNCHANGED <<accountVars, payments, month, call, doc, completions, raced>>
    BY <1>6 DEF Track, Sound
  <2>2. pc' \in [Requests -> {"idle"} \cup Waiting \cup Final] /\ pc'[r] \in {"deposit", "ok"}
    BY <1>1, <1>6 DEF Track, GoTo
  <2>3. count' \in [1..Months -> Nat]
    <3>1. count \in [1..Months -> Nat] /\ month \in 1..Months
      BY <1>1
    <3>2. count' = [count EXCEPT ![month] = count[month] + 1] \/ count' = count
      BY <1>6 DEF Track
    <3> QED BY <3>1, <3>2
  <2>4. TypeOK'
    BY <1>1, <1>2, <2>1, <2>2, <2>3 DEF TypeOK
  <2> QED BY <1>3, <2>1, <2>2, <2>4
<1>7. CASE Update(r)
  <2>1. PICK p \in Requests, dto \in UpdateDtos :
          /\ Arrives(r, "update", p, dto)
          /\ IF Live(p) THEN doc' = [doc EXCEPT ![r] = payments[p]] /\ GoTo(r, "write")
                        ELSE GoTo(r, "error") /\ UNCHANGED doc
    BY <1>7 DEF Update
  <2>2. /\ pc[r] = "idle" /\ call'[r] = [op |-> "update", id |-> p, dto |-> dto]
        /\ call' \in [Requests -> Call]
    BY <1>1, <2>1 DEF Arrives, Call
  <2>3. UNCHANGED <<accountVars, payments, month, count, completions, raced>>
    BY <1>7 DEF Update
  <2>4. /\ pc' \in [Requests -> {"idle"} \cup Waiting \cup Final] /\ pc'[r] \in {"write", "error"}
        /\ doc' \in [Requests -> Payment \cup {Absent}]
        /\ pc'[r] = "write" => doc'[r] \in Payment /\ p \in DOMAIN payments
    <3>1. CASE Live(p)
      BY <1>1, <2>1, <3>1 DEF Live, GoTo
    <3>2. CASE ~Live(p)
      BY <1>1, <2>1, <3>2 DEF GoTo
    <3> QED BY <3>1, <3>2
  <2>5. TypeOK'
    BY <1>1, <1>2, <2>2, <2>3, <2>4 DEF TypeOK
  <2> QED BY <1>3, <2>2, <2>3, <2>4, <2>5
<1>8. CASE Write(r)
  <2> DEFINE p == call[r].id
             d == Updated(payments[p], call[r].dto)
  <2>1. pc[r] = "write" /\ p \in Requests /\ p \in DOMAIN payments /\ d \in Payment
    BY <1>1, <1>8, DocumentTypes DEF Write, Sound
  <2>2. UNCHANGED <<accountVars, month, count, call>>
    BY <1>8 DEF Write
  <2>3. CASE Live(p)
    <3>1. /\ Store(p, d, doc[r]) /\ doc' = [doc EXCEPT ![r] = d]
          /\ pc' = [pc EXCEPT ![r] = IF BecomesCompleted(doc[r], call[r].dto) THEN "deposit" ELSE "ok"]
      BY <1>8, <2>3 DEF Write, GoTo
    <3> HIDE DEF d, p
    <3>2. /\ pc' \in [Requests -> {"idle"} \cup Waiting \cup Final] /\ pc'[r] \in {"deposit", "ok"}
          /\ doc' \in [Requests -> Payment \cup {Absent}] /\ doc'[r] = d
      BY <1>1, <2>1, <3>1
    <3>3. /\ DOMAIN payments' \subseteq Requests /\ payments' \in [DOMAIN payments' -> Payment]
          /\ completions' \in [Requests -> Nat] /\ raced' \subseteq Requests
      BY <2>1, <3>1, StoreTypes
    <3>4. TypeOK'
      BY <1>1, <1>2, <2>2, <3>2, <3>3 DEF TypeOK
    <3> QED BY <1>3, <2>1, <3>2, <3>4
  <2>4. CASE ~Live(p)
    <3>1. /\ pc' = [pc EXCEPT ![r] = "error"] /\ UNCHANGED <<payments, doc, completions, raced>>
      BY <1>8, <2>4 DEF Write, GoTo
    <3>2. pc' \in [Requests -> {"idle"} \cup Waiting \cup Final] /\ pc'[r] = "error"
      BY <1>1, <3>1
    <3>3. TypeOK'
      BY <1>1, <1>2, <2>2, <3>1, <3>2 DEF TypeOK
    <3> QED BY <1>3, <3>2, <3>3
  <2> QED BY <2>3, <2>4
<1>9. CASE Remove(r)
  <2>1. PICK p \in Requests :
          /\ Arrives(r, "remove", p, Absent)
          /\ IF Live(p) THEN GoTo(r, "ok") /\ payments' = [payments EXCEPT ![p].deleted = TRUE]
                        ELSE GoTo(r, "error") /\ UNCHANGED payments
    BY <1>9 DEF Remove
  <2>2. call' \in [Requests -> Call]
    BY <1>1, <2>1 DEF Arrives, Call
  <2>3. UNCHANGED <<accountVars, month, count, doc, completions, raced>>
    BY <1>9 DEF Remove
  <2>4. /\ pc' \in [Requests -> {"idle"} \cup Waiting \cup Final] /\ pc'[r] \in {"ok", "error"}
        /\ DOMAIN payments' = DOMAIN payments /\ payments' \in [DOMAIN payments' -> Payment]
    <3>1. CASE Live(p)
      <4>1. p \in DOMAIN payments /\ payments[p] \in Payment
        BY <1>1, <3>1 DEF Live
      <4>2. [payments[p] EXCEPT !.deleted = TRUE] \in Payment
        BY <4>1 DEF Payment
      <4> QED BY <1>1, <2>1, <3>1, <4>1, <4>2 DEF GoTo
    <3>2. CASE ~Live(p)
      BY <1>1, <2>1, <3>2 DEF GoTo
    <3> QED BY <3>1, <3>2
  <2>5. TypeOK'
    BY <1>1, <1>2, <2>2, <2>3, <2>4 DEF TypeOK
  <2> QED BY <1>3, <2>4, <2>5
<1>10. CASE DepositToWallet(r)
  <2>1. /\ pc[r] = "deposit" /\ Deposit(DepositEntry(r))
        /\ UNCHANGED <<payments, month, count, call, doc, completions, raced>>
    BY <1>10 DEF DepositToWallet
  <2>2. pc' \in [Requests -> {"idle"} \cup Waiting \cup Final] /\ pc'[r] \in {"ok", "unknown"}
    BY <1>1, <1>10 DEF DepositToWallet, GoTo
  <2>3. DepositEntry(r) \in Entry
    BY <2>1, EntryTypes DEF Sound
  <2>4. AccountsTypeOK'
    <3>1. /\ ledger' \subseteq Entry /\ UNCHANGED <<wallets, currency, opening>>
      BY <1>1, <2>1, <2>3 DEF Deposit, AccountsTypeOK
    <3>2. balance' \in [Users -> Int]
      <4>1. \A e \in Entry : e.amount \in Nat
        BY AccountsAssumption DEF Entry
      <4>2. DepositEntry(r).amount \in Int
        BY <2>3, <4>1
      <4> QED BY <1>1, <2>1, <4>2 DEF Deposit, AccountsTypeOK
    <3> QED BY <1>1, <3>1, <3>2 DEF AccountsTypeOK, Entry
  <2>5. TypeOK'
    BY <1>1, <2>1, <2>2, <2>4 DEF TypeOK
  <2> QED BY <1>3, <2>2, <2>5
<1>11. CASE Fail(r) \/ Crash(r)
  <2>1. UNCHANGED <<accountVars, payments, month, count, call, doc, completions, raced>>
    BY <1>11 DEF Fail, Crash
  <2>2. pc' \in [Requests -> {"idle"} \cup Waiting \cup Final] /\ pc'[r] \in {"error", "crashed"}
    BY <1>1, <1>11 DEF Fail, Crash, GoTo
  <2>3. TypeOK'
    BY <1>1, <1>2, <2>1, <2>2 DEF TypeOK
  <2> QED BY <1>3, <2>2, <2>3
<1> QED BY <1>4, <1>5, <1>6, <1>7, <1>8, <1>9, <1>10, <1>11 DEF Serve

(* The same of every step.                                                  *)
LEMMA SoundStep ==
  ASSUME TypeOK, Sound, [Next]_vars
  PROVE  TypeOK' /\ Sound'
<1>1. CASE \E r \in Requests : Serve(r)
  BY <1>1, CallStep
<1>2. CASE OpenWallet
  <2>1. UNCHANGED paymentVars
    BY <1>2 DEF OpenWallet
  <2>2. AccountsTypeOK'
    BY <1>2, AccountsAssumption DEF OpenWallet, Open, TypeOK, AccountsTypeOK, Entry
  <2> QED BY <2>1, <2>2 DEF paymentVars, TypeOK, Sound
<1>3. CASE NextMonth
  <2>1. UNCHANGED <<accountVars, payments, count, pc, call, doc, completions, raced>>
    BY <1>3 DEF NextMonth
  <2>2. month' \in 1..Months
    BY <1>3, PaymentsAssumption DEF NextMonth, TypeOK
  <2>3. AccountsTypeOK'
    BY <2>1 DEF accountVars, TypeOK, AccountsTypeOK, Entry
  <2> QED BY <2>1, <2>2, <2>3 DEF TypeOK, Sound
<1>4. CASE UNCHANGED vars
  <2>1. AccountsTypeOK'
    BY <1>4 DEF vars, accountVars, TypeOK, AccountsTypeOK, Entry
  <2> QED BY <1>4, <2>1 DEF vars, paymentVars, TypeOK, Sound
<1> QED BY <1>1, <1>2, <1>3, <1>4 DEF Next

(* The initial states.                                                      *)
LEMMA SoundInit ==
  ASSUME Init PROVE TypeOK /\ Sound
<1>1. DOMAIN payments = {}
  BY DEF Init
<1>2. AccountsTypeOK
  <2>1. /\ wallets \subseteq Users /\ currency \in [Users -> Currencies] /\ ledger = {}
        /\ balance \in [Users -> OpeningBalances \cup {0}] /\ opening = balance
    BY DEF Init, AccountsInit
  <2>2. balance \in [Users -> Int]
    <3>1. OpeningBalances \cup {0} \subseteq Int
      BY AccountsAssumption
    <3>2. balance \in [Users -> OpeningBalances \cup {0}]
      BY <2>1
    <3> QED BY <3>1, <3>2
  <2> QED BY <2>1, <2>2 DEF AccountsTypeOK
<1>3. payments \in [DOMAIN payments -> Payment]
  <2>1. payments = [q \in {} |-> payments[q]]
    BY DEF Init
  <2> QED BY <1>1, <2>1
<1>4. /\ month \in 1..Months /\ count \in [1..Months -> Nat]
      /\ pc \in [Requests -> {"idle"} \cup Waiting \cup Final] /\ call \in [Requests -> Call]
      /\ doc \in [Requests -> Payment \cup {Absent}]
      /\ completions \in [Requests -> Nat] /\ raced \subseteq Requests
  BY PaymentsAssumption DEF Init, Call
<1>5. Sound
  BY <1>1 DEF Init, Sound
<1> QED BY <1>1, <1>2, <1>3, <1>4, <1>5 DEF TypeOK

-----------------------------------------------------------------------------
(* Deleted payments.                                                        *)

(* No step changes a deleted payment: an update looks once more whether it  *)
(* is live when it writes, and a creation writes what was not there.        *)
LEMMA FrozenStep ==
  ASSUME TypeOK, Sound, [Next]_vars
  PROVE  \A p \in DOMAIN payments : payments[p].deleted => payments'[p] = payments[p]
<1> SUFFICES ASSUME NEW p \in DOMAIN payments, payments[p].deleted PROVE payments'[p] = payments[p]
  OBVIOUS
<1>1. ASSUME NEW r \in Requests, Insert(r) PROVE payments'[p] = payments[p]
  BY <1>1 DEF Insert, Store, Sound
<1>2. ASSUME NEW r \in Requests, Write(r) PROVE payments'[p] = payments[p]
  BY <1>2 DEF Write, Live, Store
<1>3. ASSUME NEW r \in Requests, Remove(r) PROVE payments'[p] = payments[p]
  BY <1>3 DEF Remove, Live
<1>4. ASSUME NEW r \in Requests, Serve(r), ~Insert(r), ~Write(r), ~Remove(r)
      PROVE  payments'[p] = payments[p]
  BY <1>4 DEF Serve, Create, Track, Update, DepositToWallet, Fail, Crash
<1>5. CASE OpenWallet \/ NextMonth \/ UNCHANGED vars
  BY <1>5 DEF OpenWallet, NextMonth, vars, paymentVars
<1> QED BY <1>1, <1>2, <1>3, <1>4, <1>5 DEF Next

-----------------------------------------------------------------------------
(* The quota.                                                               *)

(* The creations admitted and not counted yet.                              *)
Counting == {r \in Requests : pc[r] \in {"insert", "track"}}

(* count[month] is at least Quota when one more is refused, so that what is *)
(* admitted, together with what is counted, is bounded.                     *)
QuotaInv ==
  /\ IsFiniteSet(InFlight) /\ Cardinality(InFlight) <= MaxInFlight
  /\ \A m \in 1..Months : m > month => count[m] = 0
  /\ Quota # 0 =>
       /\ \A m \in 1..Months : count[m] <= Quota + MaxInFlight - 1
       /\ count[month] + Cardinality(Counting) <= Quota + MaxInFlight - 1

(* Creations admitted are in flight.                                        *)
LEMMA CountingInFlight ==
  ASSUME NEW S, NEW C, IsFiniteSet(S), C \subseteq S
  PROVE  IsFiniteSet(C) /\ Cardinality(C) <= Cardinality(S) /\ Cardinality(C) \in Nat
BY FS_Subset, FS_CardinalityType

(* A call that arrives is one more in flight, and one more creation if it   *)
(* is one that is admitted.                                                 *)
LEMMA ArrivalsCounted ==
  ASSUME TypeOK, QuotaInv, NEW r \in Requests, NEW op, NEW p, NEW dto, Arrives(r, op, p, dto),
         \A s \in Requests : s # r => pc'[s] = pc[s],
         UNCHANGED <<count, month>>,
         pc'[r] = "insert" => ~hasExceededTransactionLimit,
         pc'[r] # "track"
  PROVE  QuotaInv'
<1>1. pc[r] = "idle" /\ Cardinality(InFlight) < MaxInFlight
  BY DEF Arrives
<1>2. /\ r \notin InFlight /\ IsFiniteSet(InFlight) /\ InFlight' \subseteq InFlight \cup {r}
      /\ Cardinality(InFlight) \in Nat
  BY <1>1, FS_CardinalityType DEF InFlight, Waiting, QuotaInv
<1>3. IsFiniteSet(InFlight \cup {r}) /\ Cardinality(InFlight \cup {r}) = Cardinality(InFlight) + 1
  BY <1>2, FS_AddElement
<1>4. MaxInFlight \in Nat /\ Quota \in Nat /\ month \in 1..Months /\ count \in [1..Months -> Nat]
  BY PaymentsAssumption DEF TypeOK
<1>5. IsFiniteSet(InFlight') /\ Cardinality(InFlight') \in Nat /\ Cardinality(InFlight') <= MaxInFlight
  BY <1>1, <1>2, <1>3, <1>4, CountingInFlight
<1>6. Counting' \subseteq InFlight'
  BY DEF Counting, InFlight, Waiting
<1>7. Cardinality(Counting') \in Nat /\ Cardinality(Counting') <= MaxInFlight
  BY <1>4, <1>5, <1>6, CountingInFlight
<1>8. ASSUME Quota # 0 PROVE count[month] + Cardinality(Counting') <= Quota + MaxInFlight - 1
  <2>1. CASE pc'[r] = "insert"
    <3>1. count[month] < Quota /\ count[month] \in Nat
      BY <1>4, <1>8, <2>1 DEF hasExceededTransactionLimit
    <3> QED BY <1>4, <1>7, <3>1
  <2>2. CASE pc'[r] # "insert"
    <3>1. Counting' = Counting
      BY <1>1, <2>2 DEF Counting
    <3> QED BY <1>8, <3>1 DEF QuotaInv
  <2> QED BY <2>1, <2>2
<1> QED BY <1>5, <1>8 DEF QuotaInv

(* Other steps of a call do not bring it back into flight, and only Track,  *)
(* which takes it from the creations, counts.                               *)
LEMMA QuotaStep ==
  ASSUME TypeOK, Sound, QuotaInv, [Next]_vars
  PROVE  QuotaInv'
<1>1. /\ MaxInFlight \in Nat \ {0} /\ Quota \in Nat /\ Months \in Nat /\ month \in 1..Months
      /\ count \in [1..Months -> Nat] /\ IsFiniteSet(InFlight) /\ Cardinality(InFlight) \in Nat
      /\ pc \in [Requests -> {"idle"} \cup Waiting \cup Final]
  BY PaymentsAssumption, FS_CardinalityType DEF TypeOK, QuotaInv
<1>2. Counting \subseteq InFlight /\ IsFiniteSet(Counting) /\ Cardinality(Counting) \in Nat
  <2>1. Counting \subseteq InFlight
    BY DEF Counting, InFlight, Waiting
  <2> QED BY <1>1, <2>1, CountingInFlight
<1>3. ASSUME InFlight' \subseteq InFlight, Counting' \subseteq Counting, UNCHANGED <<count, month>>
      PROVE  QuotaInv'
  <2>1. IsFiniteSet(InFlight') /\ Cardinality(InFlight') <= Cardinality(InFlight)
        /\ Cardinality(InFlight') \in Nat
    BY <1>1, <1>3, CountingInFlight
  <2>2. Cardinality(Counting') <= Cardinality(Counting) /\ Cardinality(Counting') \in Nat
    BY <1>2, <1>3, CountingInFlight
  <2> QED BY <1>1, <1>2, <1>3, <2>1, <2>2 DEF QuotaInv
<1>4. ASSUME NEW r \in Requests, Serve(r) PROVE QuotaInv'
  <2>0. \A s \in Requests : s # r => pc'[s] = pc[s]
    BY <1>4, OneCall
  <2>1. CASE Create(r)
    <3>1. /\ \E dto \in CreateDtos : Arrives(r, "create", r, dto)
          /\ UNCHANGED <<count, month>> /\ pc'[r] # "track"
          /\ pc'[r] = "insert" => ~hasExceededTransactionLimit
      BY <1>1, <2>1 DEF Create, GoTo
    <3> QED BY <2>0, <3>1, ArrivalsCounted
  <2>2. CASE Update(r)
    <3>1. /\ \E p \in Requests, dto \in UpdateDtos : Arrives(r, "update", p, dto)
          /\ UNCHANGED <<count, month>> /\ pc'[r] \notin {"track", "insert"}
      BY <1>1, <2>2 DEF Update, GoTo
    <3> QED BY <2>0, <3>1, ArrivalsCounted
  <2>3. CASE Remove(r)
    <3>1. /\ \E p \in Requests : Arrives(r, "remove", p, Absent)
          /\ UNCHANGED <<count, month>> /\ pc'[r] \notin {"track", "insert"}
      BY <1>1, <2>3 DEF Remove, GoTo
    <3> QED BY <2>0, <3>1, ArrivalsCounted
  <2>4. CASE Insert(r)
    <3>1. pc[r] = "insert" /\ pc'[r] = "track" /\ UNCHANGED <<count, month>>
      BY <1>1, <2>4 DEF Insert, GoTo
    <3>2. InFlight' \subseteq InFlight /\ Counting' \subseteq Counting
      BY <2>0, <3>1 DEF InFlight, Counting, Waiting
    <3> QED BY <1>3, <3>1, <3>2
  <2>5. CASE Track(r)
    <3>1. /\ pc[r] = "track" /\ pc'[r] \in {"deposit", "ok"} /\ month' = month
          /\ count' = [count EXCEPT ![month] = count[month] + 1] \/ count' = count
      BY <1>1, <2>5 DEF Track, GoTo
    <3>2. InFlight' \subseteq InFlight /\ Counting' = Counting \ {r} /\ r \in Counting
      BY <2>0, <3>1 DEF InFlight, Counting, Waiting
    <3>3. CASE count' = count
      BY <1>3, <3>1, <3>2, <3>3
    <3>4. CASE count' = [count EXCEPT ![month] = count[month] + 1]
      <4>1. Cardinality(Counting') = Cardinality(Counting) - 1
        BY <1>2, <3>2, FS_RemoveElement
      <4>2. IsFiniteSet(InFlight') /\ Cardinality(InFlight') <= Cardinality(InFlight)
            /\ Cardinality(InFlight') \in Nat
        BY <1>1, <3>2, CountingInFlight
      <4>3. count'[month] = count[month] + 1 /\ \A m \in 1..Months : m # month => count'[m] = count[m]
        BY <1>1, <3>4
      <4>4. Quota # 0 => count[month] + Cardinality(Counting) <= Quota + MaxInFlight - 1
        BY DEF QuotaInv
      <4>5. Cardinality(Counting) \in Nat \ {0}
        <5>1. Cardinality(Counting \ {r}) \in Nat
          BY <1>2, CountingInFlight
        <5> QED BY <1>2, <3>2, <4>1, <5>1
      <4>6. Quota # 0 => /\ count'[month] <= Quota + MaxInFlight - 1
                         /\ count'[month] + Cardinality(Counting') <= Quota + MaxInFlight - 1
        BY <1>1, <4>1, <4>3, <4>4, <4>5
      <4>7. \A m \in 1..Months : m > month => count'[m] = 0
        BY <1>1, <4>3 DEF QuotaInv
      <4>8. Quota # 0 => \A m \in 1..Months : count'[m] <= Quota + MaxInFlight - 1
        BY <4>3, <4>6 DEF QuotaInv
      <4>9. Cardinality(InFlight') <= MaxInFlight
        BY <1>1, <4>2 DEF QuotaInv
      <4> QED BY <3>1, <4>2, <4>6, <4>7, <4>8, <4>9 DEF QuotaInv
    <3> QED BY <3>1, <3>3, <3>4
  <2>6. CASE Write(r) \/ DepositToWallet(r) \/ Fail(r) \/ Crash(r)
    <3>1. /\ pc[r] \in Waiting /\ UNCHANGED <<count, month>>
          /\ pc'[r] \in Final \cup {"deposit"}
      BY <1>1, <2>6 DEF Write, DepositToWallet, Fail, Crash, GoTo, Waiting, Final
    <3>2. InFlight' \subseteq InFlight /\ Counting' \subseteq Counting
      BY <2>0, <3>1 DEF InFlight, Counting, Waiting, Final
    <3> QED BY <1>3, <3>1, <3>2
  <2> QED BY <1>4, <2>1, <2>2, <2>3, <2>4, <2>5, <2>6 DEF Serve
<1>5. CASE NextMonth
  <2>1. month < Months /\ month' = month + 1 /\ count' = count /\ pc' = pc
    BY <1>5 DEF NextMonth
  <2>2. InFlight' = InFlight /\ Counting' = Counting
    BY <2>1 DEF InFlight, Counting
  <2>3. count[month + 1] = 0 /\ Cardinality(Counting) <= MaxInFlight
    <3>1. Cardinality(Counting) <= Cardinality(InFlight)
      BY <1>1, <1>2, CountingInFlight
    <3> QED BY <1>1, <1>2, <2>1, <3>1 DEF QuotaInv
  <2>4. \A m \in 1..Months : m > month' => count'[m] = 0
    BY <1>1, <2>1 DEF QuotaInv
  <2>5. Quota # 0 => count'[month'] + Cardinality(Counting') <= Quota + MaxInFlight - 1
    BY <1>1, <1>2, <2>1, <2>2, <2>3
  <2> QED BY <2>1, <2>2, <2>4, <2>5 DEF QuotaInv
<1>6. CASE OpenWallet \/ UNCHANGED vars
  <2>1. UNCHANGED <<count, month, pc>>
    BY <1>6 DEF OpenWallet, vars, paymentVars
  <2>2. InFlight' = InFlight /\ Counting' = Counting
    BY <2>1 DEF InFlight, Counting
  <2> QED BY <1>3, <2>1, <2>2
<1> QED BY <1>4, <1>5, <1>6 DEF Next

-----------------------------------------------------------------------------
(* Deposits.                                                                *)

(* The calls that will deposit if nothing fails, and for which payment.     *)
Due == {r \in Requests : pc[r] = "deposit" \/ (pc[r] = "track" /\ doc[r].status = "completed")}
Owed(p) == {r \in Due : call[r].id = p}

(* Whoever deposits, has deposited or will, has a payment that became       *)
(* completed; whoever deposited is done.                                    *)
Earned ==
  /\ \A p \in DOMAIN payments : payments[p].status = "completed" => completions[p] > 0
  /\ \A r \in Due : completions[call[r].id] > 0
  /\ \A e \in ledger : /\ e.id \in Requests /\ pc[e.id] \in {"ok", "unknown"}
                       /\ completions[call[e.id].id] > 0

(* A step of r, seen from deposits: whether r is due changes, the ledger    *)
(* grows by an entry of r's at most, completions grow.                      *)
LEMMA EarnedStep ==
  ASSUME TypeOK, Sound, Earned, [Next]_vars
  PROVE  Earned'
<1>1. /\ completions \in [Requests -> Nat] /\ call \in [Requests -> Call]
      /\ pc \in [Requests -> {"idle"} \cup Waiting \cup Final]
      /\ doc \in [Requests -> Payment \cup {Absent}] /\ DOMAIN payments \subseteq Requests
      /\ \A s \in Requests : call[s].id \in Requests
  BY DEF TypeOK, Call
<1>2. ASSUME NEW r \in Requests, Serve(r),
             \A p \in Requests : completions[p] > 0 => completions'[p] > 0,
             \A p \in DOMAIN payments' : payments'[p].status = "completed" => completions'[p] > 0,
             r \in Due' => completions'[call'[r].id] > 0,
             \A e \in ledger' \ ledger : /\ e.id = r /\ pc'[r] \in {"ok", "unknown"}
                                         /\ completions'[call'[r].id] > 0,
             \A e \in ledger : e.id # r
      PROVE  Earned'
  <2>1. \A s \in Requests : s # r => pc'[s] = pc[s] /\ call'[s] = call[s] /\ doc'[s] = doc[s]
    BY <1>2, OneCall
  <2>2. \A s \in Due' : completions'[call'[s].id] > 0
    <3> SUFFICES ASSUME NEW s \in Due', s # r PROVE completions'[call'[s].id] > 0
      BY <1>2
    <3>1. s \in Due /\ call'[s] = call[s] /\ call[s].id \in Requests
      BY <1>1, <2>1 DEF Due
    <3> QED BY <1>2, <3>1 DEF Earned
  <2>3. \A e \in ledger' : /\ e.id \in Requests /\ pc'[e.id] \in {"ok", "unknown"}
                           /\ completions'[call'[e.id].id] > 0
    <3> SUFFICES ASSUME NEW e \in ledger
                 PROVE  /\ e.id \in Requests /\ pc'[e.id] \in {"ok", "unknown"}
                        /\ completions'[call'[e.id].id] > 0
      BY <1>2
    <3>1. e.id \in Requests /\ e.id # r
      BY <1>2 DEF Earned
    <3>2. call[e.id].id \in Requests
      BY <1>1, <3>1
    <3> QED BY <1>2, <2>1, <3>1, <3>2 DEF Earned
  <2> QED BY <1>2, <2>2, <2>3 DEF Earned
<1>3. ASSUME NEW r \in Requests, pc[r] \in {"idle"} \cup Waiting PROVE \A e \in ledger : e.id # r
  BY <1>3 DEF Earned, Waiting
<1>4. ASSUME NEW r \in Requests, Create(r) \/ Update(r) \/ Remove(r) PROVE Earned'
  <2>1. /\ pc[r] = "idle" /\ completions' = completions /\ ledger' = ledger
        /\ pc'[r] \notin {"track", "deposit"}
    BY <1>1, <1>4 DEF Create, Update, Remove, Arrives, GoTo, accountVars
  <2>2. r \notin Due' /\ \A e \in ledger : e.id # r
    BY <1>3, <2>1 DEF Due
  <2>3. \A p \in DOMAIN payments' : payments'[p].status = "completed" => completions'[p] > 0
    <3>1. CASE payments' = payments
      BY <2>1, <3>1 DEF Earned
    <3>2. CASE \E p \in DOMAIN payments : payments' = [payments EXCEPT ![p].deleted = TRUE]
      BY <2>1, <3>2 DEF Earned, TypeOK, Payment
    <3> QED BY <1>4, <3>1, <3>2 DEF Create, Update, Remove, Live
  <2> QED BY <1>2, <1>4, <2>1, <2>2, <2>3 DEF Serve
<1>5. ASSUME NEW r \in Requests, Insert(r) PROVE Earned'
  <2> DEFINE dto == call[r].dto
             d == [wallet |-> dto.wallet, amount |-> dto.amount, currency |-> dto.currency,
                   status |-> dto.status, deleted |-> FALSE]
  <2>1. pc[r] = "insert" /\ call[r].id = r /\ d \in Payment /\ r \notin DOMAIN payments
    BY <1>5, DocumentTypes DEF Insert, Sound
  <2>2. /\ Store(r, d, d) /\ doc' = [doc EXCEPT ![r] = d] /\ pc' = [pc EXCEPT ![r] = "track"]
        /\ UNCHANGED <<accountVars, month, count, call>>
    BY <1>5 DEF Insert, GoTo
  <2> HIDE DEF d
  <2>3. /\ payments'[r] = d /\ DOMAIN payments' = DOMAIN payments \cup {r}
        /\ \A q \in DOMAIN payments : q # r => payments'[q] = payments[q]
        /\ \A q \in Requests : q # r => completions'[q] = completions[q]
        /\ IF d.status = "completed" THEN completions'[r] = completions[r] + 1
                                     ELSE completions'[r] = completions[r]
    BY <2>1, <2>2, StoreEffect
  <2>4. doc'[r] = d /\ pc'[r] = "track" /\ call' = call /\ ledger' = ledger
    BY <1>1, <2>2 DEF accountVars
  <2>5. d.status = "completed" => completions'[r] > 0
    BY <1>1, <2>3
  <2>6. \A p \in Requests : completions[p] > 0 => completions'[p] > 0
    BY <1>1, <2>3
  <2>7. \A p \in DOMAIN payments' : payments'[p].status = "completed" => completions'[p] > 0
    BY <1>1, <2>1, <2>3, <2>5 DEF Earned
  <2>8. r \in Due' => completions'[call'[r].id] > 0
    BY <2>1, <2>4, <2>5 DEF Due
  <2> QED BY <1>2, <1>3, <1>5, <2>1, <2>4, <2>6, <2>7, <2>8 DEF Serve, Waiting
<1>6. ASSUME NEW r \in Requests, Write(r) PROVE Earned'
  <2> DEFINE p == call[r].id
             d == Updated(payments[p], call[r].dto)
  <2>1. /\ pc[r] = "write" /\ p \in Requests /\ p \in DOMAIN payments /\ d \in Payment
        /\ payments[p] \in Payment /\ ledger' = ledger /\ call' = call
    BY <1>1, <1>6, DocumentTypes DEF Write, Sound, TypeOK, accountVars
  <2>2. \A e \in ledger : e.id # r
    BY <1>3, <2>1 DEF Waiting
  <2>3. CASE Live(p)
    <3>1. /\ Store(p, d, doc[r]) /\ doc' = [doc EXCEPT ![r] = d]
          /\ pc' = [pc EXCEPT ![r] = IF BecomesCompleted(doc[r], call[r].dto) THEN "deposit" ELSE "ok"]
      BY <1>6, <2>3 DEF Write, GoTo
    <3>2. call[r].dto.status = "completed" => d.status = "completed"
      BY PaymentsAssumption DEF Updated, Or, Statuses
    <3> HIDE DEF d, p
    <3>3. /\ payments'[p] = d /\ DOMAIN payments' = DOMAIN payments \cup {p}
          /\ \A q \in DOMAIN payments : q # p => payments'[q] = payments[q]
          /\ \A q \in Requests : q # p => completions'[q] = completions[q]
          /\ IF d.status = "completed" /\ ~(p \in DOMAIN payments /\ payments[p].status = "completed")
               THEN completions'[p] = completions[p] + 1 ELSE completions'[p] = completions[p]
      BY <2>1, <3>1, StoreEffect
    <3>4. d.status = "completed" => completions'[p] > 0
      BY <1>1, <2>1, <3>3 DEF Earned
    <3>5. \A q \in Requests : completions[q] > 0 => completions'[q] > 0
      BY <1>1, <2>1, <3>3
    <3>6. \A q \in DOMAIN payments' : payments'[q].status = "completed" => completions'[q] > 0
      BY <1>1, <2>1, <3>3, <3>4 DEF Earned
    <3>7. pc'[r] \in {"deposit", "ok"} /\ (pc'[r] = "deposit" => d.status = "completed")
      BY <1>1, <3>1, <3>2 DEF BecomesCompleted
    <3>8. r \in Due' => completions'[call'[r].id] > 0
      BY <2>1, <3>4, <3>7 DEF Due, p
    <3> QED BY <1>2, <1>6, <2>1, <2>2, <3>5, <3>6, <3>8 DEF Serve
  <2>4. CASE ~Live(p)
    <3>1. /\ pc' = [pc EXCEPT ![r] = "error"] /\ UNCHANGED <<payments, doc, completions, raced>>
      BY <1>6, <2>4 DEF Write, GoTo
    <3>2. r \notin Due'
      BY <1>1, <3>1 DEF Due
    <3>3. \A q \in DOMAIN payments' : payments'[q].status = "completed" => completions'[q] > 0
      BY <3>1 DEF Earned
    <3> QED BY <1>2, <1>6, <2>1, <2>2, <3>1, <3>2, <3>3 DEF Serve
  <2> QED BY <2>3, <2>4
<1>7. ASSUME NEW r \in Requests, Track(r) \/ Fail(r) \/ Crash(r) PROVE Earned'
  <2>1. /\ pc[r] \in Waiting /\ UNCHANGED <<completions, payments, ledger, call, doc>>
        /\ pc'[r] # "track"
        /\ pc'[r] = "deposit" => pc[r] = "track" /\ doc[r].status = "completed"
    BY <1>1, <1>7 DEF Track, Fail, Crash, GoTo, accountVars, Waiting
  <2>2. r \in Due' => r \in Due
    BY <2>1 DEF Due
  <2>3. /\ r \in Due' => completions'[call'[r].id] > 0
        /\ \A p \in DOMAIN payments' : payments'[p].status = "completed" => completions'[p] > 0
    BY <2>1, <2>2 DEF Earned
  <2> QED BY <1>2, <1>3, <1>7, <2>1, <2>3 DEF Serve
<1>8. ASSUME NEW r \in Requests, DepositToWallet(r) PROVE Earned'
  <2>1. /\ pc[r] = "deposit" /\ UNCHANGED <<completions, payments, call, doc>>
        /\ pc'[r] \in {"ok", "unknown"} /\ ledger' = ledger \cup {DepositEntry(r)}
    BY <1>1, <1>8 DEF DepositToWallet, Deposit, GoTo
  <2>2. DepositEntry(r).id = r /\ r \in Due /\ r \notin Due'
    BY <2>1, EntryTypes DEF Due, Sound
  <2>3. /\ completions'[call'[r].id] > 0
        /\ \A p \in DOMAIN payments' : payments'[p].status = "completed" => completions'[p] > 0
    BY <2>1, <2>2 DEF Earned
  <2>4. \A e \in ledger' \ ledger : e.id = r
    BY <2>1, <2>2
  <2> QED BY <1>2, <1>3, <1>8, <2>1, <2>2, <2>3, <2>4 DEF Serve, Waiting
<1>9. CASE OpenWallet \/ NextMonth \/ UNCHANGED vars
  <2>1. UNCHANGED <<completions, payments, ledger, call, doc, pc>>
    BY <1>9 DEF OpenWallet, Open, NextMonth, vars, paymentVars, accountVars
  <2> QED BY <2>1 DEF Earned, Due
<1> QED BY <1>4, <1>5, <1>6, <1>7, <1>8, <1>9 DEF Next, Serve

(* Nothing has failed yet.                                                  *)
Smooth == \A r \in Requests : pc[r] \notin {"error", "unknown", "crashed"}

(* For every payment no two updates raced on, what was deposited and what   *)
(* will be is bounded by, and while nothing fails equal to, the times it    *)
(* became completed.                                                        *)
Once ==
  \A p \in Requests \ raced :
    /\ IsFiniteSet(Deposits(p)) /\ IsFiniteSet(Owed(p))
    /\ Cardinality(Deposits(p)) + Cardinality(Owed(p)) <= completions[p]
    /\ Smooth => Cardinality(Deposits(p)) + Cardinality(Owed(p)) = completions[p]

(* The books of one payment: entries D and calls O before a step, D2 and O2 *)
(* after it, with n and n2 completions.                                     *)
Kept(D, O, n) == IsFiniteSet(D) /\ IsFiniteSet(O) /\ Cardinality(D) + Cardinality(O) <= n
Exact(D, O, n) == Cardinality(D) + Cardinality(O) = n

(* A call becomes due as its payment becomes completed once more; it        *)
(* deposits; or it fails.                                                   *)
LEMMA Books ==
  ASSUME NEW D, NEW O, NEW n \in Nat, Kept(D, O, n)
  PROVE  /\ \A r : r \notin O => /\ Kept(D, O \cup {r}, n + 1)
                                 /\ Exact(D, O, n) => Exact(D, O \cup {r}, n + 1)
         /\ \A r, e : r \in O /\ e \notin D =>
              /\ Kept(D \cup {e}, O \ {r}, n)
              /\ Exact(D, O, n) => Exact(D \cup {e}, O \ {r}, n)
         /\ \A r : r \in O => Kept(D, O \ {r}, n)
<1>1. IsFiniteSet(D) /\ IsFiniteSet(O) /\ Cardinality(D) \in Nat /\ Cardinality(O) \in Nat
      /\ Cardinality(D) + Cardinality(O) <= n
  BY FS_CardinalityType DEF Kept
<1>2. ASSUME NEW r, r \notin O
      PROVE  Kept(D, O \cup {r}, n + 1) /\ (Exact(D, O, n) => Exact(D, O \cup {r}, n + 1))
  <2>1. IsFiniteSet(O \cup {r}) /\ Cardinality(O \cup {r}) = Cardinality(O) + 1
    BY <1>1, <1>2, FS_AddElement
  <2> QED BY <1>1, <2>1 DEF Kept, Exact
<1>3. ASSUME NEW r, r \in O
      PROVE  /\ IsFiniteSet(O \ {r}) /\ Cardinality(O \ {r}) = Cardinality(O) - 1
             /\ Kept(D, O \ {r}, n)
  <2>1. IsFiniteSet(O \ {r}) /\ Cardinality(O \ {r}) = Cardinality(O) - 1
    BY <1>1, <1>3, FS_RemoveElement
  <2> QED BY <1>1, <2>1 DEF Kept
<1>4. ASSUME NEW r, NEW e, r \in O, e \notin D
      PROVE  Kept(D \cup {e}, O \ {r}, n) /\ (Exact(D, O, n) => Exact(D \cup {e}, O \ {r}, n))
  <2>1. IsFiniteSet(D \cup {e}) /\ Cardinality(D \cup {e}) = Cardinality(D) + 1
    BY <1>1, <1>4, FS_AddElement
  <2>2. IsFiniteSet(O \ {r}) /\ Cardinality(O \ {r}) = Cardinality(O) - 1
    BY <1>3, <1>4
  <2> QED BY <1>1, <2>1, <2>2 DEF Kept, Exact
<1> QED BY <1>2, <1>3, <1>4

(* The books of a payment p over a step of call r.                          *)
LEMMA OnceOfCall ==
  ASSUME TypeOK, Sound, Earned, Once, NEW r \in Requests, Serve(r),
         NEW p \in Requests, p \notin raced, ledger \subseteq ledger',
         \/ /\ ledger' = ledger /\ completions'[p] = completions[p]
            /\ (r \in Due' /\ call'[r].id = p) <=> (r \in Due /\ call[r].id = p)
         \/ /\ ledger' = ledger /\ completions'[p] = completions[p] + 1
            /\ r \in Due' /\ r \notin Due /\ call'[r].id = p
         \/ /\ completions'[p] = completions[p] /\ r \in Due /\ r \notin Due' /\ call' = call
            /\ ledger' = ledger \cup {DepositEntry(r)} /\ DepositEntry(r).id = r
         \/ /\ completions'[p] = completions[p] /\ ledger' = ledger /\ r \in Due /\ r \notin Due'
            /\ pc'[r] \in {"error", "crashed"} /\ call' = call
  PROVE  /\ Kept(Deposits(p)', Owed(p)', completions'[p])
         /\ Smooth' => Exact(Deposits(p)', Owed(p)', completions'[p])
<1> DEFINE D == Deposits(p)
           O == Owed(p)
           D2 == {e \in ledger' : call'[e.id].id = p}
           O2 == {s \in Due' : call'[s].id = p}
<1>1. D2 = Deposits(p)' /\ O2 = Owed(p)'
  BY DEF Deposits, Owed
<1>2. \A s \in Requests : s # r => pc'[s] = pc[s] /\ call'[s] = call[s] /\ doc'[s] = doc[s]
  BY OneCall
<1>3. /\ completions[p] \in Nat /\ pc[r] \notin {"unknown", "error", "crashed"}
      /\ pc[r] \notin {"ok", "unknown"}
  <2>1. completions[p] \in Nat
    BY DEF TypeOK
  <2>2. pc[r] \in {"idle"} \cup Waiting
    BY DEF Serve, Create, Update, Remove, Insert, Track, Write, DepositToWallet, Fail, Crash, Arrives, Waiting
  <2> QED BY <2>1, <2>2 DEF Waiting
<1>4. \A e \in ledger : e.id \in Requests /\ e.id # r /\ call'[e.id] = call[e.id]
  BY <1>2, <1>3 DEF Earned
<1>5. \A s \in Requests : s # r => (s \in Due' <=> s \in Due)
  BY <1>2 DEF Due
<1>6. /\ \A s : s # r => (s \in O2 <=> s \in O)
      /\ r \in O2 <=> r \in Due' /\ call'[r].id = p
      /\ r \in O <=> r \in Due /\ call[r].id = p
      /\ \A e \in ledger : e \in D2 <=> e \in D
  <2>1. Due \subseteq Requests /\ Due' \subseteq Requests
    BY DEF Due
  <2> QED BY <1>2, <1>4, <1>5, <2>1 DEF Owed, Deposits
<1>7. D \subseteq ledger /\ D2 \subseteq ledger'
  BY DEF Deposits
<1>8. Kept(D, O, completions[p]) /\ (Smooth => Exact(D, O, completions[p]))
  BY DEF Once, Kept, Exact
<1>9. Smooth' => Smooth
  BY <1>2, <1>3 DEF Smooth
<1> SUFFICES /\ Kept(D2, O2, completions'[p])
             /\ Smooth' => Exact(D2, O2, completions'[p])
  BY <1>1
<1> HIDE DEF D, O, D2, O2
<1>10. CASE /\ ledger' = ledger /\ completions'[p] = completions[p]
            /\ (r \in Due' /\ call'[r].id = p) <=> (r \in Due /\ call[r].id = p)
  <2>1. O2 = O
    BY <1>6, <1>10
  <2>2. D2 = D
    BY <1>6, <1>7, <1>10
  <2> QED BY <1>8, <1>9, <1>10, <2>1, <2>2
<1>11. CASE /\ ledger' = ledger /\ completions'[p] = completions[p] + 1
            /\ r \in Due' /\ r \notin Due /\ call'[r].id = p
  <2>1. O2 = O \cup {r} /\ r \notin O
    BY <1>6, <1>11
  <2>2. D2 = D
    BY <1>6, <1>7, <1>11
  <2>3. /\ Kept(D, O \cup {r}, completions[p] + 1)
        /\ Exact(D, O, completions[p]) => Exact(D, O \cup {r}, completions[p] + 1)
    BY <1>3, <1>8, <2>1, Books
  <2> QED BY <1>8, <1>9, <1>11, <2>1, <2>2, <2>3
<1>12. CASE /\ completions'[p] = completions[p] /\ r \in Due /\ r \notin Due' /\ call' = call
            /\ ledger' = ledger \cup {DepositEntry(r)} /\ DepositEntry(r).id = r
  <2>1. CASE call[r].id = p
    <3>1. O2 = O \ {r} /\ r \in O
      BY <1>6, <1>12, <2>1
    <3>2. DepositEntry(r) \notin ledger
      BY <1>4, <1>12
    <3>3. DepositEntry(r) \in D2 /\ DepositEntry(r) \notin D
      BY <1>7, <1>12, <2>1, <3>2 DEF D2
    <3>4. D2 = D \cup {DepositEntry(r)}
      BY <1>6, <1>7, <1>12, <3>3
    <3> QED BY <1>3, <1>8, <1>9, <1>12, <3>1, <3>3, <3>4, Books
  <2>2. CASE call[r].id # p
    <3>1. O2 = O
      BY <1>6, <1>12, <2>2
    <3>2. DepositEntry(r) \notin D2
      BY <1>12, <2>2 DEF D2
    <3>3. D2 = D
      BY <1>6, <1>7, <1>12, <3>2
    <3> QED BY <1>8, <1>9, <1>12, <3>1, <3>3
  <2> QED BY <2>1, <2>2
<1>13. CASE /\ completions'[p] = completions[p] /\ ledger' = ledger /\ r \in Due /\ r \notin Due'
            /\ pc'[r] \in {"error", "crashed"} /\ call' = call
  <2>1. D2 = D /\ ~Smooth'
    BY <1>6, <1>7, <1>13 DEF Smooth
  <2>2. CASE call[r].id = p
    <3>1. O2 = O \ {r} /\ r \in O
      BY <1>6, <1>13, <2>2
    <3> QED BY <1>3, <1>8, <1>13, <2>1, <3>1, Books
  <2>3. CASE call[r].id # p
    <3>1. O2 = O
      BY <1>6, <1>13, <2>3
    <3> QED BY <1>8, <1>13, <2>1, <3>1
  <2> QED BY <2>2, <2>3
<1> QED BY <1>10, <1>11, <1>12, <1>13

(* Every step of a call is of one of these four kinds for each payment it   *)
(* does not race on.                                                        *)
LEMMA OnceStep ==
  ASSUME TypeOK, Sound, Earned, Once, [Next]_vars
  PROVE  Once'
<1>1. /\ completions \in [Requests -> Nat] /\ call \in [Requests -> Call]
      /\ pc \in [Requests -> {"idle"} \cup Waiting \cup Final]
      /\ doc \in [Requests -> Payment \cup {Absent}] /\ DOMAIN payments \subseteq Requests
  BY DEF TypeOK
<1>2. ASSUME raced \subseteq raced',
             \A p \in Requests \ raced' :
               /\ Kept(Deposits(p)', Owed(p)', completions'[p])
               /\ Smooth' => Exact(Deposits(p)', Owed(p)', completions'[p])
      PROVE  Once'
  BY <1>2 DEF Once, Kept, Exact
<1>3. ASSUME NEW r \in Requests, Create(r) \/ Update(r) \/ Remove(r) PROVE Once'
  <2>1. /\ pc[r] = "idle" /\ completions' = completions /\ ledger' = ledger /\ raced' = raced
        /\ pc'[r] \notin {"track", "deposit"} /\ Serve(r)
    BY <1>1, <1>3 DEF Create, Update, Remove, Arrives, GoTo, accountVars, Serve
  <2>2. r \notin Due /\ r \notin Due'
    BY <2>1 DEF Due
  <2> QED BY <1>2, <2>1, <2>2, OnceOfCall
<1>4. ASSUME NEW r \in Requests, Insert(r) PROVE Once'
  <2> DEFINE dto == call[r].dto
             d == [wallet |-> dto.wallet, amount |-> dto.amount, currency |-> dto.currency,
                   status |-> dto.status, deleted |-> FALSE]
  <2>1. pc[r] = "insert" /\ call[r].id = r /\ d \in Payment /\ r \notin DOMAIN payments /\ Serve(r)
    BY <1>4, DocumentTypes DEF Insert, Sound, Serve
  <2>2. /\ Store(r, d, d) /\ doc' = [doc EXCEPT ![r] = d] /\ pc' = [pc EXCEPT ![r] = "track"]
        /\ UNCHANGED <<accountVars, month, count, call>>
    BY <1>4 DEF Insert, GoTo
  <2> HIDE DEF d
  <2>3. /\ \A q \in Requests : q # r => completions'[q] = completions[q]
        /\ IF d.status = "completed" THEN completions'[r] = completions[r] + 1
                                     ELSE completions'[r] = completions[r]
        /\ raced \subseteq raced'
    BY <2>1, <2>2, StoreEffect
  <2>4. doc'[r] = d /\ pc'[r] = "track" /\ call' = call /\ ledger' = ledger
    BY <1>1, <2>2 DEF accountVars
  <2>5. r \notin Due /\ (r \in Due' <=> d.status = "completed")
    BY <2>1, <2>4 DEF Due
  <2>6. ASSUME NEW p \in Requests, p \notin raced'
        PROVE  /\ Kept(Deposits(p)', Owed(p)', completions'[p])
               /\ Smooth' => Exact(Deposits(p)', Owed(p)', completions'[p])
    <3>1. p \notin raced
      BY <2>3, <2>6
    <3>2. CASE p = r /\ d.status = "completed"
      BY <2>1, <2>3, <2>4, <2>5, <3>1, <3>2, OnceOfCall
    <3>3. CASE p # r \/ d.status # "completed"
      <4>1. completions'[p] = completions[p] /\ ~(r \in Due' /\ call'[r].id = p)
        BY <2>1, <2>3, <2>4, <2>5, <3>3
      <4> QED BY <2>1, <2>4, <2>5, <3>1, <4>1, OnceOfCall
    <3> QED BY <3>2, <3>3
  <2> QED BY <1>2, <2>3, <2>6
<1>5. ASSUME NEW r \in Requests, Write(r) PROVE Once'
  <2> DEFINE t == call[r].id
             d == Updated(payments[t], call[r].dto)
  <2>1. /\ pc[r] = "write" /\ t \in Requests /\ t \in DOMAIN payments /\ d \in Payment
        /\ ledger' = ledger /\ call' = call /\ Serve(r)
    BY <1>1, <1>5, DocumentTypes DEF Write, Sound, TypeOK, accountVars, Serve
  <2>2. r \notin Due
    BY <2>1 DEF Due
  <2>3. CASE Live(t)
    <3>1. /\ Store(t, d, doc[r]) /\ doc' = [doc EXCEPT ![r] = d]
          /\ pc' = [pc EXCEPT ![r] = IF BecomesCompleted(doc[r], call[r].dto) THEN "deposit" ELSE "ok"]
      BY <1>5, <2>3 DEF Write, GoTo
    <3>2. d.status = IF call[r].dto.status = Absent THEN payments[t].status ELSE call[r].dto.status
      BY DEF Updated, Or
    <3> HIDE DEF d, t
    <3>3. /\ \A q \in Requests : q # t => completions'[q] = completions[q]
          /\ IF d.status = "completed" /\ ~(t \in DOMAIN payments /\ payments[t].status = "completed")
               THEN completions'[t] = completions[t] + 1 ELSE completions'[t] = completions[t]
          /\ raced \subseteq raced'
      BY <2>1, <3>1, StoreEffect
    <3>4. payments[t].status # doc[r].status => t \in raced'
      BY <2>1, <3>1 DEF Store, TypeOK
    <3>5. r \in Due' <=> BecomesCompleted(doc[r], call[r].dto)
      BY <1>1, <3>1 DEF Due
    <3>6. t \notin raced' =>
            IF r \in Due' THEN completions'[t] = completions[t] + 1 ELSE completions'[t] = completions[t]
      BY <2>1, <3>2, <3>3, <3>5, <3>4, PaymentsAssumption DEF BecomesCompleted, Statuses
    <3>7. call'[r].id = t
      BY <2>1 DEF t
    <3>8. ASSUME NEW p \in Requests, p \notin raced'
          PROVE  /\ Kept(Deposits(p)', Owed(p)', completions'[p])
                 /\ Smooth' => Exact(Deposits(p)', Owed(p)', completions'[p])
      <4>1. p \notin raced
        BY <3>3, <3>8
      <4>2. CASE p = t /\ r \in Due'
        BY <2>1, <2>2, <3>6, <3>7, <3>8, <4>1, <4>2, OnceOfCall
      <4>3. CASE p # t \/ r \notin Due'
        <5>1. completions'[p] = completions[p] /\ ~(r \in Due' /\ call'[r].id = p)
          BY <3>3, <3>6, <3>7, <3>8, <4>3
        <5> QED BY <2>1, <2>2, <4>1, <5>1, OnceOfCall
      <4> QED BY <4>2, <4>3
    <3> QED BY <1>2, <3>3, <3>8
  <2>4. CASE ~Live(t)
    <3>1. /\ pc' = [pc EXCEPT ![r] = "error"] /\ UNCHANGED <<payments, doc, completions, raced>>
      BY <1>5, <2>4 DEF Write, GoTo
    <3>2. r \notin Due'
      BY <1>1, <3>1 DEF Due
    <3> QED BY <1>2, <2>1, <2>2, <3>1, <3>2, OnceOfCall
  <2> QED BY <2>3, <2>4
<1>6. ASSUME NEW r \in Requests, Track(r) PROVE Once'
  <2>1. /\ pc[r] = "track" /\ UNCHANGED <<completions, ledger, call, doc, raced>> /\ Serve(r)
        /\ pc'[r] = IF doc[r].status = "completed" THEN "deposit" ELSE "ok"
    BY <1>1, <1>6 DEF Track, GoTo, accountVars, Serve
  <2>2. r \in Due' <=> r \in Due
    BY <2>1 DEF Due
  <2> QED BY <1>2, <2>1, <2>2, OnceOfCall
<1>7. ASSUME NEW r \in Requests, Fail(r) \/ Crash(r) PROVE Once'
  <2>1. /\ UNCHANGED <<completions, ledger, call, doc, raced>> /\ Serve(r)
        /\ pc'[r] \in {"error", "crashed"}
    BY <1>1, <1>7 DEF Fail, Crash, GoTo, accountVars, Serve, Waiting
  <2>2. r \notin Due'
    BY <2>1 DEF Due
  <2>3. CASE r \in Due
    BY <1>2, <2>1, <2>2, <2>3, OnceOfCall
  <2>4. CASE r \notin Due
    BY <1>2, <2>1, <2>2, <2>4, OnceOfCall
  <2> QED BY <2>3, <2>4
<1>8. ASSUME NEW r \in Requests, DepositToWallet(r) PROVE Once'
  <2>1. /\ pc[r] = "deposit" /\ UNCHANGED <<completions, call, doc, raced>> /\ Serve(r)
        /\ pc'[r] \in {"ok", "unknown"} /\ ledger' = ledger \cup {DepositEntry(r)}
    BY <1>1, <1>8 DEF DepositToWallet, Deposit, GoTo, Serve
  <2>2. DepositEntry(r).id = r /\ r \in Due /\ r \notin Due'
    BY <2>1, EntryTypes DEF Due, Sound
  <2> QED BY <1>2, <2>1, <2>2, OnceOfCall
<1>9. CASE OpenWallet \/ NextMonth \/ UNCHANGED vars
  <2>1. UNCHANGED <<completions, ledger, call, doc, pc, raced>>
    BY <1>9 DEF OpenWallet, Open, NextMonth, vars, paymentVars, accountVars
  <2> QED BY <2>1 DEF Once, Deposits, Owed, Due, Smooth
<1> QED BY <1>3, <1>4, <1>5, <1>6, <1>7, <1>8, <1>9 DEF Next, Serve

-----------------------------------------------------------------------------
(* What the months' counters add up to.                                     *)

(* Payments stored by calls that have not got to the counter, or not yet.   *)
Uncounted == {r \in Requests : pc[r] = "track"}

(* Each payment is counted once, is still to be counted, or never will be.  *)
CounterInv ==
  /\ IsFiniteSet(DOMAIN payments)
  /\ SumFunctionOnSet(count, 1..Months) + Cardinality(Uncounted) <= Cardinality(DOMAIN payments)

(* Calls about to count are in flight, and so finitely many.                *)
LEMMA UncountedIsFinite ==
  ASSUME TypeOK, QuotaInv, CounterInv
  PROVE  /\ IsFiniteSet(Uncounted) /\ Cardinality(Uncounted) \in Nat
         /\ IsFiniteSet(1..Months) /\ \A m \in 1..Months : count[m] \in Nat
         /\ SumFunctionOnSet(count, 1..Months) \in Nat
         /\ Cardinality(DOMAIN payments) \in Nat
<1>1. Uncounted \subseteq InFlight
  BY DEF Uncounted, InFlight, Waiting
<1>2. IsFiniteSet(InFlight)
  BY DEF QuotaInv
<1>3. Months \in Nat
  BY PaymentsAssumption
<1>4. IsFiniteSet(1..Months)
  BY <1>3, FS_Interval
<1>5. \A m \in 1..Months : count[m] \in Nat
  BY DEF TypeOK
<1>6. SumFunctionOnSet(count, 1..Months) \in Nat
  BY <1>4, <1>5, SumIs
<1>7. Cardinality(DOMAIN payments) \in Nat
  BY FS_CardinalityType DEF CounterInv
<1> QED BY <1>1, <1>2, <1>4, <1>5, <1>6, <1>7, CountingInFlight

(* A step that stores and counts nothing new.                               *)
LEMMA CounterStays ==
  ASSUME TypeOK, QuotaInv, CounterInv, Uncounted' \subseteq Uncounted,
         UNCHANGED <<count, DOMAIN payments>>
  PROVE  CounterInv'
<1>1. Cardinality(Uncounted') <= Cardinality(Uncounted) /\ Cardinality(Uncounted') \in Nat
  BY UncountedIsFinite, CountingInFlight
<1> QED BY <1>1, UncountedIsFinite DEF CounterInv

(* A payment that is stored is one more to be counted.                      *)
LEMMA InsertCounts ==
  ASSUME TypeOK, Sound, QuotaInv, CounterInv, NEW r \in Requests, Insert(r)
  PROVE  CounterInv'
<1>1. pc[r] = "insert" /\ count' = count /\ pc' = [pc EXCEPT ![r] = "track"]
  BY DEF Insert, GoTo
<1>2. r \notin DOMAIN payments
  BY <1>1 DEF Sound
<1>3. DOMAIN payments' = DOMAIN payments \cup {r}
  BY DEF Insert, Store
<1>4. Uncounted' = Uncounted \cup {r} /\ r \notin Uncounted
  BY <1>1 DEF Uncounted, TypeOK
<1>5. Cardinality(Uncounted') = Cardinality(Uncounted) + 1
  BY <1>4, UncountedIsFinite, FS_AddElement
<1>6. IsFiniteSet(DOMAIN payments') /\ Cardinality(DOMAIN payments') = Cardinality(DOMAIN payments) + 1
  BY <1>2, <1>3, FS_AddElement DEF CounterInv
<1> QED BY <1>1, <1>5, <1>6, UncountedIsFinite DEF CounterInv

(* Counting, whether it succeeds or not, is done once.                      *)
LEMMA TrackCounts ==
  ASSUME TypeOK, Sound, QuotaInv, CounterInv, NEW r \in Requests, Track(r)
  PROVE  CounterInv'
<1>1. /\ pc[r] = "track" /\ payments' = payments /\ month \in 1..Months
      /\ pc' = [pc EXCEPT ![r] = IF doc[r].status = "completed" THEN "deposit" ELSE "ok"]
      /\ count' = count \/ count' = [count EXCEPT ![month] = @ + 1]
  BY DEF Track, GoTo, TypeOK
<1>2. Uncounted' = Uncounted \ {r} /\ r \in Uncounted
  BY <1>1 DEF Uncounted, TypeOK
<1>3. CASE count' = count
  BY <1>1, <1>2, <1>3, CounterStays
<1>4. CASE count' = [count EXCEPT ![month] = @ + 1]
  <2>1. Cardinality(Uncounted') = Cardinality(Uncounted) - 1
    BY <1>2, UncountedIsFinite, FS_RemoveElement
  <2>2. count'[month] = count[month] + 1 /\ count[month] \in Nat
    BY <1>1, <1>4 DEF TypeOK
  <2>3. \A m \in 1..Months : count[m] \in Int /\ count'[m] \in Int /\ (m # month => count[m] = count'[m])
    BY <1>1, <1>4 DEF TypeOK
  <2>4. SumFunctionOnSet(count', 1..Months) = SumFunctionOnSet(count, 1..Months) + count'[month] - count[month]
    <3> DEFINE all == 1..Months
    <3>1. IsFiniteSet(all) /\ month \in all
      BY <1>1, UncountedIsFinite
    <3>2. \A m \in all : count[m] \in Int /\ count'[m] \in Int /\ (m # month => count[m] = count'[m])
      BY <2>3
    <3> HIDE DEF all
    <3>3. SumFunctionOnSet(count', all) = SumFunctionOnSet(count, all) + count'[month] - count[month]
      BY <3>1, <3>2, SumWithChange
    <3> QED BY <3>3 DEF all
  <2> QED BY <1>1, <2>1, <2>2, <2>4, UncountedIsFinite DEF CounterInv
<1> QED BY <1>1, <1>3, <1>4

(* All steps.                                                               *)
LEMMA CounterStep ==
  ASSUME TypeOK, Sound, QuotaInv, CounterInv, [Next]_vars
  PROVE  CounterInv'
<1>1. ASSUME NEW r \in Requests, NEW label, GoTo(r, label), label # "track",
             UNCHANGED <<count, DOMAIN payments>>
      PROVE  CounterInv'
  <2>1. Uncounted' \subseteq Uncounted
    BY <1>1 DEF GoTo, Uncounted, TypeOK
  <2> QED BY <1>1, <2>1, CounterStays
<1>2. ASSUME NEW r \in Requests, Create(r) PROVE CounterInv'
  BY <1>1, <1>2 DEF Create
<1>3. ASSUME NEW r \in Requests, Update(r) PROVE CounterInv'
  BY <1>1, <1>3 DEF Update
<1>4. ASSUME NEW r \in Requests, Write(r) PROVE CounterInv'
  <2>1. call[r].id \in DOMAIN payments
    BY <1>4 DEF Write, Sound
  <2>2. DOMAIN payments' = DOMAIN payments
    BY <1>4, <2>1 DEF Write, Store
  <2> QED BY <1>1, <1>4, <2>2 DEF Write
<1>5. ASSUME NEW r \in Requests, Remove(r) PROVE CounterInv'
  <2>1. DOMAIN payments' = DOMAIN payments
    BY <1>5 DEF Remove, TypeOK
  <2> QED BY <1>1, <1>5, <2>1 DEF Remove
<1>6. ASSUME NEW r \in Requests, DepositToWallet(r) \/ Fail(r) \/ Crash(r) PROVE CounterInv'
  BY <1>1, <1>6 DEF DepositToWallet, Fail, Crash
<1>7. CASE OpenWallet \/ NextMonth \/ UNCHANGED vars
  <2>1. UNCHANGED <<pc, count, payments>>
    BY <1>7 DEF OpenWallet, NextMonth, vars, paymentVars
  <2> QED BY <2>1, CounterStays DEF Uncounted
<1>8. ASSUME NEW r \in Requests, Serve(r) PROVE CounterInv'
  BY <1>2, <1>3, <1>4, <1>5, <1>6, <1>8, InsertCounts, TrackCounts DEF Serve
<1> QED BY <1>7, <1>8 DEF Next

-----------------------------------------------------------------------------
(* Theorems.                                                                *)

(* The inductive invariant.                                                 *)
PaymentsInv == TypeOK /\ Sound /\ QuotaInv /\ Earned /\ Once /\ CounterInv

(* At the beginning nothing is in flight, counted, due or deposited.        *)
LEMMA PaymentsInit ==
  ASSUME Init PROVE PaymentsInv
<1>1. TypeOK /\ Sound
  BY SoundInit
<1>2. /\ ledger = {} /\ DOMAIN payments = {} /\ \A r \in Requests : pc[r] = "idle"
      /\ \A p \in Requests : completions[p] = 0
      /\ month = 1 /\ \A m \in 1..Months : count[m] = 0
  BY DEF Init, AccountsInit
<1>3. IsFiniteSet({}) /\ Cardinality({}) = 0
  BY FS_EmptySet
<1>4. QuotaInv
  <2>1. InFlight = {} /\ Counting = {}
    BY <1>2 DEF InFlight, Waiting, Counting
  <2>2. MaxInFlight \in Nat \ {0} /\ Quota \in Nat /\ Months \in Nat \ {0}
    BY PaymentsAssumption
  <2> QED BY <1>2, <1>3, <2>1, <2>2 DEF QuotaInv
<1>5. Due = {}
  BY <1>2 DEF Due
<1>6. Earned
  BY <1>2, <1>5 DEF Earned
<1>7. Once
  <2> SUFFICES ASSUME NEW p \in Requests
               PROVE  /\ IsFiniteSet(Deposits(p)) /\ IsFiniteSet(Owed(p))
                      /\ Cardinality(Deposits(p)) + Cardinality(Owed(p)) = completions[p]
    BY <1>2 DEF Once
  <2>1. Deposits(p) = {} /\ Owed(p) = {}
    BY <1>2, <1>5 DEF Deposits, Owed
  <2> QED BY <1>2, <1>3, <2>1
<1>8. CounterInv
  <2>1. Uncounted = {}
    BY <1>2 DEF Uncounted
  <2>2. SumFunctionOnSet(count, 1..Months) = 0
    <3>1. IsFiniteSet(1..Months)
      BY PaymentsAssumption, FS_Interval
    <3> QED BY <1>2, <3>1, SumOfZeros
  <2> QED BY <1>2, <1>3, <2>1, <2>2 DEF CounterInv
<1> QED BY <1>1, <1>4, <1>6, <1>7, <1>8 DEF PaymentsInv

(* All of the above holds at every moment of any number of calls.           *)
THEOREM PaymentsCorrect == Spec => []PaymentsInv
<1>1. Init => PaymentsInv
  BY PaymentsInit
<1>2. PaymentsInv /\ [Next]_vars => PaymentsInv'
  BY SoundStep, QuotaStep, EarnedStep, OnceStep, CounterStep DEF PaymentsInv
<1> QED BY <1>1, <1>2, PTL DEF Spec

(* Every variable of Payments keeps its type.                               *)
THEOREM TypeCorrect == Spec => []TypeOK
<1>1. PaymentsInv => TypeOK
  BY DEF PaymentsInv
<1> QED BY <1>1, PaymentsCorrect, PTL

(* A payment once deleted never changes, whatever update was under way.     *)
THEOREM DeletedStaysFrozen == Spec => DeletedIsFrozen
<1>1. PaymentsInv /\ [Next]_vars =>
        [\A p \in DOMAIN payments : payments[p].deleted => payments'[p] = payments[p]]_vars
  BY FrozenStep DEF PaymentsInv
<1> QED BY <1>1, PaymentsCorrect, PTL DEF Spec, DeletedIsFrozen

(* No order of creations, updates and failures deposits for a payment that  *)
(* never became completed.                                                  *)
THEOREM DepositsNeedCompletion == Spec => []NoDepositWithoutCompletion
<1>1. PaymentsInv => NoDepositWithoutCompletion
  BY DEF PaymentsInv, Earned, NoDepositWithoutCompletion, Deposits
<1> QED BY <1>1, PaymentsCorrect, PTL

(* A payment on which no two updates raced is deposited at most as often as *)
(* it became completed, and exactly as often when no call failed and none   *)
(* is under way.                                                            *)
THEOREM OneDepositPerCompletion == Spec => []DepositOncePerCompletion
<1>1. PaymentsInv => DepositOncePerCompletion
  <2> SUFFICES ASSUME PaymentsInv, NEW p \in Requests \ raced
               PROVE  /\ Cardinality(Deposits(p)) <= completions[p]
                      /\ (\A r \in Requests : pc[r] \in {"idle", "ok"}) =>
                           Cardinality(Deposits(p)) = completions[p]
    BY DEF DepositOncePerCompletion
  <2>1. /\ Cardinality(Deposits(p)) + Cardinality(Owed(p)) <= completions[p]
        /\ Smooth => Cardinality(Deposits(p)) + Cardinality(Owed(p)) = completions[p]
        /\ Cardinality(Deposits(p)) \in Nat /\ Cardinality(Owed(p)) \in Nat
        /\ completions[p] \in Nat
    BY FS_CardinalityType DEF PaymentsInv, Once, TypeOK
  <2>2. ASSUME \A r \in Requests : pc[r] \in {"idle", "ok"}
        PROVE  Smooth /\ Cardinality(Owed(p)) = 0
    <3>1. Owed(p) = {}
      BY <2>2 DEF Owed, Due
    <3> QED BY <2>2, <3>1, FS_EmptySet DEF Smooth
  <2> QED BY <2>1, <2>2
<1> QED BY <1>1, PaymentsCorrect, PTL

(* The monthly counter never passes the quota by more than the calls served *)
(* at a time less one, across months too.                                   *)
THEOREM QuotaHolds == Spec => []QuotaOvershoot
<1>1. PaymentsInv => QuotaOvershoot
  BY DEF PaymentsInv, QuotaInv, QuotaOvershoot
<1> QED BY <1>1, PaymentsCorrect, PTL

(* No call is counted twice, and none that stored no payment: over all      *)
(* months there are at least as many payments as were counted.              *)
THEOREM CountersExplained == Spec => []CounterNeverOvercounts
<1>1. PaymentsInv => CounterNeverOvercounts
  BY UncountedIsFinite DEF PaymentsInv, CounterInv, CounterNeverOvercounts
<1> QED BY <1>1, PaymentsCorrect, PTL
=============================================================================
