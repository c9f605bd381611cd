---------------------------- MODULE MCPayments ----------------------------
(* Small instances of Payments for TLC. *)
EXTENDS Payments, TLC

CONSTANTS alice, r1, r2, r3, r4

OneUser == {alice}
ThreeRequests == {r1, r2, r3}
FourRequests == {r1, r2, r3, r4}
OneCurrency == {"INR"}
OneUpper == [c \in OneCurrency |-> c]

Body(wallet, amount, status) ==
  [wallet |-> wallet, amount |-> amount, currency |-> "INR", status |-> status]
Change(amount, status) ==
  [wallet |-> Absent, amount |-> amount, currency |-> Absent, status |-> status]

NewPayments == {Body(alice, 1, "pending"), Body(alice, 1, "completed")}
PendingPayments == {Body(alice, 1, "pending")}
StatusChanges == {Change(Absent, "completed"), Change(Absent, "pending"), Change(2, Absent)}

RequestSymmetry == Permutations(Requests)
=============================================================================
