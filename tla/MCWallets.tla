----------------------------- MODULE MCWallets -----------------------------
(* A small instance of Wallets for TLC. *)
EXTENDS Wallets

CONSTANTS alice, bob, r1, r2

TwoUsers == {alice, bob}
TwoRequests == {r1, r2}

MCCurrencies == {"INR", "inr", "USD"}
MCUpper == [c \in MCCurrencies |-> IF c = "inr" THEN "INR" ELSE c]

MCEntryIds == Requests \X (0..MaxTries)
=============================================================================
