---------------------------- MODULE MCRateLimit ----------------------------
(* Small instances of RateLimit for TLC. *)
EXTENDS RateLimit, TLC

CONSTANTS bank1, bank2, r1, r2, r3

(* bank1 may make two requests in a window, bank2 one. *)
LimitTwoOne == (bank1 :> 2) @@ (bank2 :> 1)
LimitTwo == [t \in Tenants |-> 2]

RequestSymmetry == Permutations(Requests)
=============================================================================
