-------------------------- MODULE MCTenantRequest --------------------------
(* Small instances of TenantRequest for TLC. *)
EXTENDS TenantRequest, TLC

CONSTANTS bank1, hdfc, bob, root, d1, r1, r2

(* An administrator of a bank, a super admin of the platform. *)
MCTenantOf == (bob :> hdfc) @@ (root :> bank1)
MCRole == (bob :> "TENANT_ADMIN") @@ (root :> "SUPER_ADMIN")

(* bank1 has both names, hdfc none yet. *)
MCInitialDoc ==
  (bank1 :> [names |-> {Platform, "bank1"}, active |-> TRUE, live |-> TRUE]) @@
  (hdfc :> [names |-> {}, active |-> FALSE, live |-> TRUE])

(* "bank1" was the name of hdfc. *)
MCInitialPast ==
  [k \in Names \cup Tenants |-> IF k = "bank1" THEN {[of |-> hdfc, active |-> TRUE]} ELSE {}]

RequestSymmetry == Permutations(Requests)
=============================================================================
