--------------------------- MODULE MCTenantCache ---------------------------
(* Small instances of TenantCache for TLC. *)
EXTENDS TenantCache

CONSTANTS t1, t2, hdfc, icici, payments, l1
=============================================================================
