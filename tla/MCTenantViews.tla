--------------------------- MODULE MCTenantViews ----------------------------
(* A small instance of TenantViews for TLC. *)
EXTENDS TenantViews

CONSTANTS bank1, hdfc
=============================================================================
