---------------------------- MODULE MCApiClient -----------------------------
(* A small instance of ApiClient for TLC. *)
EXTENDS ApiClient, TLC

CONSTANTS bank1, clerk, root, b1, b2, c1, c2

(* Each tab has a call. *)
TabOfCalls == c1 :> b1 @@ c2 :> b2

TenantOfUsers == [u \in Users |-> Platform]

(* Development without host names, and the API on the bare domain. *)
AllSites ==
  {[api |-> NoTenant, sub |-> NoTenant,
    pages |-> {[at |-> "login", tenant |-> bank1], [at |-> "login", tenant |-> Platform],
               [at |-> "dashboard", tenant |-> bank1]}],
   [api |-> Platform, sub |-> NoTenant,
    pages |-> {[at |-> "login", tenant |-> NoTenant], [at |-> "dashboard", tenant |-> Platform]}]}
=============================================================================
