---------------------------- MODULE MCTenantStore ----------------------------
(* TenantStore for TLC: which lists of tenants a request names. *)
EXTENDS TenantStore

SingleTenant == {<<t>> : t \in Tenants}
=============================================================================
