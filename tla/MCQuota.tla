------------------------------ MODULE MCQuota ------------------------------
(* Quota for TLC: calls are interchangeable, and so are tenants and ids; a
   tenant is empty or has one vector. *)
EXTENDS Quota, TLC

AtMostOne == {S \in SUBSET Ids : Cardinality(S) <= 1}

Symmetries == Permutations(Calls) \cup Permutations(Tenants) \cup Permutations(Ids)
=============================================================================
