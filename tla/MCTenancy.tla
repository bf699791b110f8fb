------------------------------ MODULE MCTenancy ------------------------------
(* Tenancy for TLC.  Tenants are alike, and so are threads of one kind and    *)
(* connections.                                                               *)
EXTENDS Tenancy, TLC

TenancySymmetric == Permutations(Tenants) \cup Permutations(Threads)
             \cup Permutations(Consumers) \cup Permutations(Conns)
=============================================================================
