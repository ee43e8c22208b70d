-------------------------- MODULE MCTenantErasure --------------------------
EXTENDS TenantErasure, TLC

Perms == Permutations(Run)
=============================================================================
