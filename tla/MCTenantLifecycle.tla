-------------------------- MODULE MCTenantLifecycle --------------------------
(* One tenant with a program, and two threads on each side.                    *)
EXTENDS ClientConnection, TLC

CONSTANTS t1, m1, m2, w1, w2, k1, k2

MCTenants == {t1}
MCClients == {t1}
MCManagers == {m1, m2}
MCThreads == {w1, w2}
MCTokens == {k1, k2}
Symmetry ==
  Permutations(MCManagers) \cup Permutations(MCThreads) \cup Permutations(MCTokens)
=============================================================================
