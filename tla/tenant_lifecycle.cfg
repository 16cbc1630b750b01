CONSTANTS
  t1 = t1
  m1 = m1
  m2 = m2
  w1 = w1
  w2 = w2
  k1 = k1
  k2 = k2
  Tenants <- MCTenants
  Clients <- MCClients
  Managers <- MCManagers
  Threads <- MCThreads
  Tokens <- MCTokens
SYMMETRY Symmetry
SPECIFICATION ConnectionSpec
INVARIANTS
  DeletedTenantsHoldNothing
  FlagCoversResources
  RetriesTakeEffectOnce
