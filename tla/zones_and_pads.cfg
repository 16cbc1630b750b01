CONSTANTS
  t1 = t1
  t2 = t2
  h1 = h1
  h2 = h2
  h3 = h3
  sum = sum
  conv = conv
  NumPRZones = 2
  ZoneIds <- MCZoneIds
  Bases <- MCBases
  Files <- MCFiles
  Tenants <- MCTenants
  Handles <- MCHandles
  AllowedBitstreams <- MCAllowed
  Decouplers <- MCDecouplers
  HardwareFaults = TRUE
  N_PINS = 2
  N_VPIN_TOTAL = 2
  MapMax = 3
  SYNC_INPUT = TRUE
SPECIFICATION FabricSpec
INVARIANTS
  ManagersTypeOK
  TablesAgree
  ProposalIsLoadable
  SuccessMeansLoaded
  OnePadPerVPin
  InputsAreRouted
PROPERTIES
  ReprogramIsIsolated
  PadsAreGlitchFree
