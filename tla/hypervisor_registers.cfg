CONSTANTS
  t1 = t1
  t2 = t2
  w1 = w1
  w2 = w2
  h1 = h1
  h2 = h2
  h3 = h3
  sum = sum
  NumPRZones = 2
  ZoneIds <- MCZoneIds
  Bases <- MCBases
  Files <- MCFiles
  Tenants <- MCTenants
  AllowedBitstreams <- MCAllowed
  Handles <- MCHandles3
  Decouplers <- MCDecouplers
  HardwareFaults = FALSE
  MaxOverlays <- One
  MaxBuffers <- Two
  MaxMemory <- Three
  UioDevices <- OneUio
  Workers <- MCWorkers
  AllowedZones <- MCAllowedZones
  BufferSizes <- MCBufferSizes
  Calls <- ZoneCalls
  BuildableReplies <- ProtoReplies
  SerialTenants <- MCSerialAll
  MappingTenants <- MCTenants
SYMMETRY Symmetry3
SPECIFICATION Spec
INVARIANT HandlesWriteOwnRegions
