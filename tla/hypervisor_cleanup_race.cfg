CONSTANTS
  t1 = t1
  t2 = t2
  w1 = w1
  w2 = w2
  h1 = h1
  h2 = h2
  h3 = h3
  sum = sum
  NumPRZones = 2
  ZoneIds <- MCZoneIds
  Bases <- MCBases
  Files <- MCFiles
  Tenants <- MCTenants
  AllowedBitstreams <- MCAllowed
  Handles <- MCHandles3
  Decouplers <- MCDecouplers
  HardwareFaults = TRUE
  MaxOverlays <- Two
  MaxBuffers <- Two
  MaxMemory <- Three
  UioDevices <- NoUio
  Workers <- MCWorkers
  AllowedZones <- MCAllowedZones
  BufferSizes <- MCBufferSizes
  Calls <- LoadAndCleanup
  BuildableReplies <- ProtoReplies
  SerialTenants <- MCSerialAll
  MappingTenants <- NoMappings
SYMMETRY Symmetry3
SPECIFICATION Spec
PROPERTY CleanupAlwaysCleans
