CONSTANTS
  t1 = t1
  t2 = t2
  w1 = w1
  w2 = w2
  h1 = h1
  h2 = h2
  h3 = h3
  sum = sum
  NumPRZones = 1
  ZoneIds <- MCZoneIds
  Bases <- MCBases
  Files <- MCFiles
  Tenants <- MCTenants
  AllowedBitstreams <- MCAllowed
  Handles <- MCHandles2
  Decouplers = {0}
  HardwareFaults = TRUE
  MaxOverlays <- One
  MaxBuffers <- Two
  MaxMemory <- Three
  UioDevices <- NoUio
  Workers <- MCWorkers
  AllowedZones <- MCAllowedZones
  BufferSizes <- MCBufferSizes
  Calls <- LoadAndCleanup
  BuildableReplies <- ProtoReplies
  SerialTenants <- MCSerialAll
  MappingTenants <- NoMappings
  N_PINS = 2
  MAP_WIDTH = 3
  C_S_AXI_DATA_WIDTH = 2
  LANE_WIDTH = 1
  WriteAddresses = {1, 3}
  ReadAddresses = {1}
  WriteData <- OnesAndZeros
  WriteStrobes <- AllLanesOrOne
  AddressFirst = TRUE
  NoWrite = NoWrite
  NoRead = NoRead
SPECIFICATION LiveSpec
INVARIANTS
  RegistersHoldTheWrites
  ReadsSeeTheWrites
  OneResponseEach
PROPERTIES
  LockIsReleased
  TransfersComplete
