CONSTANTS
  N_PINS = 2
  MAP_WIDTH = 3
  C_S_AXI_DATA_WIDTH = 2
  LANE_WIDTH = 1
  WriteAddresses = {0, 1}
  ReadAddresses = {1}
  WriteData <- OnlyOnes
  WriteStrobes <- AllLanes
  AddressFirst = FALSE
  NoWrite = NoWrite
  NoRead = NoRead
SPECIFICATION AXISpec
PROPERTIES
  WriteEnableNeedsAddress
