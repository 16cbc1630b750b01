SPECIFICATION DriversSpec
CONSTANTS
  Tenants = {alice, bob}
  Blocks = {b1, b2}
  CLEARS_FREED = FALSE
  MAX_DEVICES = 2
  PAGE_SIZE = 4096
  Handles = {h1, h2}
  Sizes = {1, 5000}
  OneElement = {1}
  MaxListed = 2
  MaxAreas = 1
  Writers = {w1, w2}
  Names = {n1, n2}
  OtherMinors = {1}
  MaxMinor = 2
  MaxCreates = 3
SYMMETRY MCSymmetry
INVARIANTS
  WindowsAreApart
  OnlyTheExitLoses
  DevicesAreDistinct
PROPERTIES
  MmapReachesOwnBuffer
CHECK_DEADLOCK FALSE
