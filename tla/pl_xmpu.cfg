SPECIFICATION Spec
CONSTANTS
  RegionsMax = {1, 2}
  PAGE_NUMBERS = 64
  SIZE_MAX = 16
  NumInstances = 1
  Knobs <- MCKnobs
  MaxEdits = 2
  MaxGiven = 1
  BRAM = 16
  MaxLoads = 2
  Requests <- MCRequests
  MaxIpis = 1
  MaxEarly = 1
INVARIANTS
  FaultInjectionTypeOK
  EnabledRegionsAreWhole
  ProtectedAsConfigured
  VerdictsMatchRegions
  PoisonRestored
  FeaturesAreSupported
PROPERTIES
  ConfiguredEventually
  ViolationsAreServed
  NothingClearedUnseen
CHECK_DEADLOCK FALSE
