SPECIFICATION Spec
CONSTANTS
  RegionsMax = {2}
  PAGE_NUMBERS = 64
  SIZE_MAX = 16
  NumInstances = 1
  Knobs = {}
  MaxEdits = 0
  MaxGiven = 0
  BRAM = 16
  MaxLoads = 1
  Requests = {}
  MaxIpis = 0
  MaxEarly = 0
INVARIANTS
  VerdictsMatchAnnouncement
CHECK_DEADLOCK FALSE
