\* Launches or operator's runs, two missions, two credentials, one fault.
SPECIFICATION Spec
SYMMETRY Symmetry
CONSTANTS
  Runs = {r1, r2}
  MissionCount = 2
  MaxTurns = 1
  Multiplier = 2
  RetryPercent = 0
  ThrottleLimit = 2
  Keys = 2
  Policies <- SmallPolicies
  Window = 0
  MaxNow = 1
  MaxFaults = 1
  None = None
INVARIANTS
  SpendingIsAccounted
  ProviderIsShared
CHECK_DEADLOCK FALSE
