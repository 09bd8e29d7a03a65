\* Two requests one after the other, two dispatchers, one fault.
SPECIFICATION FairSpec
CONSTANTS
  Launches = {l1, l2}
  Runs = {r1, r2, r3, r4, r5}
  Dispatchers = {w1, w2}
  Visitors = {v1}
  Missions = 2
  MaxFaults = 1
  None = None
INVARIANTS
  LaunchAgreesWithRun
  ShelfIsKept
  NobodyWalksAway
PROPERTIES
  HistoryIsFrozen
  QueuedEnds
CHECK_DEADLOCK FALSE
