\* Two requests, two documents, an import and an operator, up to two launches.
SPECIFICATION Spec
CONSTANTS
  plain = plain
  odd = odd
  None = None
  Sessions = {s1, s2}
  Documents = {plain, odd}
  Doubtful = {odd}
  Garbled = {odd}
  Unreadable = {}
  Buildable = {plain}
  Contradicts <- Different
  Keys = {k1}
  Imports = {i1}
  MaxSnapshots = 2
  Fixtures = {plain}
  Drafts = {odd}
  MaxLaunches = 1
  MaxRuns = 1
SYMMETRY Symmetry
INVARIANTS
  NoLostEdit
  ImportIsItsSource
  PublishedIsReviewed
  LaunchMeasuresOneWorld
CHECK_DEADLOCK FALSE
