CONSTANTS
  p = p
  q = q
  Free = Free
  Processes <- TwoProcesses
  Lanes <- OneLane
  Aging = {"lastfm"}
  QueueCap = 1
  ExactCap = 1
  BatchMax = 1
  AppendFaults = {"torn", "after"}
  MaxListens = 2
  MaxFaults = 2
SPECIFICATION Spec
INVARIANTS TypeOK FiledIsNeverLost OnlyUncertaintyRepeats ExposedIsProtected SourceFollowsBridge ProtectedFit

SYMMETRY Symmetry
CHECK_DEADLOCK FALSE
