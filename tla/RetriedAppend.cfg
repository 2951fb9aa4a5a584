CONSTANTS
  p = p
  q = q
  Free = Free
  Processes <- OneProcess
  Lanes <- OneLane
  Aging = {"lastfm"}
  QueueCap = 1
  ExactCap = 2
  BatchMax = 1
  AppendFaults = {"after"}
  MaxListens = 2
  MaxFaults = 2
SPECIFICATION Spec
INVARIANT RetriedAppendIsOneLine

CHECK_DEADLOCK FALSE
