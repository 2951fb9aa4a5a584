CONSTANTS
  a = a
  b = b
  NoSong = NoSong
  None = None
  VideoIds <- MCVideoIds
  Playable <- MCPlayable
  Blocks <- MCBlocks
  Snapshots <- MCSnapshots
  MaxLen = 3
  MaxRev = 3
SPECIFICATION TrackSpec
INVARIANTS LoadedIsCurrent PlanGuardIsExact
PROPERTY SwitchKeepsLiveQueue
CHECK_DEADLOCK FALSE
