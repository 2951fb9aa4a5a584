CONSTANTS
  a = a
  b = b
  c = c
  NoSong = NoSong
  VideoIds <- MCVideoIds
  Playable <- MCPlayable
  Blocks <- MCBlocks
  Snapshots <- MCSnapshots
  MaxLen = 3
  MaxRev = 5
SPECIFICATION Spec
INVARIANTS QueueShape RemovalsAgree OneLapMeetsEveryTrack
PROPERTY EditsKeepThePlace
CHECK_DEADLOCK FALSE
