CONSTANTS
  a = a
  b = b
  x = x
  NoSong = NoSong
  NoPlayer = NoPlayer
  VideoIds <- MixedIds
  Playable <- OnlyA
  Blocks <- NoBlocks
  Snapshots <- MixedKept
  ErrorClasses = {"format", "other"}
  EditKinds = {"clear"}
  MaxLen = 2
  MaxErrors = 1
  MaxAttempts = 2
  MaxLives = 4
  MaxFiles = 1
  MaxFailures = 3
SPECIFICATION LiveSpec
INVARIANT RestartsAreBounded
PROPERTIES HealSettles RecoverySettles
CHECK_DEADLOCK FALSE
