CONSTANTS
  a = a
  b = b
  x = x
  NoSong = NoSong
  NoPlayer = NoPlayer
  VideoIds <- TwoIds
  Playable <- TwoIds
  Blocks <- OneAdded
  Snapshots <- OneKept
  ErrorClasses = {"other"}
  EditKinds = {}
  MaxLen = 2
  MaxErrors = 1
  MaxAttempts = 2
  MaxLives = 2
  MaxFiles = 2
  MaxFailures = 1
SPECIFICATION Spec
PROPERTY DelayedTerminalsAreRejected
CHECK_DEADLOCK FALSE
