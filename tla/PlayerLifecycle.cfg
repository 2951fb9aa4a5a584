CONSTANTS
  s1 = s1
  s2 = s2
  Songs <- TwoSongs
  NoSong = NoSong
  None = None
  MaxIntents = 4
SPECIFICATION FairSpec
INVARIANTS ShownIsPlayed NoStaleClose PlayersAreReaped
PROPERTIES DeferredSettles DeadIsNoticed
CHECK_DEADLOCK FALSE
