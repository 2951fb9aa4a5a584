------------------------- MODULE MCTrackTransition -------------------------
(* An instance of TrackTransition for TLC: b is never playable. *)
EXTENDS TrackTransition, TLC

CONSTANTS a, b

MCVideoIds == {a, b}
MCPlayable == {a}
MCBlocks == {<<a>>, <<b, a>>}

Snap(songs, order, cursor, shuffle, repeat) ==
  [songs |-> songs, order |-> order, cursor |-> cursor,
   shuffle |-> shuffle, repeat |-> repeat]

MCSnapshots ==
  {Snap(<<a, b>>, <<2, 1>>, 2, TRUE, "All")}
=============================================================================
