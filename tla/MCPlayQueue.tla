----------------------------- MODULE MCPlayQueue -----------------------------
(* An instance of PlayQueue for TLC. *)
EXTENDS PlayQueue, TLC

CONSTANTS a, b, c

MCVideoIds == {a, b, c}
MCPlayable == {a, b}

\* Singles, a pair with one id twice, and one block longer than the cap.
MCBlocks == {<<>>, <<a>>, <<b>>, <<c, a>>, <<a, a>>, <<a, b, c, a>>}

Snap(songs, order, cursor, shuffle, repeat) ==
  [songs |-> songs, order |-> order, cursor |-> cursor,
   shuffle |-> shuffle, repeat |-> repeat]

\* A sound snapshot; a duplicate index; too many tracks; a cursor out of range.
MCSnapshots ==
  {Snap(<<a, b, c>>, <<3, 1, 2>>, 2, TRUE, "All"),
   Snap(<<a, b, c>>, <<1, 1, 3>>, 3, TRUE, "Off"),
   Snap(<<a, b, c, a>>, <<4, 3, 2, 1>>, 4, FALSE, "One"),
   Snap(<<b, c>>, <<2, 1>>, 9, FALSE, "Off"),
   Snap(<<>>, <<1>>, 3, FALSE, "Off")}
=============================================================================
