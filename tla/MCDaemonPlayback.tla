-------------------------- MODULE MCDaemonPlayback --------------------------
(* Instances of DaemonPlayback for TLC; track x never loads. *)
EXTENDS DaemonPlayback, TLC

CONSTANTS a, b, x

Snap(songs, cursor, repeat) ==
  [songs |-> songs, order |-> [i \in DOMAIN songs |-> i], cursor |-> cursor,
   shuffle |-> FALSE, repeat |-> repeat]

\* Two tracks, one of which a session holds and one that is added.
TwoIds == {a, b}
OneAdded == {<<b>>}
OneKept == {Snap(<<a>>, 1, "Off")}

\* A session of two tracks under repeat-all, one never playable; nothing is added.
MixedIds == {a, x}
OnlyA == {a}
NoBlocks == {}
MixedKept == {Snap(<<a, x>>, 1, "All")}

\* A session of two tracks.
PairKept == {Snap(<<a, b>>, 1, "Off")}
=============================================================================
