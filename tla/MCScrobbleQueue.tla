-------------------------- MODULE MCScrobbleQueue --------------------------
(* Instances of ScrobbleQueue for TLC. *)
EXTENDS ScrobbleQueue, TLC

CONSTANTS p, q

OneProcess == {p}
TwoProcesses == {p, q}
OneLane == <<"lastfm">>
TwoLanes == <<"lastfm", "listenbrainz">>
Symmetry == Permutations(Processes)
=============================================================================
