------------------------- MODULE MCPlayerLifecycle -------------------------
(* Two songs, three intents: a restart can meet a paused and a playing song *)
(* and an intent deferred behind either.                                    *)
EXTENDS PlayerLifecycle

CONSTANTS s1, s2

TwoSongs == {s1, s2}

=============================================================================
