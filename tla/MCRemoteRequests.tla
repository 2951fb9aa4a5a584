-------------------------- MODULE MCRemoteRequests --------------------------
(* Instance of RemoteRequests for TLC: two clients, one that repeats its   *)
(* command and one that does not, with one identity or two, and room for   *)
(* one compact outcome and one large one.                                  *)
EXTENDS RemoteRequests, TLC

MCSymmetry == Permutations(Keys)
=============================================================================
