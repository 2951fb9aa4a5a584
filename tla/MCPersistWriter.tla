-------------------------- MODULE MCPersistWriter ---------------------------
(* Instance of PersistWriter for TLC: three snapshots, over any number of  *)
(* processes, two failed replacements, and a loss of power until the       *)
(* second of them.                                                         *)
EXTENDS PersistWriter
=============================================================================
