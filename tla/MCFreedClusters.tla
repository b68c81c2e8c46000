--------------------------- MODULE MCFreedClusters ---------------------------
(* FreedClusters for TLC. *)
EXTENDS FreedClusters
=============================================================================
