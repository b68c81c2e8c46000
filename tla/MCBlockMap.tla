----------------------------- MODULE MCBlockMap -----------------------------
(* BlockMap for TLC. *)
EXTENDS BlockMap
=============================================================================
