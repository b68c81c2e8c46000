---------------------------- MODULE MCAsyncEngine ----------------------------
(* Two files, one of them open to begin with, and stages of two passes. *)
EXTENDS AsyncEngine, TLC
CONSTANTS f1, f2
MCFiles == {f1, f2}
MCOpenFiles == {f1}
=============================================================================
