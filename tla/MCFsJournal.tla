----------------------------- MODULE MCFsJournal -----------------------------
(* FsJournal for TLC. *)
EXTENDS FsJournal
=============================================================================
