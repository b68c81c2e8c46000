----------------------------- MODULE MCFatPool -----------------------------
(* Three pages of four sectors, the last one cut short by the FAT's end. *)
EXTENDS FatPool

\* All clusters but the last, the tail of a page and the start of the next, and a cluster away from
\* where the others start, which leaves a gap between dirty sectors.
MCFrags == {<<2, 15>>, <<3, 6>>, <<6, 1>>}
=============================================================================
