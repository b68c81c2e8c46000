--------------------------- MODULE MCExtendedFiles ---------------------------
(* ExtendedFiles for TLC. *)
EXTENDS ExtendedFiles

CONSTANTS f1, f2

With(n, policy) == [minAlloc |-> n, policy |-> policy]

\* One file reserves in one piece, the other takes what it gets and keeps it.
MCOptions == f1 :> {With(2, {"ForceContiguous"})} @@ f2 :> {With(2, {"ForceFirst", "KeepPrealloc"})}
MCReservations == f1 :> {[cluster |-> 4, count |-> 0]} @@ f2 :> {}

\* One file reserves wherever there is space.
ScatteredOptions == f1 :> {With(2, {})} @@ f2 :> {With(1, {"FirstFit"})}
NoReservations == f1 :> {} @@ f2 :> {}

\* Until a file is flushed nothing looks at its directory entry, and the flush writes
\* all of it: states that differ in it alone are one.
Seen == <<free, fat, disk, file, [f \in Files |-> IF file[f].open /\ file[f].dirty THEN <<>> ELSE dir[f]]>>
=============================================================================
