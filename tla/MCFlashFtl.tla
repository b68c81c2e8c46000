----------------------------- MODULE MCFlashFtl -----------------------------
(* The flash translation layer, with a bound on the states to explore. *)
EXTENDS FlashFtl

\* One sector changes, one comes and goes, one is written once, one never.
MCContentsOf ==
    [s \in Sector |-> CASE s = 0 -> {1, 2} [] s = 1 -> {0, 1} [] s = 2 -> {1} [] OTHER -> {}]

\* Three of the four sectors are written, and one of them again.
MCFull == [s \in Sector |-> IF s = 0 THEN {1, 2} ELSE IF s < 3 THEN {1} ELSE {}]

\* A flash whose erase counts are all alike, and one that is levelled, whose power does not fail.
MCKinds == {[erases |-> 1, fails |-> TRUE], [erases |-> 3, fails |-> FALSE]}
MCCrashing == {[erases |-> 2, fails |-> TRUE]}

\* What a device does once a mount has mapped its own copies is not explored.
NotRecopied == ~recopied
=============================================================================
