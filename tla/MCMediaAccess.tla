----------------------------- MODULE MCMediaAccess -----------------------------
\* MediaAccess with a card of one or two volumes, a thread with files and one that searches directories.
EXTENDS MediaAccess, TLC

CONSTANTS card, t1, t2, s1, s2

MCRequest == card :> [first |-> 0, fixed |-> FALSE, partitions |-> 2]
MCCalls == t1 :> {"Open", "Read", "Close"} @@ t2 :> {"First", "Next", "Done", "DiskClose"}
MCLetters == t1 :> {0} @@ t2 :> {0}

\* What the program does after a call has gone on with a letter that is not set up is not explored.
NotEarly == ~early
================================================================================
