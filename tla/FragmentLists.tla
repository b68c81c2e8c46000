---------------------------- MODULE FragmentLists ----------------------------
(***************************************************************************)
(* Lists of fragments (rtfspro/rtfragmtwr.c, rtfscommon/source/            *)
(* rtfragmtrd.c, rtfsproplus/prfragmtrd.c): first and last cluster of each *)
(* stretch.  The free manager keeps its free clusters in such lists in     *)
(* order of the clusters, extended files their own in order of the file.   *)
(***************************************************************************)
EXTENDS Naturals, FiniteSets, Sequences, SequencesExt

Least(S) == CHOOSE x \in S : \A y \in S : x <= y
Smaller(a, b) == IF a < b THEN a ELSE b
Larger(a, b) == IF a < b THEN b ELSE a

Fragment(first, n) == [start |-> first, end |-> first + n - 1]
Stretch(first, last) == IF first > last THEN <<>> ELSE <<[start |-> first, end |-> last]>>
In(list) == UNION {list[i].start .. list[i].end : i \in 1 .. Len(list)}

\* pc_fraglist_count_clusters
Size(list) == FoldLeft(LAMBDA sum, f : sum + (f.end - f.start + 1), 0, list)

\* The clusters in the order of the list.
InOrder(list) ==
    FlattenSeq([i \in 1 .. Len(list) |-> [k \in 1 .. list[i].end - list[i].start + 1 |-> list[i].start + k - 1]])

-----------------------------------------------------------------------------
(* Lists in order of the clusters *)

\* pc_fraglist_set_range: the fragments the range meets or touches become one.
SetRange(list, first, last) ==
    LET joined == SelectSeq(list, LAMBDA f : f.start <= last + 1 /\ first <= f.end + 1)
    IN  SelectSeq(list, LAMBDA f : f.end + 1 < first)
        \o (IF joined = <<>> THEN Stretch(first, last)
            ELSE Stretch(Smaller(first, Head(joined).start), Larger(last, Last(joined).end)))
        \o SelectSeq(list, LAMBDA f : f.start > last + 1)

\* pc_fraglist_clear_range: what is left of each fragment on both sides.
ClearRange(list, first, last) ==
    FlattenSeq([i \in 1 .. Len(list) |->
        Stretch(list[i].start, Smaller(list[i].end, first - 1))
        \o Stretch(Larger(list[i].start, last + 1), list[i].end)])

NoRun == [at |-> 0, n |-> 0]

\* The first stretch of at least min free clusters within first .. last: what a
\* search of the free clusters is asked for.
FirstRun(free, first, last, min, max) ==
    LET fits == {c \in first .. last : /\ c \in free /\ (c = first \/ c - 1 \notin free)
                                       /\ c + min - 1 <= last /\ c .. c + min - 1 \subseteq free}
        at == Least(fits)
    IN  IF fits = {} THEN NoRun
        ELSE [at |-> at,
              n |-> CHOOSE n \in min .. max :
                       /\ at + n - 1 <= last /\ at .. at + n - 1 \subseteq free
                       /\ n = max \/ at + n > last \/ at + n \notin free]

-----------------------------------------------------------------------------
(* Lists in order of a file *)

\* A fragment that goes on where the list ends becomes part of its last one.
Join(list, more) ==
    IF list # <<>> /\ more # <<>> /\ Last(list).end + 1 = Head(more).start
    THEN Front(list) \o <<[start |-> Last(list).start, end |-> Head(more).end]>> \o Tail(more)
    ELSE list \o more
FragmentsOf(clusters) == FoldLeft(LAMBDA list, c : Join(list, <<Fragment(c, 1)>>), <<>>, clusters)

\* pc_fraglist_split: the first n clusters, and the rest.
FirstClusters(list, n) ==
    FlattenSeq([i \in 1 .. Len(list) |->
        LET before == Size(SubSeq(list, 1, i - 1))
        IN  IF before >= n THEN <<>>
            ELSE Stretch(list[i].start, Smaller(list[i].end, list[i].start + n - before - 1))])
OtherClusters(list, n) ==
    FlattenSeq([i \in 1 .. Len(list) |->
        LET before == Size(SubSeq(list, 1, i - 1))
        IN  IF before >= n THEN <<list[i]>>
            ELSE Stretch(list[i].start + n - before, list[i].end)])
=============================================================================
