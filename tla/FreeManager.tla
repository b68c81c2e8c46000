----------------------------- MODULE FreeManager -----------------------------
(***************************************************************************)
(* The free manager (rtfspro/rtfreemanager.c) and the lists of fragments   *)
(* it is made of (FragmentLists).                                          *)
(*                                                                         *)
(* The clusters that may be allocated are kept in memory as fragments,     *)
(* first and last cluster of a stretch.  The volume is cut into slots of   *)
(* the same size with a list of fragments each, so that a stretch that     *)
(* crosses from one slot into the next is two fragments and the search has *)
(* to join them again.  Fragments come from one pool that files and        *)
(* Failsafe use too; when it is empty the manager gives all of its own     *)
(* back and stays closed (free_manager_revert).                            *)
(***************************************************************************)
EXTENDS FragmentLists

CONSTANTS
    LastCluster,   \* maxfindex
    NSlots,        \* RTFS_FREE_MANAGER_HASHSIZE
    NRegions       \* fragments in the pool

VARIABLES
    managing,            \* free_ctxt_cluster_shifter # 0
    hash_tbl,            \* a list of fragments for each slot
    region_buffers_free  \* fragments left in the pool

managerVars == <<managing, hash_tbl, region_buffers_free>>
Manager == [open |-> managing, table |-> hash_tbl, pool |-> region_buffers_free]
Becomes(m) ==
    managing' = m.open /\ hash_tbl' = m.table /\ region_buffers_free' = m.pool

Clusters == 2 .. LastCluster
Slots == 0 .. NSlots - 1

\* free_manager_attach: maxfindex rounded up to a power of two, in equal slots.
ClusterRange == Least({2 ^ k : k \in 0 .. LastCluster} \ 0 .. LastCluster - 1)
SlotSize == ClusterRange \div NSlots
SlotOf(c) == c \div SlotSize

\* A slot of one cluster would read as "closed", and the last cluster of a volume
\* whose maxfindex is a power of two has no slot: such volumes are left out.
ASSUME FreeManagerAssumption ==
    /\ LastCluster \in Nat /\ LastCluster >= 2 /\ NSlots \in Nat \ {0} /\ NRegions \in Nat
    /\ SlotSize > 1 /\ SlotOf(LastCluster) \in Slots

-----------------------------------------------------------------------------
(* Claiming and releasing *)

\* free_manager_close
Closed(m) ==
    [open |-> FALSE, table |-> [s \in Slots |-> <<>>],
     pool |-> m.pool + FoldLeft(LAMBDA n, s : n + Len(m.table[s - 1]), 0, [s \in 1 .. NSlots |-> s])]

\* One slot's part of free_manager_edit_freelist: a fragment too many for the pool
\* closes the manager.
EditSlot(m, s, first, last, adding) ==
    LET from == Larger(first, s * SlotSize)
        to == Smaller(last, (s + 1) * SlotSize - 1)
        list == IF adding THEN SetRange(m.table[s], from, to) ELSE ClearRange(m.table[s], from, to)
    IN  IF ~m.open \/ from > to THEN m
        ELSE IF Len(list) > Len(m.table[s]) + m.pool THEN Closed(m)
        ELSE [m EXCEPT !.table[s] = list, !.pool = @ + Len(m.table[s]) - Len(list)]

EditFreelist(m, c, n, adding) ==
    FoldLeft(LAMBDA done, s : EditSlot(done, s - 1, c, c + n - 1, adding), m, [s \in 1 .. NSlots |-> s])

ReleaseClusters(m, c, n) == EditFreelist(m, c, n, TRUE)
ClaimClusters(m, c, n) == EditFreelist(m, c, n, FALSE)

\* fatop_add_free_region for each fragment of a list, then pc_fraglist_free_list
ReleaseList(m, list) ==
    LET released == FoldLeft(LAMBDA done, f : ReleaseClusters(done, f.start, f.end - f.start + 1), m, list)
    IN  [released EXCEPT !.pool = @ + Len(list)]

\* pc_fraglist_frag_alloc for somebody else: the manager makes room if it has to.
MakeRoom(m) == IF m.pool = 0 /\ m.open THEN Closed(m) ELSE m

-----------------------------------------------------------------------------
(* Searching *)

Fragments(m) == FlattenSeq([s \in 1 .. NSlots |-> m.table[s - 1]])
Managed == In(Fragments(Manager))

\* Variant: fragments of different slots are not joined.
FollowsNever(g, f) == FALSE
\* free_manager_find_contiguous_free_clusters: a fragment at the end of its slot
\* goes on with the first of the next.  The stretch found ends with its slot.
Follows(g, f) == f.start = g.end + 1 /\ SlotOf(f.start) # SlotOf(g.end)
ManagerFind(m, start, end, min, max) ==
    LET tried == SelectSeq(Fragments(m), LAMBDA f : f.end >= start)
        from[i \in 1 .. Len(tried)] ==
            IF i > 1 /\ Follows(tried[IF i > 1 THEN i - 1 ELSE i], tried[i]) THEN from[i - 1]
            ELSE Larger(start, tried[i].start)
        size(i) == Smaller(end, tried[i].end) + 1 - from[i]
        fits == {i \in 1 .. Len(tried) : tried[i].start <= end /\ size(i) >= min}
    IN  IF end < start \/ start + min - 1 > LastCluster \/ fits = {} THEN NoRun
        ELSE [at |-> from[Least(fits)],
              n |-> Smaller(size(Least(fits)), Smaller(max, end - start + 1))]

\* free_manager_count_frags
CountFrags(m) ==
    LET counted[c \in 2 .. LastCluster + 1, next \in 0 .. LastCluster + 1] ==
            LET found == ManagerFind(m, c, LastCluster, 1, LastCluster - 1)
                after == found.at + found.n
            IN  IF c > LastCluster \/ found = NoRun THEN 0
                ELSE counted[after, after] + (IF found.at = next THEN 0 ELSE 1)
    IN  counted[2, 0]

-----------------------------------------------------------------------------
(* Properties *)

\* The lists are what every search takes them for: each fragment lies in its slot,
\* fragments of a slot are in order with a gap between them, and none of the pool
\* is lost or used twice ("used": the fragments somebody else has).
ListsAreInOrder(used) ==
    /\ \A s \in Slots : \A i \in 1 .. Len(hash_tbl[s]) :
           LET f == hash_tbl[s][i]
           IN  /\ 2 <= f.start /\ f.start <= f.end /\ f.end <= LastCluster
               /\ SlotOf(f.start) = s /\ SlotOf(f.end) = s
               /\ i > 1 => hash_tbl[s][i - 1].end + 1 < f.start
    /\ region_buffers_free + Len(Fragments(Manager)) + used = NRegions

\* The search answers as if there were no slots: it starts where the first stretch
\* that is long enough starts, and what it gives out is part of that stretch
\* ("Return at the first cluster where at least min_clusters contiguous free
\* clusters are available"); counting comes to the number of stretches.
SearchIgnoresSlots ==
    managing =>
        /\ \A start, end \in Clusters : \A min, max \in 1 .. 3 :
               LET found == ManagerFind(Manager, start, end, min, max)
                   first == FirstRun(Managed, start, end, min, max)
               IN  start <= end /\ min <= max =>
                       found.at = first.at /\ found.n <= first.n /\ (found # NoRun => found.n >= min)
        /\ CountFrags(Manager) = Cardinality({c \in Managed : c - 1 \notin Managed})
=============================================================================
