---------------------------- MODULE FreedClusters ----------------------------
(***************************************************************************)
(* Clusters that were freed but must not be used yet, and the search for   *)
(* free clusters that has to leave them alone                              *)
(* (rtfsfailsafe/prfsjournal.c, rtfspro/rtfreemanager.c,                   *)
(* rtfscommon/source/rtfatdrvwr.c).                                        *)
(*                                                                         *)
(* File data does not go through the journal.  A cluster that a file of    *)
(* the last synchronized volume still owns may therefore not be written    *)
(* before the transaction that freed it has been restored: until then it   *)
(* is kept in one of three lists of fragments, which come from the pool    *)
(* the free manager lives on.  The free manager does not know such         *)
(* clusters.  When it has run out of fragments it is closed, and           *)
(* the FAT is searched instead, where they are free: the search has to     *)
(* step over the lists, and over the clusters the journal lies in.         *)
(***************************************************************************)
EXTENDS FreeManager

CONSTANTS
    JournalStart,    \* the journal lies in free clusters from here on,
    JournalClusters, \* that many at first; 0: in reserved sectors
    MaxRequest       \* bound: clusters asked for or freed at a time

ASSUME FreedAssumption ==
    /\ JournalStart \in 2 .. LastCluster /\ JournalClusters \in Nat
    /\ JournalStart + JournalClusters - 1 <= LastCluster
    /\ MaxRequest \in Nat \ {0}

VARIABLES
    in_use,               \* clusters whose FAT entry is not zero
    open_free_fragments, flushed_free_fragments, restoring_free_fragments,
    nv_reserved_fragment, \* where the journal is, a list of one fragment or none
    known_free_clusters,
    \* Auxiliary: the clusters in use on the volume, in the restore that is
    \* running and in the last commit.
    on_volume, being_restored, committed

freedVars == <<open_free_fragments, flushed_free_fragments, restoring_free_fragments>>
diskVars == <<on_volume, being_restored, committed>>
vars == <<in_use, managerVars, freedVars, nv_reserved_fragment, known_free_clusters,
          diskVars>>

FreedFragments == open_free_fragments \o flushed_free_fragments \o restoring_free_fragments
Freed == In(FreedFragments)

-----------------------------------------------------------------------------
(* The search *)

\* find_first_free: walks a list that is taken to be in order.
FindFirstFree(list, start) ==
    LET walk[i \in 1 .. Len(list) + 1, c \in 2 .. LastCluster + 1] ==
            IF i > Len(list) THEN c
            ELSE IF list[i].start > c THEN c
            ELSE walk[i + 1, IF list[i].end >= c THEN list[i].end + 1 ELSE c]
    IN  walk[1, start]

\* exclude_first_occupied
ExcludeFirstOccupied(list, start, end) ==
    LET stops == {i \in 1 .. Len(list) : list[i].start > end \/ list[i].start >= start}
    IN  IF stops = {} THEN end ELSE Smaller(end, list[Least(stops)].start - 1)

FirstNotReserved(start) ==
    FindFirstFree(nv_reserved_fragment,
        FindFirstFree(restoring_free_fragments,
            FindFirstFree(flushed_free_fragments, FindFirstFree(open_free_fragments, start))))
\* Variant: the stretch to search does not end in front of the journal.
FirstReservedButJournal(start, end) ==
    ExcludeFirstOccupied(restoring_free_fragments, start,
        ExcludeFirstOccupied(flushed_free_fragments, start,
            ExcludeFirstOccupied(open_free_fragments, start, end)))
FirstReserved(start, end) ==
    ExcludeFirstOccupied(nv_reserved_fragment, start,
        ExcludeFirstOccupied(restoring_free_fragments, start,
            ExcludeFirstOccupied(flushed_free_fragments, start,
                ExcludeFirstOccupied(open_free_fragments, start, end))))

\* free_fallback_find_contiguous_free_clusters
FallbackFind(start, end, min, max) ==
    LET in_fat(first, last) == FirstRun(Clusters \ in_use, first, last, min, max)
        search[from \in start .. LastCluster + 1] ==
            IF from > end THEN NoRun
            ELSE LET last == FirstReserved(from, end)
                     found == in_fat(from, last)
                 IN  IF from + min - 1 <= last /\ found # NoRun THEN found
                     ELSE search[FirstNotReserved(last + 1)]
    IN  search[FirstNotReserved(start)]

FindClusters(start, min, max) ==
    IF managing THEN ManagerFind(Manager, start, LastCluster, min, max)
    ELSE FallbackFind(start, LastCluster, min, max)

-----------------------------------------------------------------------------

\* fatop_check_freespace on an empty volume, and the claim for a new journal
\* (failsafe_create_nv_buffer)
Init ==
    LET attached == [open |-> TRUE, table |-> [s \in Slots |-> <<>>], pool |-> NRegions]
        scanned == ReleaseClusters(attached, 2, LastCluster - 1)
        m == ClaimClusters(scanned, JournalStart, JournalClusters)
    IN  /\ in_use = {}
        /\ managing = m.open /\ hash_tbl = m.table /\ region_buffers_free = m.pool
        /\ open_free_fragments = <<>> /\ flushed_free_fragments = <<>>
        /\ restoring_free_fragments = <<>>
        /\ nv_reserved_fragment = (IF JournalClusters = 0 THEN <<>>
                                   ELSE <<Fragment(JournalStart, JournalClusters)>>)
        /\ known_free_clusters = Cardinality(Clusters)
        /\ on_volume = {} /\ being_restored = {} /\ committed = {}

Requests == {r \in (1 .. MaxRequest) \X (1 .. MaxRequest) : r[1] <= r[2]}

\* fatop_alloc_chain, fatop_remove_free_region
Allocate ==
    \E start \in Clusters : \E r \in Requests :
        LET found == FindClusters(start, r[1], r[2])
        IN  /\ found # NoRun
            /\ in_use' = in_use \union (found.at .. found.at + found.n - 1)
            /\ Becomes(ClaimClusters(Manager, found.at, found.n))
            /\ known_free_clusters' = known_free_clusters - found.n
            /\ UNCHANGED <<freedVars, nv_reserved_fragment, diskVars>>

\* Variant: the fragment takes the place of its neighbour.
FoldOver(list, i, c, n) == [list EXCEPT ![i] = Fragment(c, n)]
Fold(list, i, c, n) ==
    IF list[i].start = c + n THEN [list EXCEPT ![i].start = c]
    ELSE [list EXCEPT ![i].end = c + n - 1]

\* fs_add_free_region: a range next to a queued one is folded into it, another one
\* takes a fragment of its own.
Neighbours(list, c, n) == {i \in 1 .. Len(list) : list[i].start = c + n \/ list[i].end = c - 1}
Queued(list, c, n) ==
    LET next == Neighbours(list, c, n)
    IN  IF next = {} THEN <<Fragment(c, n)>> \o list ELSE Fold(list, Least(next), c, n)
RoomFor(list, c, n) ==
    IF Neighbours(list, c, n) # {} THEN Manager ELSE MakeRoom(Manager)

\* Variant: the free manager gets the clusters back at once.
ReleasedAtOnce(m, c, n) == ReleaseClusters(m, c, n)
KeptBack(m, c, n) == m

\* fatop_link_frag when clusters are unlinked; without a fragment it fails, and
\* the FAT stays as it is.
Free ==
    \E c \in Clusters : \E n \in 1 .. MaxRequest :
        LET list == Queued(open_free_fragments, c, n)
            m == RoomFor(open_free_fragments, c, n)
            added == Len(list) - Len(open_free_fragments)
            done == added <= m.pool
        IN  /\ c .. c + n - 1 \subseteq in_use
            /\ Becomes(IF done THEN KeptBack([m EXCEPT !.pool = @ - added], c, n) ELSE m)
            /\ in_use' = IF done THEN in_use \ (c .. c + n - 1) ELSE in_use
            /\ open_free_fragments' = IF done THEN list ELSE open_free_fragments
            /\ UNCHANGED <<flushed_free_fragments, restoring_free_fragments,
                           nv_reserved_fragment, known_free_clusters, diskVars>>

\* free_manager_revert: a file needs a fragment and there is none left.
Revert ==
    /\ region_buffers_free = 0 /\ managing
    /\ Becomes(MakeRoom(Manager))
    /\ UNCHANGED <<in_use, freedVars, nv_reserved_fragment, known_free_clusters, diskVars>>

\* fs_flush_current_session
Commit ==
    /\ committed # in_use \/ open_free_fragments # <<>>
    /\ flushed_free_fragments' = open_free_fragments \o flushed_free_fragments
    /\ open_free_fragments' = <<>>
    /\ committed' = in_use
    /\ UNCHANGED <<in_use, managerVars, restoring_free_fragments, nv_reserved_fragment,
                   known_free_clusters, on_volume, being_restored>>

\* fs_restore_from_session_start
RestoreStart ==
    /\ restoring_free_fragments = <<>> /\ being_restored = on_volume
    /\ committed # on_volume \/ flushed_free_fragments # <<>>
    /\ restoring_free_fragments' = flushed_free_fragments /\ flushed_free_fragments' = <<>>
    /\ being_restored' = committed
    /\ UNCHANGED <<in_use, managerVars, open_free_fragments, nv_reserved_fragment,
                   known_free_clusters, on_volume, committed>>

\* fs_restore_from_session_complete
RestoreComplete ==
    /\ restoring_free_fragments # <<>> \/ being_restored # on_volume
    /\ known_free_clusters' = known_free_clusters + Size(restoring_free_fragments)
    /\ Becomes(ReleaseList(Manager, restoring_free_fragments))
    /\ restoring_free_fragments' = <<>>
    /\ on_volume' = being_restored
    /\ UNCHANGED <<in_use, open_free_fragments, flushed_free_fragments,
                   nv_reserved_fragment, being_restored, committed>>

\* fs_recover_free_clusters, when a request has found nothing: commit and
\* restore all there is; if that frees too little, give up part of the journal.
Shortage(required) ==
    IF Size(FreedFragments) >= required THEN 0 ELSE required - Size(FreedFragments)
Shrunk(required) ==
    IF nv_reserved_fragment = <<>> \/ Size(nv_reserved_fragment) <= Shortage(required)
    THEN nv_reserved_fragment
    ELSE <<Fragment(nv_reserved_fragment[1].start,
                    Size(nv_reserved_fragment) - Shortage(required))>>

Recovered(required) ==
    LET restored == ReleaseList(ReleaseList(Manager, restoring_free_fragments),
                                open_free_fragments \o flushed_free_fragments)
        given_up == Size(nv_reserved_fragment) - Size(Shrunk(required))
    IN  IF given_up = 0 THEN restored
        ELSE ReleaseClusters(restored, Shrunk(required)[1].end + 1, given_up)

RecoverFreeClusters ==
    \E required \in 1 .. MaxRequest :
        /\ FindClusters(2, required, required) = NoRun
        /\ known_free_clusters' = known_free_clusters + Size(FreedFragments)
        /\ nv_reserved_fragment' = Shrunk(required)
        /\ Becomes(Recovered(required))
        /\ open_free_fragments' = <<>> /\ flushed_free_fragments' = <<>>
        /\ restoring_free_fragments' = <<>>
        /\ on_volume' = in_use /\ being_restored' = in_use /\ committed' = in_use
        /\ UNCHANGED in_use

Next ==
    \/ Allocate \/ Free \/ Revert
    \/ Commit \/ RestoreStart \/ RestoreComplete
    \/ RecoverFreeClusters

Spec == Init /\ [][Next]_vars

-----------------------------------------------------------------------------
(* Properties *)

Allocated == in_use' \ in_use

\* The clusters of files of a state a crash may bring back: of the volume, of the
\* restore that is running, of the last commit.
Needed == on_volume \union being_restored \union committed

\* None of them is handed out while the free manager is open: it gets freed
\* clusters back when their transaction is restored, and no earlier.
\* (failsafe_first_not_reserved: "exclude clusters that were freed but can't be
\* used because they are not synchronized")
ManagerReusesSynchronizedOnly == [][managing => Allocated \intersect Needed = {}]_vars

\* No file gets a cluster of the journal, whoever does the searching.
JournalSpaceIsSafe == [][Allocated \intersect In(nv_reserved_fragment) = {}]_vars

\* No free cluster is lost and none is in two places: each is with the free
\* manager, in one fragment of one list, or the journal's; and the count of free
\* clusters is that of the clusters that are not waiting. The free manager's lists
\* are in order, and of the pool no fragment is lost or in two lists.
FreeSpaceAccounted ==
    /\ ListsAreInOrder(Len(FreedFragments))
    /\ managing =>
        /\ Managed \union Freed \union In(nv_reserved_fragment) = Clusters \ in_use
        /\ Cardinality(Managed) + Size(nv_reserved_fragment) + Size(FreedFragments)
           = Cardinality(Clusters \ in_use)
        /\ known_free_clusters = Cardinality(Managed) + Size(nv_reserved_fragment)
=============================================================================
