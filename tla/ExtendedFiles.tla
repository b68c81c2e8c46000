---------------------------- MODULE ExtendedFiles ----------------------------
(***************************************************************************)
(* Extended files (rtfsproplus/prapiefird.c, prapiefiwr.c, prefi32*.c,     *)
(* prefinode*.c, preficomwr.c).                                            *)
(*                                                                         *)
(* An open file is a list of fragments in memory.  Writing takes clusters  *)
(* from free space at once, and reserves more of them than it needs, but   *)
(* the FAT learns of them when the file is flushed; clusters cut off wait  *)
(* in a second list for the flush to free them.  Closing gives back what   *)
(* was reserved and not used.  An asynchronous flush does its work a few   *)
(* clusters at a time while calls for other files go on.                   *)
(*                                                                         *)
(* A call holds the drive: each is one step.  Free space is the set of     *)
(* free clusters (SearchIgnoresSlots of FreedClusters allows that, here    *)
(* for a volume of one slot); the pool of fragments and the free manager   *)
(* do not run out, the volume is FAT16 or FAT32, without Failsafe.  A file *)
(* is open once; an unlinked file is one of size 0.                        *)
(***************************************************************************)
EXTENDS FragmentLists

CONSTANTS
    Files,
    LastCluster,      \* maxfindex
    BytesPerCluster,
    MaxSize,          \* longest file in the model
    Options,          \* what each file is opened with: minAlloc (clusters), policy
    WriteSizes,       \* bytes a write is asked for
    Reservations,     \* what each file asks of pc_efilio_setalloc: cluster, count
    PassClusters      \* max_clusters_per_pass

VARIABLES
    free,   \* clusters the free manager may give out
    fat,    \* the FAT: 0, the next cluster, or EndOfChain
    disk,   \* what is in each cluster
    dir,    \* size and first cluster in the directory entry
    file    \* the finode and the handle of a file that is open, or Closed

vars == <<free, fat, disk, dir, file>>

Policies == {"FirstFit", "ForceFirst", "ForceContiguous", "KeepPrealloc"}
ASSUME ExtendedFilesAssumption ==
    /\ LastCluster \in Nat /\ LastCluster >= 2 /\ BytesPerCluster \in Nat \ {0}
    /\ MaxSize \in Nat /\ PassClusters \in Nat \ {0} /\ WriteSizes \subseteq Nat
    /\ \A f \in Files : \A o \in Options[f] : o.minAlloc \in Nat \ {0} /\ o.policy \subseteq Policies

Clusters == 2 .. LastCluster
EndOfChain == 1
Closed == [open |-> FALSE]
Unwritten == <<>>
Written(f, i) == <<f, i>>

\* pc_byte2clmod
ClusterCount(bytes) == (bytes + BytesPerCluster - 1) \div BytesPerCluster
Capacity(o) == BytesPerCluster * Size(o.fragments)

Volume == [free |-> free, fat |-> fat, disk |-> disk, dir |-> dir, file |-> file]
Becomes(v) ==
    free' = v.free /\ fat' = v.fat /\ disk' = v.disk /\ dir' = v.dir /\ file' = v.file

-----------------------------------------------------------------------------
(* Space *)

\* pc_find_free_chain_in_fat_region: in one piece, or whatever is free.
InOnePiece(available, from, n) ==
    LET run == FirstRun(available, from, LastCluster, n, n)
    IN  IF run = NoRun THEN {} ELSE run.at .. run.at + n - 1
InPieces(available, from, n) ==
    LET later == {c \in available : c >= from}
    IN  IF Cardinality(later) < n THEN {} ELSE {c \in later : Cardinality({d \in later : d <= c}) <= n}

\* pc_region_file_find_free_chain
FindFreeChain(available, policy, hint, n) ==
    LET From(c) ==
            IF "ForceFirst" \in policy THEN InPieces(available, c, n)
            ELSE IF InOnePiece(available, c, n) # {} \/ "ForceContiguous" \in policy
                 THEN InOnePiece(available, c, n)
            ELSE InPieces(available, c, n)
        found == IF From(hint) # {} THEN From(hint) ELSE From(2)
    IN  FragmentsOf(SetToSortSeq(found, LAMBDA a, b : a < b))

\* Where a search for a file starts (_pc_efiliocom_find_free_clusters).
StartHint(o) ==
    IF o.hint # 0 THEN o.hint
    ELSE IF "FirstFit" \in o.policy \/ o.fragments = <<>> THEN 2
    ELSE Last(o.fragments).end

Blank == [k \in 1 .. BytesPerCluster |-> Unwritten]

\* fatop_add_free_region; whoever takes a cluster next knows nothing of what is in it.
Release(v, clusters) ==
    [v EXCEPT !.free = @ \cup clusters,
              !.disk = [c \in Clusters |-> IF c \in clusters THEN Blank ELSE @[c]]]
\* fatop_free_frag: the FAT entries are zeroed too.
FreeClusters(v, clusters) ==
    [Release(v, clusters) EXCEPT !.fat = [c \in Clusters |-> IF c \in clusters THEN 0 ELSE @[c]]]

\* Variant: the list of a file is kept in order of the clusters.
AppendSorted(v, f, list) ==
    LET o == v.file[f]
    IN  IF list = <<>> THEN v ELSE
        [v EXCEPT !.free = @ \ In(list),
                  !.file[f].fragments = FoldLeft(LAMBDA all, new : SetRange(all, new.start, new.end), @, list),
                  !.file[f].start = IF o.fragments = <<>> THEN Head(list).start ELSE @]
\* _pc_efiliocom_append_clusters
AppendClusters(v, f, list) ==
    LET o == v.file[f]
    IN  IF list = <<>> THEN v ELSE
        [v EXCEPT !.free = @ \ In(list),
                  !.file[f].fragments = Join(@, list),
                  !.file[f].start = IF o.fragments = <<>> THEN Head(list).start ELSE @]

-----------------------------------------------------------------------------
(* Reading and writing *)

\* _pc_efiliocom_io and the size after it: n bytes from byte number "from".
Put(v, f, from, n, data) ==
    LET o == v.file[f]
        at == InOrder(o.fragments)
        Byte(c, k) == (CHOOSE i \in 1 .. Len(at) : at[i] = c) * BytesPerCluster - BytesPerCluster + k
    IN  [v EXCEPT !.disk = [c \in Clusters |-> [k \in 1 .. BytesPerCluster |->
                               IF data /\ c \in In(o.fragments) /\ Byte(c, k) \in from + 1 .. from + n
                               THEN Written(f, Byte(c, k)) ELSE @[c][k]]],
                  !.file[f].size = Larger(@, from + n)]

\* Variant: clusters cut off before, and not yet freed, are forgotten.
ChangeSizeOnce(v, f, n) ==
    LET o == v.file[f]
        keep == ClusterCount(n)
        cut == Size(o.fragments) > keep
    IN  IF o.size <= n THEN v
        ELSE [v EXCEPT !.file[f] =
                 [o EXCEPT !.size = n, !.dirty = TRUE,
                           !.start = IF n = 0 THEN 0 ELSE @,
                           !.fragments = IF cut THEN FirstClusters(@, keep) ELSE @,
                           !.tofree = IF cut THEN OtherClusters(o.fragments, keep) ELSE @,
                           !.linked = IF cut THEN 0 ELSE @]]
\* _pc_efinode_chsize: clusters that are cut off wait for the flush, which links the
\* whole file again.
ChangeSize(v, f, n) ==
    LET o == v.file[f]
        keep == ClusterCount(n)
        cut == Size(o.fragments) > keep
    IN  IF o.size <= n THEN v
        ELSE [v EXCEPT !.file[f] =
                 [o EXCEPT !.size = n, !.dirty = TRUE,
                           !.start = IF n = 0 THEN 0 ELSE @,
                           !.fragments = IF cut THEN FirstClusters(@, keep) ELSE @,
                           !.tofree = IF cut THEN @ \o OtherClusters(o.fragments, keep) ELSE @,
                           !.linked = IF cut THEN 0 ELSE @]]

\* How many clusters a write has to take, and how many more it reserves.
Shortage(o, from, n) == Larger(n, Capacity(o) - from) - (Capacity(o) - from)
Needed(o, from, n) == ClusterCount(Shortage(o, from, n))
Reserved(o, from, n) ==
    LET least == o.minAlloc * BytesPerCluster
    IN  IF n = 0 THEN o.minAlloc
        ELSE IF o.minAlloc = 1 THEN 0
        ELSE ((Shortage(o, from, n) + least - 1) \div least) * o.minAlloc - Needed(o, from, n)

\* What PCE_FORCE_CONTIGUOUS asks for before anything is written: one piece for all.
\* Without it every place will do.
PiecesFrom(v, o, n, reserves) ==
    IF ~(reserves /\ "ForceContiguous" \in o.policy) THEN {StartHint(o)}
    ELSE LET here == FirstRun(v.free, StartHint(o), LastCluster, n, n)
             run == IF here = NoRun THEN FirstRun(v.free, 2, LastCluster, n, n) ELSE here
         IN  IF run = NoRun THEN {} ELSE {run.at}

\* _pc_efiliocom_write: space the file has first, then what is missing at once, then
\* what is reserved, which it does without if it must.
WriteFile(v, f, from, n, data) ==
    LET o == v.file[f]
        needed == Needed(o, from, n)
        reserved == Reserved(o, from, n)
        places == PiecesFrom(v, o, needed + reserved, n = 0 \/ o.minAlloc > 1)
        hint == Least(places)
        list == FindFreeChain(v.free, o.policy, hint, needed)
        within == Put(v, f, from, Smaller(n, Capacity(o) - from), data)
        written == Put(AppendClusters(within, f, list), f, from, n, data)
        after == IF "ForceContiguous" \in o.policy THEN hint ELSE StartHint(written.file[f])
        extra == FindFreeChain(written.free, o.policy, after, reserved)
    IN  IF n = 0 /\ Capacity(o) > from THEN [ok |-> TRUE, v |-> v]
        ELSE IF places = {} THEN [ok |-> FALSE, v |-> v]
        ELSE IF needed > 0 /\ list = <<>> THEN [ok |-> FALSE, v |-> within]
        ELSE [ok |-> TRUE,
              v |-> [AppendClusters(written, f, extra) EXCEPT
                        !.file[f].dirty = @ \/ data \/ from + n > o.size]]

\* pc_efilio_write, and pc_efilio_chsize for a file that grows
WriteOrGiveUp(v, f, from, n, data) ==
    LET result == WriteFile(v, f, from, n, data)
    IN  IF result.ok THEN result.v ELSE ChangeSize(result.v, f, v.file[f].size)

-----------------------------------------------------------------------------
(* Flushing, a number of clusters at a time (0: all of them) *)

PlaceOf(list, c) ==
    IF c = 0 THEN 0 ELSE CHOOSE i \in 1 .. Size(list) : InOrder(list)[i] = c
Limit(max, n) == IF max = 0 THEN n ELSE Smaller(max, n)

\* _pc_efinode_queue_cluster_links: PCE_KEEP_PREALLOC makes reserved space part of the
\* file.
QueueClusterLinks(o) ==
    [o EXCEPT !.todelete = IF o.tofree = <<>> THEN 0 ELSE IF o.deleted = 0 THEN Size(o.tofree) ELSE @,
              !.size = IF "KeepPrealloc" \in o.policy /\ o.fragments # <<>> /\ o.linked # Last(o.fragments).end
                       THEN Capacity(o) ELSE @]

\* pc_efinode_delete_cluster_chain
DeleteClusters(v, f, max) ==
    LET o == v.file[f]
        done == PlaceOf(o.tofree, o.deleted)
        n == Limit(max, o.todelete)
        gone == {InOrder(o.tofree)[i] : i \in done + 1 .. done + n}
    IN  [FreeClusters(v, gone) EXCEPT
                  !.file[f].tofree = IF n = o.todelete THEN <<>> ELSE @,
                  !.file[f].deleted = IF n = o.todelete THEN 0 ELSE InOrder(o.tofree)[done + n],
                  !.file[f].todelete = @ - n]

\* Variant: a chain never leaves its fragment.
LinkNextCluster(list, i, last) == IF i < last THEN InOrder(list)[i] + 1 ELSE EndOfChain
\* pc_frag_chain_delete_or_link: what the i-th cluster is linked to, when linking stops
\* at "last".  A fragment linked to its end points to the next one, if there is one.
Link(list, i, last) ==
    IF i < last \/ \E k \in 1 .. Len(list) - 1 : Size(SubSeq(list, 1, k)) = i
    THEN InOrder(list)[i + 1] ELSE EndOfChain

\* pc_efinode_link_or_delete_cluster_chain; when all is linked the directory entry
\* follows.
LinkClusters(v, f, max) ==
    LET o == v.file[f]
        at == InOrder(o.fragments)
        done == PlaceOf(o.fragments, o.linked)
        tolink == Larger(done, Smaller(Len(at), ClusterCount(o.size))) - done
        last == done + Limit(max, tolink)
        stays == done + 1 .. last
        changed == {at[i] : i \in IF last = done THEN {} ELSE stays \cup ({done} \ {0})}
        linked == [v EXCEPT !.fat = [c \in Clusters |->
                                        IF c \in changed THEN Link(o.fragments, PlaceOf(o.fragments, c), last) ELSE @[c]],
                            !.file[f].linked = IF last = done THEN @ ELSE at[last]]
    IN  IF last - done < tolink THEN linked
        ELSE [linked EXCEPT !.dir[f] = [size |-> o.size, start |-> o.start], !.file[f].dirty = FALSE]

\* _pc_efilio32_flush
FlushFile(v, f, max) ==
    LET queued == [v EXCEPT !.file[f] = QueueClusterLinks(@)]
        deletes == v.file[f].tofree # <<>>
    IN  IF ~v.file[f].dirty THEN v
        ELSE IF deletes /\ max # 0 THEN DeleteClusters(queued, f, max)
        ELSE IF deletes THEN LinkClusters(DeleteClusters(queued, f, max), f, max)
        ELSE LinkClusters(queued, f, max)

-----------------------------------------------------------------------------
(* Opening and closing *)

\* The chain that starts at c, and what stands where it ends.
Walk(table, c) ==
    LET at[i \in 1 .. LastCluster] ==
            IF i = 1 THEN c
            ELSE LET before == at[i - 1] IN IF before \in Clusters THEN table[before] ELSE before
    IN  at

\* pc_efinode_async_load_continue: the chain has to be as long as the file, not longer.
Loads(v, f) ==
    LET at == Walk(v.fat, v.dir[f].start)
        n == ClusterCount(v.dir[f].size)
    IN  n = 0 \/ ((\A i \in 1 .. n : at[i] \in Clusters) /\ at[n + 1] = EndOfChain)

\* _pc_efilio32_open, load_efinode_fragment_list
OpenFile(v, f, options) ==
    LET chain == SubSeq(Walk(v.fat, v.dir[f].start), 1, ClusterCount(v.dir[f].size))
    IN  [v EXCEPT !.file[f] =
            [open |-> TRUE, flushing |-> FALSE, dirty |-> FALSE, hint |-> 0,
             minAlloc |-> options.minAlloc, policy |-> options.policy,
             size |-> v.dir[f].size, start |-> v.dir[f].start,
             fragments |-> FragmentsOf(chain), linked |-> IF chain = <<>> THEN 0 ELSE Last(chain),
             tofree |-> <<>>, deleted |-> 0, todelete |-> 0]]

\* _pc_efinode_truncate_finode and the update of the directory entry
TruncateFile(v, f) ==
    IF v.file[f].size = 0 THEN v
    ELSE [FreeClusters(v, In(v.file[f].fragments)) EXCEPT
             !.dir[f] = [size |-> 0, start |-> 0],
             !.file[f] = [@ EXCEPT !.size = 0, !.start = 0, !.fragments = <<>>,
                               !.linked = 0, !.dirty = TRUE]]

\* _pc_efilio32_close, pc_free_efinode: what is reserved and not used is free again.
CloseFile(v, f) ==
    LET flushed == FlushFile(v, f, 0)
        o == flushed.file[f]
    IN  [Release(flushed, In(OtherClusters(o.fragments, ClusterCount(o.size)))) EXCEPT !.file[f] = Closed]

\* pc_rmnode: the chain is freed as far as it goes.
UnlinkFile(v, f) ==
    LET at == Walk(v.fat, v.dir[f].start)
    IN  [FreeClusters(v, {at[i] : i \in 1 .. LastCluster} \cap Clusters) EXCEPT
            !.dir[f] = [size |-> 0, start |-> 0]]

\* _pc_efilio_setalloc: a hint for the next search, or clusters for the file itself.
SetAllocation(v, f, r) ==
    LET hinted == [v EXCEPT !.file[f].hint = r.cluster]
        run == FirstRun(v.free, r.cluster, LastCluster, r.count, r.count)
        last == IF r.count = 0 THEN r.cluster ELSE r.cluster + r.count - 1
    IN  IF last > LastCluster THEN v
        ELSE IF r.count = 0 \/ run.at # r.cluster THEN hinted
        ELSE AppendClusters(hinted, f, <<Fragment(r.cluster, r.count)>>)

-----------------------------------------------------------------------------
(* Calls *)

Ready(f) == file[f].open /\ ~file[f].flushing

Open(f, options) ==
    /\ ~file[f].open /\ Loads(Volume, f)
    /\ Becomes(OpenFile(Volume, f, options))

\* PO_TRUNC
OpenTruncate(f, options) ==
    /\ ~file[f].open /\ Loads(Volume, f)
    /\ Becomes(TruncateFile(OpenFile(Volume, f, options), f))

Write(f, from, n) ==
    /\ Ready(f) /\ from <= file[f].size /\ from + n <= MaxSize
    /\ Becomes(WriteOrGiveUp(Volume, f, from, n, TRUE))

\* pc_efilio_chsize
SetSize(f, n) ==
    /\ Ready(f)
    /\ Becomes(IF n <= file[f].size THEN ChangeSize(Volume, f, n)
               ELSE WriteOrGiveUp(Volume, f, file[f].size, n - file[f].size, FALSE))

\* pc_efilio_setalloc does not ask whether the file is being flushed.
SetAlloc(f, r) == file[f].open /\ Becomes(SetAllocation(Volume, f, r))

Flush(f) == Ready(f) /\ Becomes(FlushFile(Volume, f, 0))

\* pc_efilio_async_flush_start
AsyncFlush(f) ==
    /\ Ready(f)
    /\ file' = [file EXCEPT ![f].flushing = TRUE]
    /\ UNCHANGED <<free, fat, disk, dir>>

\* pc_efilio_async_flush_continue
AsyncPass(f) ==
    LET flushed == FlushFile(Volume, f, PassClusters)
    IN  /\ file[f].open /\ file[f].flushing
        /\ Becomes([flushed EXCEPT !.file[f].flushing = flushed.file[f].dirty])

Close(f) == Ready(f) /\ Becomes(CloseFile(Volume, f))

\* pc_unlink
Unlink(f) == ~file[f].open /\ Becomes(UnlinkFile(Volume, f))

Init ==
    /\ free = Clusters
    /\ fat = [c \in Clusters |-> 0]
    /\ disk = [c \in Clusters |-> Blank]
    /\ dir = [f \in Files |-> [size |-> 0, start |-> 0]]
    /\ file = [f \in Files |-> Closed]

Next ==
    \E f \in Files :
        \/ \E options \in Options[f] : Open(f, options) \/ OpenTruncate(f, options)
        \/ \E from \in 0 .. MaxSize, n \in WriteSizes : Write(f, from, n)
        \/ \E n \in 0 .. MaxSize : SetSize(f, n)
        \/ \E r \in Reservations[f] : SetAlloc(f, r)
        \/ Flush(f) \/ AsyncFlush(f) \/ AsyncPass(f) \/ Close(f) \/ Unlink(f)

Spec == Init /\ [][Next]_vars

-----------------------------------------------------------------------------
(* Properties *)

ChainOf(f) ==
    LET at == Walk(fat, dir[f].start)
    IN  {at[i] : i \in 1 .. LastCluster} \cap Clusters
ToDelete(o) == {InOrder(o.tofree)[i] : i \in PlaceOf(o.tofree, o.deleted) + 1 .. Size(o.tofree)}
Holds(f) == IF file[f].open THEN In(file[f].fragments) \cup ToDelete(file[f]) ELSE ChainOf(f)

\* Every cluster is free or one file's, none is lost and none is two files': those a
\* file holds in memory, those it has still to free, and those a closed file's chain
\* leads to ("When the file is closed those clusters that were not consumed are
\* returned to free space"), at every moment of a flush in passes.
ClustersAccounted ==
    /\ \A f \in Files : Holds(f) \cap free = {}
    /\ \A f, g \in Files : f # g => Holds(f) \cap Holds(g) = {}
    /\ free \cup UNION {Holds(f) : f \in Files} = Clusters
    /\ \A f \in Files : file[f].open =>
           Size(file[f].fragments) = Cardinality(In(file[f].fragments)) /\ In(file[f].fragments) \cap ToDelete(file[f]) = {}
    /\ \A c \in free : fat[c] = 0

\* What has been flushed can be opened again: the directory entry has the size, and the
\* chain has as many clusters as the size needs, then ends; those of the list in memory
\* when the file is open.
CleanFileIsOnVolume ==
    \A f \in Files : ~file[f].open \/ ~file[f].dirty =>
        /\ Loads(Volume, f)
        /\ dir[f].size = 0 => dir[f].start = 0
        /\ file[f].open =>
               /\ dir[f].size = file[f].size
               /\ LET n == ClusterCount(dir[f].size)
                  IN  n > 0 => SubSeq(Walk(fat, dir[f].start), 1, n) = SubSeq(InOrder(file[f].fragments), 1, n)

ContentsOf(f) ==
    LET at == IF file[f].open THEN InOrder(file[f].fragments) ELSE Walk(fat, dir[f].start)
        size == IF file[f].open THEN file[f].size ELSE dir[f].size
    IN  [i \in 1 .. size |-> disk[at[ClusterCount(i)]][1 + ((i - 1) % BytesPerCluster)]]

\* What is read from a file is what was written to it, through all that happens to its
\* clusters, to its chain and to other files.
Contents == INSTANCE FileContents WITH contents <- [f \in Files |-> ContentsOf(f)]
KeepsContents == Contents!Spec

\* What a closed file's entry and chain lead to is not free.
ClosedFilesAreNotFree == \A f \in Files : ~file[f].open => ChainOf(f) \cap free = {}
=============================================================================
