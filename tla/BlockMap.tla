------------------------------- MODULE BlockMap -------------------------------
(***************************************************************************)
(* Writes and reads of several blocks at once, and the block maps behind   *)
(* them (rtfsfailsafe/prfsjournal.c: fs_devio_write, fs_devio_read,        *)
(* fs_scan_map_cache, fs_insert_map_record, fs_invalidate_flushed_blocks). *)
(*                                                                         *)
(* A map is a list of extents: n volume blocks from vol on are replaced by *)
(* the journal blocks from jnl on.  A write goes through its blocks in     *)
(* steps, each as long as the maps, the frame and the buffer allow.  In    *)
(* buffered mode (buffer_size > 2) the open frame is kept in memory and     *)
(* written when it is closed.                                              *)
(*                                                                         *)
(* Each loop iteration of a call is a step of its own; nothing else runs   *)
(* between them.  A write that would have to wrap the journal is left out  *)
(* (JournalRing is about that), and there is no crash (FsJournal is about  *)
(* that).                                                                  *)
(***************************************************************************)
EXTENDS Naturals, Sequences, SequencesExt

CONSTANTS
    Width,        \* the volume has blocks 1 .. Width
    JournalSize,  \* journal_file_size
    FrameMax,     \* fs_frame_max_records
    BufferSizes,  \* the user's choices of user_index_buffer_size_sectors
    MapRecords,   \* blockmap_size
    MaxWrites     \* bound: calls of fs_devio_write

ASSUME BlockMapAssumption ==
    /\ Width \in Nat \ {0} /\ FrameMax \in Nat \ {0} /\ BufferSizes \subseteq Nat \ {0}
    /\ JournalSize \in Nat /\ JournalSize >= 3
    /\ MapRecords \in Nat /\ MaxWrites \in Nat

VARIABLES
    open, flushed, restoring,     \* the block map caches: lists of extents
    free_records,                 \* length of blockmap_freelist
    pbm,                          \* extent a write is still building
    request,                      \* the write: first block, next block, blocks left
    todo,                         \* open extents a flush has yet to make room for
    flushing,
    open_current_frame, open_current_free, next_free_frame, open_remapped,
    given_back,                   \* a restore has returned blocks to frames_free
    open_start_record, flushed_start_record, flushed_last_block,
    buffer_size,                  \* user_index_buffer_size_sectors
    dirty,                        \* replacement_sectors_dirty
    buffer_sector_start,
    buffer,                       \* what the index buffer holds for each journal block
    journal,                      \* contents of the journal blocks
    index,                        \* journal block -> volume block in its frame's index
    volume,                       \* contents of the volume blocks
    view,                         \* auxiliary: what was written last
    clock                         \* number of writes, also the contents they write

listVars == <<open, flushed, restoring, free_records, pbm>>
frameVars == <<open_current_frame, open_current_free, next_free_frame, open_remapped,
               given_back>>
regionVars == <<open_start_record, flushed_start_record, flushed_last_block>>
bufferVars == <<dirty, buffer_sector_start, buffer>>
dataVars == <<journal, index, volume, view>>
mapVars == <<listVars, request, todo, flushing, frameVars, regionVars, bufferVars,
             dataVars, clock, buffer_size>>

VolumeBlocks == 1 .. Width
JournalBlocks == 1 .. JournalSize - 1
Unknown == 0            \* contents of a block a failed write was to write
Rubbish == MaxWrites + 1    \* contents of a journal block nobody has written

Extent(v, j, n) == [vol |-> v, jnl |-> j, n |-> n]
None == Extent(0, 0, 0)
LastBlock(e) == e.vol + e.n - 1
Covers(e, v) == e.vol <= v /\ v <= LastBlock(e)
Least(S) == CHOOSE x \in S : \A y \in S : x <= y
Smaller(a, b) == IF a < b THEN a ELSE b

-----------------------------------------------------------------------------
(* The lists *)

\* fs_scan_map_cache: is block v mapped, and for how many of n blocks does the
\* answer hold?  adjacent: the extent that ends right in front of v.
Scan(list, v, n) ==
    LET stops == {i \in 1 .. Len(list) : list[i].vol > v \/ Covers(list[i], v)}
        i == IF stops = {} THEN Len(list) + 1 ELSE Least(stops)
        adjacent == IF i > 1 /\ LastBlock(list[i - 1]) + 1 = v THEN i - 1 ELSE 0
    IN  CASE stops = {} -> [mapped |-> FALSE, jnl |-> v, n |-> n, adjacent |-> adjacent]
          [] stops # {} /\ Covers(list[i], v) ->
                [mapped |-> TRUE, jnl |-> list[i].jnl + (v - list[i].vol),
                 n |-> Smaller(LastBlock(list[i]) - v + 1, n), adjacent |-> adjacent]
          [] OTHER -> [mapped |-> FALSE, jnl |-> v,
                       n |-> Smaller(list[i].vol - v, n), adjacent |-> adjacent]

\* Variant: new extents go to the end of the list.
InsertLast(list, e) == Append(list, e)

\* fs_insert_map_record: in front of the first extent that is wholly behind.
Insert(list, e) ==
    LET behind == {i \in 1 .. Len(list) : LastBlock(e) < list[i].vol}
        i == IF behind = {} THEN Len(list) + 1 ELSE Least(behind)
    IN  InsertAt(list, i, e)

Queue(list, e) == IF e = None THEN list ELSE Insert(list, e)

\* One round of fs_invalidate_flushed_blocks: the first extent that meets e
\* loses the blocks of e.
Overlaps(list, e) ==
    {i \in 1 .. Len(list) : e.vol <= LastBlock(list[i]) /\ list[i].vol <= LastBlock(e)}
\* Variant: the journal blocks are not moved along with the volume blocks.
KeepersInPlace(old, e) ==
    LET first == IF e.vol <= old.vol THEN LastBlock(e) + 1 ELSE old.vol
        last == IF LastBlock(e) >= LastBlock(old) THEN e.vol - 1 ELSE LastBlock(old)
    IN  IF last < first THEN None ELSE Extent(first, old.jnl, last - first + 1)

Keepers(old, e) ==
    LET first == IF e.vol <= old.vol THEN LastBlock(e) + 1 ELSE old.vol
        last == IF LastBlock(e) >= LastBlock(old) THEN e.vol - 1 ELSE LastBlock(old)
    IN  IF last < first THEN None
        ELSE Extent(first, old.jnl + (first - old.vol), last - first + 1)

MapOf(list) ==
    [v \in VolumeBlocks |->
        LET at == {i \in 1 .. Len(list) : Covers(list[i], v)}
        IN  IF at = {} THEN 0 ELSE list[Least(at)].jnl + (v - list[Least(at)].vol)]

-----------------------------------------------------------------------------
(* Reading: fs_check_mapped_read and the loop of fs_devio_read *)

\* The first map that knows the block decides, and for all the blocks its
\* extent has: how far the maps above it are silent is not looked at.
Lookup(v, n) ==
    LET o == Scan(open, v, n)
        f == Scan(flushed, v, n)
        r == Scan(restoring, v, n)
    IN  IF o.mapped THEN o ELSE IF f.mapped THEN f ELSE IF r.mapped THEN r
        ELSE [o EXCEPT !.n = Smaller(@, Smaller(f.n, r.n))]

Buffered == buffer_size > 2
InBuffer(j) ==
    Buffered /\ dirty > 0 /\ buffer_sector_start <= j /\ j <= buffer_sector_start + dirty - 1
\* Variant: a read goes past the buffer.
JournalValueOnFile(j) == journal[j]
JournalValue(j) == IF InBuffer(j) THEN buffer[j] ELSE journal[j]

Read(first, n) ==
    LET chunk(v, m) ==
            LET hit == Lookup(v, m)
            IN  [i \in 1 .. hit.n |-> IF hit.mapped THEN JournalValue(hit.jnl + i - 1)
                                      ELSE volume[v + i - 1]]
        rest[m \in 0 .. n] ==
            IF m = 0 THEN <<>>
            ELSE LET c == chunk(first + n - m, m) IN c \o rest[m - Len(c)]
    IN  rest[n]

-----------------------------------------------------------------------------
(* Writing: fs_devio_write and fs_journal_alloc_replacement_blocks *)

FrameLimit(first) ==
    IF Buffered THEN Smaller(buffer_size - (IF first THEN 2 ELSE 1), FrameMax) ELSE FrameMax
RoomInFrame(room, first) == IF room > FrameLimit(first) THEN FrameLimit(first) ELSE room - 1

NoRequest == [first |-> 0, at |-> 0, left |-> 0]
Original == MaxWrites + 2    \* contents of the volume to begin with

BlockMapInit ==
    /\ buffer_size \in BufferSizes
    /\ open = <<>> /\ flushed = <<>> /\ restoring = <<>>
    /\ free_records = MapRecords /\ pbm = None
    /\ request = NoRequest /\ todo = <<>> /\ flushing = FALSE
    /\ open_current_frame = 1 /\ next_free_frame = 2
    /\ open_current_free = RoomInFrame(JournalSize - 1, TRUE)
    /\ open_remapped = FALSE /\ given_back = FALSE
    /\ open_start_record = 1 /\ flushed_start_record = 0 /\ flushed_last_block = 0
    /\ dirty = (IF Buffered THEN 2 ELSE 0) /\ buffer_sector_start = 0
    /\ buffer = [j \in JournalBlocks |-> Rubbish]
    /\ journal = [j \in JournalBlocks |-> Rubbish]
    /\ index = [j \in JournalBlocks |-> 0]
    /\ volume = [v \in VolumeBlocks |-> Original] /\ view = volume
    /\ clock = 0

Idle == request = NoRequest /\ ~flushing

WriteCall ==
    /\ Idle /\ clock < MaxWrites
    /\ \E first \in VolumeBlocks : \E n \in 1 .. Width - first + 1 :
          /\ request' = [first |-> first, at |-> first, left |-> n]
          /\ view' = [v \in VolumeBlocks |-> IF v \in first .. first + n - 1 THEN Unknown ELSE view[v]]
    /\ clock' = clock + 1
    /\ UNCHANGED <<listVars, todo, flushing, frameVars, regionVars, bufferVars, journal,
                   index, volume>>

\* The rest of the request after n blocks; at its end the extent is queued.
Advance(n, list, extent) ==
    IF n < request.left
    THEN /\ request' = [request EXCEPT !.at = @ + n, !.left = @ - n]
         /\ open' = list /\ pbm' = extent
         /\ UNCHANGED view
    ELSE /\ request' = NoRequest
         /\ open' = Queue(list, extent) /\ pbm' = None
         /\ view' = [v \in VolumeBlocks |->
                        IF v \in request.first .. request.at + n - 1 THEN clock ELSE view[v]]

\* The call returns FALSE: the extent it was building is in no list.
GiveUp(list) == request' = NoRequest /\ open' = list /\ pbm' = None /\ UNCHANGED view

Put(contents, j, n) ==
    [k \in JournalBlocks |-> IF k \in j .. j + n - 1 THEN clock ELSE contents[k]]

\* How many of the mapped blocks from j on one step writes: blocks in front of
\* the buffer, or in the buffer as far as it would have room for new ones.
MappedLength(j, n) ==
    IF Buffered /\ dirty > 0 /\ j < buffer_sector_start THEN Smaller(n, buffer_sector_start - j)
    ELSE IF InBuffer(j) THEN Smaller(n, buffer_size - dirty) ELSE n

WriteMapped ==
    LET hit == Scan(open, request.at, request.left)
        n == MappedLength(hit.jnl, hit.n)
    IN  /\ request.left > 0 /\ hit.mapped
        /\ IF n = 0 THEN GiveUp(Queue(open, pbm)) /\ UNCHANGED <<buffer, journal>>
           ELSE /\ Advance(n, Queue(open, pbm), None)
                /\ IF InBuffer(hit.jnl)
                   THEN buffer' = Put(buffer, hit.jnl, n) /\ UNCHANGED journal
                   ELSE journal' = Put(journal, hit.jnl, n) /\ UNCHANGED buffer
        /\ UNCHANGED <<flushed, restoring, free_records, todo, flushing, frameVars, regionVars,
                       dirty, buffer_sector_start, index, volume, clock>>

NeedsFrame == open_current_free = 0 \/ (Buffered /\ dirty >= buffer_size)
BlocksLeft == JournalSize - next_free_frame
AtEnd == NeedsFrame /\ BlocksLeft < 2
Full == AtEnd /\ ~given_back        \* frames_free < 2

\* Closing a frame writes the buffer (fs_flush_current_frame).
Written == [j \in JournalBlocks |-> JournalValue(j)]

\* Where the blocks of a step go: the open frame, or the next one.
FirstBlock == IF NeedsFrame THEN next_free_frame + 1 ELSE next_free_frame
RoomLeft == IF NeedsFrame THEN RoomInFrame(BlocksLeft, FALSE) ELSE open_current_free
BufferLeft(n) ==
    IF ~Buffered THEN n
    ELSE Smaller(n, buffer_size - (IF dirty >= buffer_size THEN 1 ELSE dirty))

\* Variant: an extent grows although its journal blocks do not go on.
GrowsOnVolume(e, v, j) == e # None /\ e.vol + e.n = v
Grows(e, v, j) == e # None /\ e.vol + e.n = v /\ e.jnl + e.n = j
Longer(e, n) == [e EXCEPT !.n = @ + n]

WriteUnmapped ==
    LET hit == Scan(open, request.at, request.left)
        n == Smaller(RoomLeft, BufferLeft(hit.n))
        v == request.at
        j == FirstBlock
        queued == Queue(open, pbm)
        goesOn == Grows(pbm, v, j)
        joins == hit.adjacent # 0 /\ Grows(open[hit.adjacent], v, j)
        fails == ~goesOn /\ ~joins /\ free_records = 0    \* PEFSMAPFULL
    IN  /\ request.left > 0 /\ ~hit.mapped /\ ~AtEnd
        /\ open_current_frame' = IF NeedsFrame THEN next_free_frame ELSE open_current_frame
        /\ open_current_free' = RoomLeft - n
        /\ next_free_frame' = j + n
        /\ open_remapped' = TRUE
        /\ open_start_record' = IF open_start_record = 0 THEN open_current_frame'
                                ELSE open_start_record
        /\ index' = [k \in JournalBlocks |-> IF k \in j .. j + n - 1 THEN v + (k - j) ELSE index[k]]
        \* Extend the extent being built, or one of the list, or begin another.
        /\ CASE goesOn -> Advance(n, open, Longer(pbm, n))
             [] ~goesOn /\ joins ->
                    Advance(n, Queue([open EXCEPT ![hit.adjacent] = Longer(@, n)], pbm), None)
             [] fails -> GiveUp(queued)
             [] OTHER -> Advance(n, queued, Extent(v, j, n))
        /\ free_records' = IF goesOn \/ joins \/ fails THEN free_records ELSE free_records - 1
        /\ LET closed == IF NeedsFrame THEN Written ELSE journal
           IN  journal' = IF fails \/ Buffered THEN closed ELSE Put(closed, j, n)
        /\ IF ~Buffered THEN UNCHANGED bufferVars
           ELSE /\ buffer_sector_start' = IF NeedsFrame THEN next_free_frame ELSE buffer_sector_start
                /\ dirty' = (IF NeedsFrame THEN 1 ELSE dirty) + (IF fails THEN 0 ELSE n)
                /\ buffer' = IF fails THEN buffer ELSE Put(buffer, j, n)
        /\ UNCHANGED <<flushed, restoring, todo, flushing, given_back, flushed_start_record,
                       flushed_last_block, volume, clock>>

\* PEFSJOURNALFULL: the frame is closed and forgotten.
WriteFull ==
    /\ request.left > 0 /\ ~Scan(open, request.at, request.left).mapped /\ Full
    /\ GiveUp(open)
    /\ open_current_frame' = 0 /\ open_remapped' = FALSE
    /\ IF open_current_frame # 0 THEN journal' = Written /\ dirty' = 0
       ELSE UNCHANGED <<journal, dirty>>
    /\ UNCHANGED <<flushed, restoring, free_records, todo, flushing, open_current_free,
                   next_free_frame, given_back, regionVars, buffer_sector_start, buffer,
                   index, volume, clock>>

-----------------------------------------------------------------------------
(* fs_flush_current_session *)

\* Variant: the last frame counts up to its header.
FlushedToHeader == open_current_frame
FlushedTo == next_free_frame - 1    \* open_current_frame + open_current_used

FlushCall ==
    /\ Idle /\ open_remapped
    /\ flushing' = TRUE /\ todo' = open
    /\ journal' = Written /\ dirty' = 0
    /\ flushed_start_record' = IF flushed_start_record = 0 THEN open_start_record
                               ELSE flushed_start_record
    /\ flushed_last_block' = FlushedTo
    /\ UNCHANGED <<listVars, request, frameVars, open_start_record, buffer_sector_start,
                   buffer, index, volume, view, clock>>

MakeRoom ==
    /\ flushing /\ todo # <<>>
    /\ LET at == Overlaps(flushed, Head(todo))
           i == Least(at)
           left == Keepers(flushed[i], Head(todo))
       IN  IF at = {} THEN todo' = Tail(todo) /\ UNCHANGED <<flushed, free_records>>
           ELSE /\ IF left = None
                   THEN flushed' = RemoveAt(flushed, i) /\ free_records' = free_records + 1
                   ELSE flushed' = [flushed EXCEPT ![i] = left] /\ UNCHANGED free_records
                /\ UNCHANGED todo
    /\ UNCHANGED <<open, restoring, pbm, request, flushing, frameVars, regionVars, bufferVars,
                   dataVars, clock>>

\* Only when there is room for all of them the open extents move over.
MoveExtent ==
    /\ flushing /\ todo = <<>> /\ open # <<>>
    /\ flushed' = Insert(flushed, Head(open)) /\ open' = Tail(open)
    /\ UNCHANGED <<restoring, free_records, pbm, request, todo, flushing, frameVars, regionVars,
                   bufferVars, dataVars, clock>>

FlushEnd ==
    /\ flushing /\ todo = <<>> /\ open = <<>>
    /\ flushing' = FALSE
    /\ open_current_frame' = 0 /\ open_current_free' = 0 /\ open_remapped' = FALSE
    /\ dirty' = 0 /\ buffer_sector_start' = 0
    /\ UNCHANGED <<open, flushed, restoring, free_records, pbm, request, todo, next_free_frame,
                   given_back, regionVars, buffer, dataVars, clock>>

-----------------------------------------------------------------------------
(* The restore: which extents it takes and gives back *)

\* fs_restore_from_session_start, fs_clear_session_vars
RestoreStart ==
    /\ Idle /\ ~open_remapped /\ flushed_start_record # 0 /\ restoring = <<>>
    /\ restoring' = flushed /\ flushed' = <<>>
    /\ open_current_frame' = 0 /\ open_current_free' = 0
    /\ open_start_record' = 0 /\ flushed_start_record' = 0 /\ flushed_last_block' = 0
    /\ buffer_sector_start' = 0
    /\ UNCHANGED <<open, free_records, pbm, request, todo, flushing, next_free_frame,
                   given_back, open_remapped, dirty, buffer, dataVars, clock>>

\* fs_restore_continue to its end, fs_restore_from_session_complete
RestoreEnd ==
    /\ Idle /\ restoring # <<>>
    /\ volume' = [v \in VolumeBlocks |-> IF MapOf(restoring)[v] # 0 THEN journal[MapOf(restoring)[v]]
                                         ELSE volume[v]]
    /\ free_records' = free_records + Len(restoring) /\ restoring' = <<>>
    /\ given_back' = TRUE
    /\ UNCHANGED <<open, flushed, pbm, request, todo, flushing, open_current_frame,
                   open_current_free, next_free_frame, open_remapped, regionVars, bufferVars,
                   journal, index, view, clock>>

BlockMapNext ==
    /\ \/ WriteCall \/ WriteMapped \/ WriteUnmapped \/ WriteFull
       \/ FlushCall \/ MakeRoom \/ MoveExtent \/ FlushEnd
       \/ RestoreStart \/ RestoreEnd
    /\ UNCHANGED buffer_size

BlockMapSpec == BlockMapInit /\ [][BlockMapNext]_mapVars

-----------------------------------------------------------------------------
(* Properties *)

InOrder(list) ==
    /\ \A i \in 1 .. Len(list) : list[i].n > 0 /\ list[i].vol >= 1 /\ LastBlock(list[i]) <= Width
    /\ \A i \in 1 .. Len(list) - 1 : LastBlock(list[i]) < list[i + 1].vol

\* The lists are what fs_scan_map_cache takes them for: in volume order, no
\* block in two extents of a list; and no extent is in use twice.
ListsInOrder ==
    /\ InOrder(open) /\ InOrder(flushed) /\ InOrder(restoring)
    /\ Len(open) + Len(flushed) + Len(restoring) + free_records <= MapRecords

\* A read of one block returns what the last write that succeeded wrote.
BlockReadsLatest ==
    Idle => \A v \in VolumeBlocks : view[v] # Unknown => Read(v, 1)[1] = view[v]

\* What a mount makes of the frames from one record to the last block flushed:
\* the last index record of a volume block counts.
Replay(first, last) ==
    [v \in VolumeBlocks |->
        LET at == {j \in JournalBlocks : first <= j /\ j <= last /\ index[j] = v}
        IN  IF at = {} THEN 0 ELSE CHOOSE j \in at : \A k \in at : k <= j]

\* The frames and the flushed map tell the same story of every block whose last
\* write before the flush succeeded: a restore from the file after a crash copies the
\* journal block a restore from memory would have copied, or leaves the volume's as
\* that would.  (Blocks written since the flush are in the open map.)
FileAgreesWithMaps ==
    (Idle /\ flushed_start_record # 0) =>
        \A v \in VolumeBlocks : view[v] # Unknown /\ MapOf(open)[v] = 0 =>
            MapOf(flushed)[v] = Replay(flushed_start_record, flushed_last_block)[v]

\* The lists do what MapLayers says: a write maps what was not mapped, a flush
\* lays the open map over the flushed one, whatever extents they are cut into.
OpenLayer == IF flushing THEN [v \in VolumeBlocks |-> 0] ELSE MapOf(open)
FlushedLayer ==
    [v \in VolumeBlocks |-> IF flushing /\ MapOf(open)[v] # 0 THEN MapOf(open)[v]
                            ELSE MapOf(flushed)[v]]
Layers == INSTANCE MapLayers WITH
    VolumeBlock <- VolumeBlocks, JournalBlock <- JournalBlocks,
    openMap <- OpenLayer, flushedMap <- FlushedLayer, restoringMap <- MapOf(restoring)
ImplementsLayers == Layers!LayersSpec
=============================================================================
