------------------------------ MODULE FsJournal ------------------------------
(***************************************************************************)
(* The Failsafe journal: what is written where, in which order, and what a *)
(* mount makes of it (rtfsfailsafe/prfsjournal.c, prfsrestore.c,           *)
(* prfsnvio.c).  JournalRing hands out the blocks; this module fills them. *)
(*                                                                         *)
(* While the volume is mounted every write goes to the journal, to a       *)
(* replacement block of its own.  A flush marks the last frame FLUSHED and *)
(* the transaction is committed; a restore copies the blocks to the        *)
(* volume, between the marks RESTORING and RESTORED.  A mount reads the    *)
(* frames in order from the start record in the master block, decides from *)
(* their marks what has to be copied, copies it, and starts a new session. *)
(*                                                                         *)
(* A call takes effect in memory at once and leaves its disk writes, one   *)
(* block each, in io; no other call begins before they are done, and a     *)
(* power failure may come between any two of them.                         *)
(***************************************************************************)
EXTENDS JournalRing, Sequences, FiniteSets

CONSTANTS
    Data,          \* volume blocks besides the FAT
    InitFree,      \* free clusters of the volume to begin with
    FixedJournal,  \* the journal lies in reserved sectors; otherwise in free
                   \* space, found through a cluster handle kept in FAT copy 2
    Allowed,       \* which of "create", "delete", "full" may happen
    MaxSeq,        \* bound: frames in a session
    MaxSession     \* bound: sessions, that is mounts

ASSUME FsAssumption ==
    /\ BufSectors <= 2
    /\ "fat" \notin Data
    /\ InitFree \in Nat /\ MaxSeq \in Nat /\ MaxSession \in Nat
    /\ FixedJournal \in BOOLEAN
    /\ Allowed \subseteq {"create", "delete", "full"}

VARIABLES
    \* On the disk.
    journal,          \* contents of blocks 1 .. FileSize-1
    master,           \* session id and start record kept in block 0
    handle,           \* FAT copy 2 says where the journal is
    volume,           \* contents of the volume, the first FAT copy included
    fat2,             \* contents of the second FAT copy
    \* In memory.
    openMap, flushedMap, restoringMap,   \* volume block -> journal block, 0: none
    open_recs,        \* index records of the open frame
    session_id, frame_sequence, session_current_freespace,
    known_free_clusters,
    open_free, flushed_free, restoring_free,   \* clusters freed, not reusable yet
    restore_state,    \* pass the running restore has come to
    copied,           \* blocks it has copied
    todo,             \* ranges of frames a mount still has to restore
    mode,             \* "up", "down", or what the mount has come to
    io,               \* disk writes of the current call that are still to be done
    view              \* auxiliary: the volume as its user has written it

diskVars == <<journal, master, handle, volume, fat2>>
mapVars == <<openMap, flushedMap, restoringMap, open_recs>>
sessionVars == <<session_id, frame_sequence, session_current_freespace>>
freeVars == <<known_free_clusters, open_free, flushed_free, restoring_free>>
restoreVars == <<restore_state, copied, todo>>
fsVars == <<ringVars, diskVars, mapVars, sessionVars, freeVars, restoreVars, mode, io, view>>

Volume == Data \union {"fat"}

\* The FAT block holds the number of free clusters, the others a bit.
Contents(v) == IF v = "fat" THEN 0 .. InitFree + 2 ELSE 0 .. 1
NoMap == [v \in Volume |-> 0]

-----------------------------------------------------------------------------
(* Journal blocks and disk writes *)

Header(type, seq, recs) ==
    [type |-> type, seq |-> seq, session |-> session_id,
     space |-> session_current_freespace, recs |-> recs]
DataBlock(c) == [type |-> "data", val |-> c]
Unwritten == [type |-> "data", val |-> 0]

ToJournal(b, contents) == <<[to |-> "journal", at |-> b, val |-> contents]>>
ToMaster(session, start) ==
    <<[to |-> "master", val |-> [session |-> session, start |-> start]]>>
ToVolume(v, c) == <<[to |-> "volume", at |-> v, val |-> c]>>
ToFat2(c) == <<[to |-> "fat2", val |-> c]>>
ToHandle(set) == <<[to |-> "handle", val |-> set]>>
Return == <<[to |-> "return"]>>     \* the commit returns success to its caller

Done == io = <<>>

\* One disk write reaches the medium.
DiskWrite ==
    /\ ~Done
    /\ LET w == Head(io)
       IN  /\ journal' = IF w.to = "journal" THEN [journal EXCEPT ![w.at] = w.val] ELSE journal
           /\ master' = IF w.to = "master" THEN w.val ELSE master
           /\ volume' = IF w.to = "volume" THEN [volume EXCEPT ![w.at] = w.val] ELSE volume
           /\ fat2' = IF w.to = "fat2" THEN w.val ELSE fat2
           /\ handle' = IF w.to = "handle" THEN w.val ELSE handle
    /\ io' = Tail(io)
    /\ UNCHANGED <<ringVars, mapVars, sessionVars, freeVars, restoreVars, mode, view>>

-----------------------------------------------------------------------------
(* What a mount reads: fs_file_segment_info, fs_file_session_info.  The    *)
(* operators are functions of the disk: j is the journal, m the master.    *)

\* fs_file_get_next_frame
NextFrame(j, b) ==
    LET next == b + 1 + Len(j[b].recs) IN IF next >= FileSize THEN 1 ELSE next

IsFrame(j, m, b) == j[b].type # "data" /\ j[b].session = m.session

\* Block b is the n-th frame of the last session, and closed.
Continues(j, m, b, n) ==
    /\ b \in Blocks /\ IsFrame(j, m, b)
    /\ j[b].seq = j[m.start].seq + n - 1 /\ j[b].type # "open"

\* The block after each frame, and the blocks a mount looks at in their order.
Following(j) ==
    [b \in 0 .. FileSize - 1 |-> IF b = 0 \/ j[b].type = "data" THEN 0 ELSE NextFrame(j, b)]
Walk(next, start) ==
    LET frame[n \in 1 .. FileSize] == IF n = 1 THEN start ELSE next[frame[n - 1]] IN frame

\* The frames of the last session in order, from the start record on to the
\* first block that is not the next in sequence.
Chain(j, m) ==
    LET frame == Walk(Following(j), m.start)
        goesOn(n) == Continues(j, m, frame[n], n)
        length == CHOOSE n \in 0 .. FileSize :
                      /\ \A k \in 1 .. n : goesOn(k)
                      /\ n = FileSize \/ ~goesOn(n + 1)
    IN  SubSeq([n \in 1 .. FileSize |-> frame[n]], 1, length)

LastOf(j, c, types) ==
    LET found == {i \in 1 .. Len(c) : j[c[i]].type \in types}
    IN  IF found = {} THEN 0 ELSE CHOOSE i \in found : \A k \in found : k <= i

\* A segment ends with a frame marked RESTORING or RESTORED.
EndsSegment(j, b) == j[b].type \in {"restoring", "restored"}

\* FS_SEGMENT_TYPE_ERROR: two free-space signatures in one segment; or a
\* restored segment after one that is not.  Either way nothing is restored.
Invalid(j, c) ==
    \/ \E i \in 2 .. Len(c) :
          ~EndsSegment(j, c[i - 1]) /\ j[c[i]].space # j[c[i - 1]].space
    \/ LastOf(j, c, {"restoring"}) # 0 /\
       \E i \in LastOf(j, c, {"restoring"}) .. Len(c) : j[c[i]].type = "restored"

\* The frames to restore.  The flushed range ends with its last FLUSHED frame:
\* frames closed after it are left out.
\* Variant for Restoring: what has been restored is restored again.
RestoringAgain(j, c) == SubSeq(c, 1, LastOf(j, c, {"restoring", "restored"}))
Restoring(j, c) == SubSeq(c, LastOf(j, c, {"restored"}) + 1, LastOf(j, c, {"restoring"}))
Flushed(j, c) ==
    SubSeq(c, LastOf(j, c, {"restored", "restoring"}) + 1, LastOf(j, c, {"flushed"}))

\* fs_failsafe_autorestore: a flushed range is up to date only if the volume
\* has the free space it had when the session began.
OutOfDate(j, c, v) ==
    Restoring(j, c) = <<>> /\ Flushed(j, c) # <<>> /\ j[Flushed(j, c)[1]].space # v["fat"]

\* failsafe_reopen_nv_buffer
JournalFound(h) == FixedJournal \/ h

RangesOf(j, m, h, v) ==
    LET in[c \in {Chain(j, m)}] ==
            IF ~JournalFound(h) \/ Invalid(j, c) \/ OutOfDate(j, c, v) THEN <<>>
            ELSE IF Restoring(j, c) = <<>>
                 THEN IF Flushed(j, c) = <<>> THEN <<>> ELSE <<Flushed(j, c)>>
                 ELSE IF Flushed(j, c) = <<>> THEN <<Restoring(j, c)>>
                      ELSE <<Restoring(j, c), Flushed(j, c)>>
    IN  in[Chain(j, m)]

\* A header read as a data block is rubbish.
ValueAt(j, b) == IF j[b].type = "data" THEN j[b].val ELSE 9

\* The index records of a range of frames, and the copy of block v that counts:
\* the last one (fs_invalidate_replacement_blocks drops the older ones).
Records(j, r) == {x \in (1 .. Len(r)) \X (1 .. FrameMax) : x[2] <= Len(j[r[x[1]]].recs)}
Replaced(j, r) == {j[r[x[1]]].recs[x[2]] : x \in Records(j, r)}
\* Variant: a block keeps the replacement it got first.
FirstRecord(j, r, v) ==
    LET found == {x \in Records(j, r) : j[r[x[1]]].recs[x[2]] = v}
    IN  CHOOSE x \in found : \A y \in found : x[1] < y[1] \/ (y[1] = x[1] /\ x[2] <= y[2])
LatestRecord(j, r, v) ==
    LET found == {x \in Records(j, r) : j[r[x[1]]].recs[x[2]] = v}
    IN  CHOOSE x \in found : \A y \in found : y[1] < x[1] \/ (y[1] = x[1] /\ y[2] <= x[2])
Replacement(j, r, v) ==
    LET of[x \in {LatestRecord(j, r, v)}] == ValueAt(j, r[x[1]] + x[2])
    IN  of[LatestRecord(j, r, v)]

\* The volume once the ranges rs are restored, in their order.
Restored(j, rs, vol) ==
    [v \in Volume |->
        LET in == {i \in 1 .. Len(rs) : v \in Replaced(j, rs[i])}
        IN  IF in = {} THEN vol[v]
            ELSE Replacement(j, rs[CHOOSE i \in in : \A k \in in : k <= i], v)]

RecoveredFrom(j, m, h, v) ==
    LET by[ranges \in {RangesOf(j, m, h, v)}] == Restored(j, ranges, v)
    IN  by[RangesOf(j, m, h, v)]

Ranges == RangesOf(journal, master, handle, volume)

\* The volume a mount would leave if the power failed now.
Recovered == RecoveredFrom(journal, master, handle, volume)

-----------------------------------------------------------------------------
(* Start, mount and crash *)

InMemory ==
    /\ openMap' = NoMap /\ flushedMap' = NoMap /\ restoringMap' = NoMap /\ open_recs' = <<>>
    /\ frame_sequence' = 1
    /\ open_free' = 0 /\ flushed_free' = 0 /\ restoring_free' = 0
    /\ restore_state' = "none" /\ copied' = {}

FsInit ==
    /\ RingInit
    /\ journal = [b \in Blocks |-> Unwritten]
    /\ master = [session |-> 0, start |-> 1]
    /\ handle = FALSE
    /\ volume = [v \in Volume |-> IF v = "fat" THEN InitFree ELSE 0]
    /\ fat2 = InitFree
    /\ openMap = NoMap /\ flushedMap = NoMap /\ restoringMap = NoMap /\ open_recs = <<>>
    /\ session_id = 0 /\ frame_sequence = 1 /\ session_current_freespace = InitFree
    /\ known_free_clusters = InitFree /\ open_free = 0 /\ flushed_free = 0 /\ restoring_free = 0
    /\ restore_state = "none" /\ copied = {} /\ todo = <<>>
    /\ mode = "down" /\ io = <<>> /\ view = volume

\* Memory is gone, and with it the writes that had not reached the disk.
\* (StartJournaling and InMemory leave it as the next mount will set it up.)
Crash ==
    /\ mode # "down"
    /\ mode' = "down" /\ io' = <<>> /\ todo' = <<>>
    /\ view' = Recovered
    /\ StartJournaling /\ InMemory
    /\ UNCHANGED <<diskVars, session_id, session_current_freespace, known_free_clusters>>

\* pc_i_dskopen counts the free clusters, fs_failsafe_dskopen then looks at
\* the journal.
Mount ==
    /\ mode = "down"
    /\ known_free_clusters' = volume["fat"]
    /\ todo' = Ranges
    /\ IF Ranges = <<>> THEN mode' = "start" /\ UNCHANGED <<restore_state, copied>>
       ELSE mode' = "recover" /\ restore_state' = "mark" /\ copied' = {}
    /\ UNCHANGED <<ringVars, diskVars, mapVars, sessionVars, open_free, flushed_free,
                   restoring_free, io, view>>

\* fs_restore_from_file for the range in front of todo, one pass at a time.
Terminal == todo[1][Len(todo[1])]
Mark(b, type) == ToJournal(b, [journal[b] EXCEPT !.type = type])

\* fs_asy_write_to_volume: the FAT goes to both copies, except that the block
\* of the second copy that holds the handle is left for RS_CLEAR_LOCATION.
CopyOut(v, c) ==
    ToVolume(v, c) \o (IF v = "fat" /\ FixedJournal THEN ToFat2(c) ELSE <<>>)

\* Variant: the block with the handle is cleared and nothing is put in its place.
ClearHandleOnly == IF FixedJournal THEN <<>> ELSE ToHandle(FALSE)
\* failsafe_nv_buffer_clear: FAT copy 1 over FAT copy 2.
ClearHandle == IF FixedJournal THEN <<>> ELSE ToFat2(volume["fat"]) \o ToHandle(FALSE)

Recover ==
    /\ mode = "recover" /\ Done
    /\ \/ /\ restore_state = "mark"
          /\ io' = Mark(Terminal, "restoring")
          /\ restore_state' = "copy"
          /\ UNCHANGED <<copied, todo, mode>>
       \/ /\ restore_state = "copy"
          /\ \E v \in Replaced(journal, todo[1]) \ copied :
                /\ io' = CopyOut(v, Replacement(journal, todo[1], v))
                /\ copied' = copied \union {v}
          /\ UNCHANGED <<restore_state, todo, mode>>
       \/ /\ restore_state = "copy" /\ Replaced(journal, todo[1]) \subseteq copied
          /\ io' = Mark(Terminal, "restored")
          /\ restore_state' = "clear"
          /\ UNCHANGED <<copied, todo, mode>>
       \/ /\ restore_state = "clear"
          /\ io' = ClearHandle
          /\ copied' = {}
          /\ todo' = Tail(todo)
          /\ IF Len(todo) > 1 THEN restore_state' = "mark" /\ mode' = mode
             ELSE restore_state' = "none" /\ mode' = "remount"
    /\ UNCHANGED <<ringVars, diskVars, mapVars, sessionVars, freeVars, view>>

\* pc_dskfree and pc_i_dskopen again: the volume has changed underneath.
Remount ==
    /\ mode = "remount" /\ Done
    /\ mode' = "down"
    /\ UNCHANGED <<ringVars, diskVars, mapVars, sessionVars, freeVars, restoreVars, io, view>>

\* fs_failsafe_start_journaling: a new session id, the master block, and the
\* first frame, all in memory as after RingInit.
BeginSession ==
    /\ mode = "start" /\ Done
    /\ master.session < MaxSession
    /\ mode' = "up"
    /\ session_id' = master.session + 1
    /\ session_current_freespace' = known_free_clusters
    /\ io' = ToMaster(session_id', 1)
             \o ToJournal(1, [type |-> "open", seq |-> 1, session |-> session_id',
                              space |-> session_current_freespace', recs |-> <<>>])
    /\ StartJournaling /\ InMemory
    /\ UNCHANGED <<diskVars, known_free_clusters, todo, view>>

-----------------------------------------------------------------------------
(* Writing: fs_devio_write for one block *)

Ready == mode = "up" /\ Done

\* fs_file_open_new_frame, in the order of its writes.
CloseFrame ==
    IF open_current_frame = 0 THEN <<>>
    ELSE ToJournal(open_current_frame, Header("closed", frame_sequence, open_recs))
NullFrame ==
    IF NeedsNullFrame /\ frames_free >= 2
    THEN ToJournal(next_free_frame, Header("closed", frame_sequence + 1, <<>>)) ELSE <<>>
SequenceAfterNull == frame_sequence + Len(NullFrame)
\* Variant: the master block is left as it was.
MoveStartNever == <<>>
MoveStart ==
    IF session_start_record' # session_start_record \/ (wrapped' /\ ReachesSessionStart)
    THEN ToMaster(session_id, session_start_record') ELSE <<>>
OpenFrame == ToJournal(NewFrame, Header("open", SequenceAfterNull + 1, <<>>))

\* The block is in the open transaction already: write over its replacement.
Rewrite(v, c) ==
    /\ openMap[v] # 0
    /\ io' = ToJournal(openMap[v], DataBlock(c))
    /\ UNCHANGED <<ringVars, mapVars, frame_sequence>>

WriteInFrame(v, c) ==
    /\ openMap[v] = 0
    /\ AllocInFrame(1)
    /\ openMap' = [openMap EXCEPT ![v] = next_free_frame]
    /\ open_recs' = Append(open_recs, v)
    /\ io' = ToJournal(next_free_frame, DataBlock(c))
    /\ UNCHANGED <<flushedMap, restoringMap, frame_sequence>>

WriteInNewFrame(v, c) ==
    /\ openMap[v] = 0
    /\ frame_sequence < MaxSeq
    /\ AllocInNewFrame(1)
    /\ openMap' = [openMap EXCEPT ![v] = NewFrame + 1]
    /\ open_recs' = <<v>>
    /\ frame_sequence' = SequenceAfterNull + 1
    /\ io' = CloseFrame \o NullFrame \o MoveStart \o OpenFrame
             \o ToJournal(NewFrame + 1, DataBlock(c))
    /\ UNCHANGED <<flushedMap, restoringMap>>

Write(v, c) ==
    /\ Ready /\ MayWrite
    /\ Rewrite(v, c) \/ WriteInFrame(v, c) \/ WriteInNewFrame(v, c)
    /\ view' = [view EXCEPT ![v] = c]
    /\ UNCHANGED <<diskVars, session_id, session_current_freespace, restoreVars, mode>>

WriteData ==
    /\ \E v \in Data : Write(v, 1 - view[v])
    /\ UNCHANGED freeVars

\* Allocating clusters: the FAT changes and the count with it
\* (fatop_remove_free_region).
Create ==
    /\ "create" \in Allowed /\ known_free_clusters > 0 /\ view["fat"] > 0
    /\ Write("fat", view["fat"] - 1)
    /\ known_free_clusters' = known_free_clusters - 1
    /\ UNCHANGED <<open_free, flushed_free, restoring_free>>

\* Variant: the clusters may be allocated again at once.
AddFreeRegionAtOnce == known_free_clusters' = known_free_clusters + 1 /\ UNCHANGED open_free
AddFreeRegion == open_free' = open_free + 1 /\ UNCHANGED known_free_clusters

\* Freeing clusters: the FAT changes, but the clusters are counted as free
\* only when the transaction has been restored (fs_add_free_region).
Delete ==
    /\ "delete" \in Allowed /\ view["fat"] < InitFree + 2
    /\ Write("fat", view["fat"] + 1)
    /\ AddFreeRegion
    /\ UNCHANGED <<flushed_free, restoring_free>>

\* No block for the write: PEFSJOURNALFULL.  The frame is closed all the same.
\* (A request for one block finds room in a frame that could be opened.)
WriteFails ==
    /\ "full" \in Allowed /\ Ready /\ MayWrite
    /\ \E v \in Volume : openMap[v] = 0
    /\ frame_sequence < MaxSeq
    /\ JournalFull
    /\ frame_sequence' = SequenceAfterNull
    /\ io' = CloseFrame \o NullFrame
    /\ UNCHANGED <<diskVars, mapVars, session_id, session_current_freespace, freeVars,
                   restoreVars, mode, view>>

-----------------------------------------------------------------------------
(* Commit: fs_flush_current_session, then the restore *)

\* What fs_invalidate_flushed_blocks and the insertion make of the two maps.
\* The blocks of Data are not next to each other on the volume, so extents have
\* one block here (BlockMap has the longer ones).
Overlay(upper, lower) == [v \in Volume |-> IF upper[v] # 0 THEN upper[v] ELSE lower[v]]

\* Variant: the flush does not write the handle.
MarkHandleNever == <<>>
MarkHandle == IF FixedJournal THEN <<>> ELSE ToHandle(TRUE)

\* A commit never overtakes a restore that is under way (_pc_async_step runs
\* the restore to its end first).
Commit ==
    /\ Ready /\ restoring_start_record = 0
    /\ IF open_remapped
       THEN /\ Flush
            /\ io' = ToJournal(open_current_frame, Header("flushed", frame_sequence, open_recs))
                     \o MarkHandle \o Return
            /\ flushedMap' = Overlay(openMap, flushedMap)
            /\ openMap' = NoMap /\ open_recs' = <<>>
            /\ flushed_free' = flushed_free + open_free /\ open_free' = 0
       ELSE /\ io' = Return
            /\ UNCHANGED <<ringVars, openMap, flushedMap, open_recs, open_free, flushed_free>>
    /\ UNCHANGED <<diskVars, restoringMap, sessionVars, known_free_clusters, restoring_free,
                   restoreVars, mode, view>>

\* fs_restore_from_session_start, with the journal flushed
\* (_fs_api_async_commit_continue, _fs_api_sync_commit).
StartRestore ==
    /\ Ready /\ ~open_remapped
    /\ RestoreStart
    /\ restoringMap' = flushedMap /\ flushedMap' = NoMap
    /\ restoring_free' = flushed_free /\ flushed_free' = 0
    /\ session_current_freespace' = known_free_clusters
    /\ restore_state' = "mark" /\ copied' = {}
    /\ UNCHANGED <<diskVars, openMap, open_recs, session_id, frame_sequence,
                   known_free_clusters, open_free, todo, mode, io, view>>

\* fs_restore_from_session_continue: the passes of fs_restore_continue.
ToCopy == {v \in Volume : restoringMap[v] # 0}

RestorePass ==
    /\ Ready
    /\ \/ /\ restore_state = "mark"
          /\ io' = Mark(restoring_terminal_record, "restoring")
          /\ restore_state' = "copy"
          /\ UNCHANGED copied
       \/ /\ restore_state = "copy"
          /\ \E v \in ToCopy \ copied :
                /\ io' = CopyOut(v, ValueAt(journal, restoringMap[v]))
                /\ copied' = copied \union {v}
          /\ UNCHANGED restore_state
       \/ /\ restore_state = "copy" /\ ToCopy \subseteq copied
          /\ io' = Mark(restoring_terminal_record, "restored")
          /\ restore_state' = "clear"
          /\ UNCHANGED copied
    /\ UNCHANGED <<ringVars, diskVars, mapVars, sessionVars, freeVars, todo, mode, view>>

\* The last pass: the handle goes unless frames have been flushed since, the
\* blocks and the freed clusters go back.
KeepHandle == flushed_start_record # 0

EndRestore ==
    /\ Ready /\ restore_state = "clear"
    /\ RestoreComplete
    /\ io' = IF KeepHandle THEN <<>> ELSE ClearHandle
    /\ restoringMap' = NoMap
    /\ known_free_clusters' = known_free_clusters + restoring_free /\ restoring_free' = 0
    /\ restore_state' = "none" /\ copied' = {}
    /\ UNCHANGED <<diskVars, openMap, flushedMap, open_recs, sessionVars, open_free,
                   flushed_free, todo, mode, view>>

FsNext ==
    \/ DiskWrite
    \/ Crash \/ Mount \/ Recover \/ Remount \/ BeginSession
    \/ WriteData \/ Create \/ Delete \/ WriteFails
    \/ Commit \/ StartRestore \/ RestorePass \/ EndRestore

FsSpec == FsInit /\ [][FsNext]_fsVars

\* What a synchronous build runs without being asked: disk writes, the passes
\* of a restore (the loop of _fs_api_sync_commit) and a mount.
Fairness ==
    /\ WF_fsVars(DiskWrite)
    /\ WF_fsVars(Mount) /\ WF_fsVars(Recover) /\ WF_fsVars(Remount)
    /\ WF_fsVars(RestorePass) /\ WF_fsVars(EndRestore)

FairSpec == FsSpec /\ Fairness

-----------------------------------------------------------------------------
(* Properties *)

\* fs_devio_read: a read looks in the open map, then the flushed one, then the
\* restoring one, then on the volume (fs_check_mapped_read).
\* Variant for ReadBlock: the map being restored is asked first.
ReadBlockRestoring(v) ==
    LET b == IF restoringMap[v] # 0 THEN restoringMap[v]
             ELSE IF openMap[v] # 0 THEN openMap[v] ELSE flushedMap[v]
    IN  IF b = 0 THEN volume[v] ELSE ValueAt(journal, b)

ReadBlock(v) ==
    LET b == IF openMap[v] # 0 THEN openMap[v]
             ELSE IF flushedMap[v] # 0 THEN flushedMap[v] ELSE restoringMap[v]
    IN  IF b = 0 THEN volume[v] ELSE ValueAt(journal, b)

\* Reads return what was written last, through commits, restores that are half
\* done and restores that are over, and after a crash what the journal kept.
ReadsLatest == Ready => \A v \in Volume : ReadBlock(v) = view[v]

\* fs_api_commit: "When this routine returns succesfully it is guaranteed that
\* the FAT may restored to be consistent with the current applications view."
CommitGuarantee == (~Done /\ Head(io).to = "return") => Recovered = view

\* fs_file_session_info: "stored sequence numbers should increment by one for
\* each frame".  A mount that follows them from the start record comes to
\* every frame that was flushed and is not restored yet.
FlushedIsRead ==
    (Ready /\ flushed_terminal_record # 0) =>
        \E i \in 1 .. Len(Chain(journal, master)) :
            Chain(journal, master)[i] = flushed_terminal_record

\* A mount that has restored the volume finds nothing to restore when it opens
\* the volume again: it neither loops nor copies old blocks over new ones.
NothingLeftToRestore == (mode = "remount" /\ Done) => Ranges = <<>>

\* The promise of FsTxn: commits are atomic and lasting, at every point of
\* every sequence of disk writes, restore passes and repeated crashes.
Txn == INSTANCE FsTxn WITH
    Block <- Volume, Content <- 0 .. InitFree + 2,
    visible <- view, durable <- Recovered,
    committing <- (io # <<>> /\ io[Len(io)].to = "return")
CommitsAtomically == Txn!TxnSpec

\* A cluster freed by a transaction is not allocated again before the
\* transaction is on the volume: as file data does not pass through the
\* journal, it would overwrite a file a crash brings back.
FreeSpaceIsSafe ==
    Ready => known_free_clusters <= volume["fat"] /\ known_free_clusters <= Recovered["fat"]

\* Outside a restore the two copies of the FAT agree, except that the handle
\* may stand in the second.
FatCopiesAgree ==
    (Ready /\ restoring_start_record = 0 /\ ~handle) => fat2 = volume["fat"]

\* A restore that has begun comes to its end: the passes cover all blocks, and
\* the loop of _fs_api_sync_commit is left.
RestoreEnds == (restoring_start_record # 0) ~> (restoring_start_record = 0)

\* fs_failsafe_dskopen restores and mounts again until there is nothing left
\* to restore: once power failures stop, a mount comes to its end.
NoMoreCrashes == <>[][mode' = "down" => mode = "remount"]_fsVars
MountEnds == NoMoreCrashes => []((mode = "down") => <>(mode = "start"))
=============================================================================
