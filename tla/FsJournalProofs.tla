--------------------------- MODULE FsJournalProofs ---------------------------
(***************************************************************************)
(* The journal as FsJournal runs it, with its contents, its disk writes,   *)
(* crashes and mounts, takes no step that JournalRing does not allow: the  *)
(* safety of the space management holds for it as well, for all journal,   *)
(* frame and buffer sizes, data blocks, sessions and both builds.  Every   *)
(* block is where a read looks for it, on the disk or in a write still to  *)
(* come, and a mount that has restored the volume has nothing left to      *)
(* restore.                                                                *)
(*                                                                         *)
(* At the end, what a mount makes of a journal: if the frames of the last  *)
(* session lie on the disk one behind the other, and their marks and       *)
(* free-space signatures are as the journal writes them, a mount comes to  *)
(* the frames that were committed and not restored, to all of them and to  *)
(* no others, and takes the latest copy of every block.                    *)
(***************************************************************************)
EXTENDS FsJournal, JournalRingProofs, SequenceTheorems, WellFoundedInduction

\* A write of one block is an allocation of one block.
LEMMA WriteIsAlloc ==
    ASSUME NEW v, NEW c, Write(v, c)
    PROVE  Alloc \/ UNCHANGED ringVars
<1>1. MayWrite /\ (Rewrite(v, c) \/ WriteInFrame(v, c) \/ WriteInNewFrame(v, c))
  BY Zenon DEF Write
<1>2. CASE Rewrite(v, c)
  BY <1>2, Zenon DEF Rewrite
<1>3. CASE AllocInFrame(1) \/ AllocInNewFrame(1)
  BY <1>1, <1>3, RingAssumption DEF Alloc
<1> QED
  BY <1>1, <1>2, <1>3, Zenon DEF WriteInFrame, WriteInNewFrame

LEMMA StepIsRingStep == [FsNext]_fsVars => [RingNext]_ringVars
<1> SUFFICES ASSUME FsNext PROVE RingNext \/ UNCHANGED ringVars
  BY Zenon DEF fsVars
<1>1. CASE Crash \/ BeginSession
  BY <1>1, Zenon DEF Crash, BeginSession, RingNext
<1>2. CASE DiskWrite \/ Mount \/ Recover \/ Remount \/ RestorePass
  BY <1>2, Zenon DEF DiskWrite, Mount, Recover, Remount, RestorePass
<1>3. CASE WriteData \/ Create \/ Delete
  <2>1. PICK v, c : Write(v, c)
    BY <1>3, Zenon DEF WriteData, Create, Delete
  <2> QED
    BY <2>1, WriteIsAlloc, Zenon DEF RingNext
<1>4. CASE WriteFails
  BY <1>4, Zenon DEF WriteFails, Alloc, RingNext
<1>5. CASE Commit
  BY <1>5, Zenon DEF Commit, RingNext
<1>6. CASE StartRestore \/ EndRestore
  BY <1>6, Zenon DEF StartRestore, EndRestore, RingNext
<1> QED
  BY <1>1, <1>2, <1>3, <1>4, <1>5, <1>6, Zenon DEF FsNext

\* Every behaviour of the journal with its contents is one of its space management.
THEOREM JournalIsRing == FsSpec => RingSpec
<1>1. FsInit => RingInit
  BY Zenon DEF FsInit
<1> QED
  BY <1>1, StepIsRingStep, PTL DEF FsSpec, RingSpec

\* The space management is in order in every state of the journal.
THEOREM JournalSpaceCorrect == FsSpec => []RingInv
  BY JournalIsRing, RingInvariant, PTL

\* Writes, commits, restores, crashes and mounts put no block on one that is
\* still needed.
THEOREM JournalKeepsLive == FsSpec => NoLiveOverwrite
  BY JournalIsRing, NoLiveBlockOverwritten, PTL

\* Without asynchronous restores the master's start record comes before every
\* frame a mount still needs, also while the frame writes are on their way.
THEOREM JournalStartLeads ==
    ASSUME AsyncRestore = FALSE
    PROVE  FsSpec => []SessionStartBeforeLive
  BY JournalIsRing, StartRecordLeads, PTL

-----------------------------------------------------------------------------
(* Where the maps point: the blocks in use, and the headers among them, are *)
(* out of reach of the allocations to come.                                 *)

MapsTyped ==
    /\ openMap \in [Volume -> 0 .. FileSize - 1]
    /\ flushedMap \in [Volume -> 0 .. FileSize - 1]
    /\ restoringMap \in [Volume -> 0 .. FileSize - 1]
    /\ mode # "up" => openMap = NoMap /\ flushedMap = NoMap /\ restoringMap = NoMap
    /\ flushed_start_record = 0 => flushedMap = NoMap
    /\ restoring_start_record = 0 => restoringMap = NoMap
    /\ restoring_start_record # 0 => flushed_start_record = 0 /\ restoring_terminal_record # 0
    /\ mode = "up" => (restoring_start_record = 0 <=> restore_state = "none")
    /\ open_current_frame # 0 =>
           open_recs \in Seq(Volume) /\ Len(open_recs) = open_current_used

\* A block stays mapped after a journal-full error has taken it out of its
\* session ("lost"): it is not in a region of JournalRing, but still out of reach.
MapsFar ==
    \A v \in Volume :
        /\ openMap[v] # 0 =>
              /\ Distance(openMap[v]) >= frames_free + Held
              /\ flushed_start_record # 0 => Distance(openMap[v]) > Distance(flushed_last_block)
        /\ flushedMap[v] # 0 => Distance(flushedMap[v]) >= frames_free
        /\ restoringMap[v] # 0 => Distance(restoringMap[v]) >= frames_free

\* A block that may be written over belongs to one entry of the open map only.
MapsApart ==
    \A v, w \in Volume :
        openMap[v] # 0 =>
            /\ v # w => openMap[w] # openMap[v]
            /\ openMap[v] # flushedMap[w] /\ openMap[v] # restoringMap[w]

Headers == {open_current_frame, flushed_terminal_record, restoring_terminal_record} \ {0}

HeadersApart ==
    /\ \A v \in Volume : {openMap[v], flushedMap[v], restoringMap[v]} \cap Headers = {}
    /\ open_current_frame # 0 => holds[open_current_frame] = "open"
    /\ flushed_terminal_record # 0 => holds[flushed_terminal_record] = "flushed"
    /\ restoring_terminal_record # 0 => holds[restoring_terminal_record] = "restoring"

MapsInv == RingInv /\ MapsTyped /\ MapsFar /\ MapsApart /\ HeadersApart

\* An allocation moves the cursor by the blocks it takes: they end up behind
\* it, the blocks beyond the free run come nearer by their number.
LEMMA AllocMoves ==
    ASSUME RingInv, NEW n \in Nat, AllocInFrame(n) \/ AllocInNewFrame(n)
    PROVE  /\ frames_free' \in 0 .. frames_free
           /\ \A b \in written' :
                 /\ b \in Blocks /\ Distance(b) < frames_free
                 /\ b \notin NullBlocks \/ AllocInFrame(n) =>
                       Distance(b)' >= FileSize - 1 - (frames_free - frames_free')
           /\ \A b \in Blocks :
                 Distance(b) >= frames_free => Distance(b)' = Distance(b) - (frames_free - frames_free')
<1> USE RingAssumption
<1> DEFINE cost == frames_free - frames_free'
<1>1. CountersOK /\ OpenFrameFits
  BY DEF RingInv, RingTypeOK
<1>2. CASE AllocInFrame(n)
  <2>1. /\ n \in 1 .. open_current_free /\ n <= frames_free
        /\ next_free_frame + n <= FileSize
        /\ next_free_frame' = next_free_frame + n /\ frames_free' = frames_free - n
        /\ written' = next_free_frame .. next_free_frame + n - 1
    BY <1>1, <1>2 DEF AllocInFrame, OpenFrameFits, CountersOK
  <2>2. frames_free' \in 0 .. frames_free
    BY <1>1, <2>1 DEF CountersOK
  <2>3. ASSUME NEW b \in written'
        PROVE  /\ b \in Blocks /\ Distance(b) < frames_free
               /\ Distance(b)' >= FileSize - 1 - cost
    BY <1>1, <2>1 DEF Distance, RingDistance, Blocks, CountersOK
  <2>4. ASSUME NEW b \in Blocks, Distance(b) >= frames_free
        PROVE  Distance(b)' = Distance(b) - cost
    BY <1>1, <2>1, <2>4 DEF Distance, RingDistance, Blocks, CountersOK
  <2> QED
    BY <2>2, <2>3, <2>4
<1>3. CASE AllocInNewFrame(n)
  <2>1. /\ NewFrame \in Blocks
        /\ Room \in Nat /\ Room >= 2 /\ NewFrame + Room <= FileSize
        /\ FreeAfterNull \in 2 .. frames_free
    BY <1>1, <1>3, NewFramePlace DEF AllocInNewFrame, CountersOK, RingInv
  <2>2. RoomInNewFrame \in 1 .. Room - 1
    BY <2>1, NewFrameRoom DEF RoomInNewFrame
  <2>3. /\ n \in 0 .. RoomInNewFrame
        /\ IF n = 0 THEN FreeAfterNull - 1 < RoomInNewFrame ELSE n <= FreeAfterNull - 1
        /\ next_free_frame' = NewFrame + 1 + n
        /\ frames_free' = FreeAfterNull - 1 - n
        /\ written' = NullBlocks \union (NewFrame .. NewFrame + n)
    BY <1>3, Zenon DEF AllocInNewFrame
  <2>4. /\ n <= FreeAfterNull - 1
        /\ NewFrame + n <= FileSize - 1
        /\ frames_free' \in 0 .. frames_free /\ cost \in n + 1 .. n + 2
    BY <1>1, <2>1, <2>2, <2>3 DEF Blocks, CountersOK, FreeAfterNull
  <2>5. ASSUME NEW b \in written' PROVE b \in Blocks /\ Distance(b) < frames_free
    BY <1>1, <2>1, <2>2, <2>3, <2>4
    DEF Distance, RingDistance, Blocks, CountersOK, NullBlocks, NewFrame, Wraps, NeedsNullFrame,
        BlocksToEnd, FreeAfterNull
  <2>6. ASSUME NEW b \in NewFrame .. NewFrame + n
        PROVE  Distance(b)' >= FileSize - 1 - cost
    BY <1>1, <2>1, <2>3, <2>4 DEF Distance, RingDistance, Blocks, CountersOK
  <2>7. ASSUME NEW b \in Blocks, Distance(b) >= frames_free
        PROVE  Distance(b)' = Distance(b) - cost
    BY <1>1, <2>1, <2>3, <2>4, <2>7
    DEF Distance, RingDistance, Blocks, CountersOK, NewFrame, Wraps, NeedsNullFrame, BlocksToEnd,
        FreeAfterNull
  <2>8. \A b \in written' : b \notin NullBlocks => b \in NewFrame .. NewFrame + n
    BY <2>3
  <2>9. ~AllocInFrame(n)
    BY <1>3 DEF AllocInFrame, AllocInNewFrame
  <2> QED
    BY <2>4, <2>5, <2>6, <2>7, <2>8, <2>9
<1> QED
  BY <1>2, <1>3

LEMMA RingStep == ASSUME RingInv, [FsNext]_fsVars PROVE RingInv'
  BY StepIsRingStep, StepInv, StutterInv

\* Nothing is mapped when journaling starts.
LEMMA StartMaps ==
    ASSUME RingInv', StartJournaling, InMemory
    PROVE  MapsInv'
<1> USE RingAssumption
<1>1. /\ openMap' = NoMap /\ flushedMap' = NoMap /\ restoringMap' = NoMap /\ open_recs' = <<>>
      /\ restore_state' = "none"
      /\ open_current_frame' = 1 /\ open_current_used' = 0
      /\ flushed_start_record' = 0 /\ flushed_terminal_record' = 0
      /\ restoring_start_record' = 0 /\ restoring_terminal_record' = 0
      /\ holds' = [b \in Blocks |-> IF b = 1 THEN "open" ELSE "free"]
  BY DEF StartJournaling, InMemory
<1>2. \A v \in Volume : openMap'[v] = 0 /\ flushedMap'[v] = 0 /\ restoringMap'[v] = 0
  BY <1>1 DEF NoMap
<1>3. MapsTyped'
  BY <1>1 DEF MapsTyped, NoMap
<1>4. MapsFar' /\ MapsApart'
  BY <1>2 DEF MapsFar, MapsApart
<1>5. HeadersApart'
  BY <1>1, <1>2 DEF HeadersApart, Headers, Blocks
<1> QED
  BY <1>3, <1>4, <1>5 DEF MapsInv

\* Steps that leave the journal's memory alone.
LEMMA SameMaps ==
    ASSUME MapsInv, UNCHANGED <<ringVars, mapVars>>,
           mode' = mode \/ (mode' # "up" /\ mode # "up"),
           mode' = "up" => (restore_state' = "none" <=> restore_state = "none")
    PROVE  MapsInv'
<1>1. /\ RingInv'
      /\ UNCHANGED <<next_free_frame, frames_free, open_current_frame, open_current_used,
                     flushed_start_record, flushed_terminal_record, flushed_last_block,
                     restoring_start_record, restoring_terminal_record, restoring_last_block,
                     holds, openMap, flushedMap, restoringMap, open_recs>>
  BY StutterInv DEF ringVars, cursors, openVars, flushedVars, restoringVars, mapVars, MapsInv
<1>2. MapsTyped'
  BY <1>1 DEF MapsInv, MapsTyped
<1>3. MapsFar'
  BY <1>1 DEF MapsInv, MapsFar, Distance, RingDistance, Held, RegionSize
<1>4. MapsApart' /\ HeadersApart'
  BY <1>1, Zenon DEF MapsInv, MapsApart, HeadersApart, Headers
<1> QED
  BY <1>1, <1>2, <1>3, <1>4 DEF MapsInv

LEMMA MappedFar ==
    ASSUME MapsInv, NEW v \in Volume, NEW b \in {openMap[v], flushedMap[v], restoringMap[v]}, b # 0
    PROVE  b \in Blocks /\ Distance(b) >= frames_free
<1>1. b \in Blocks
  BY RingAssumption DEF MapsInv, MapsTyped, Blocks
<1>2. Held \in Nat
  BY RingAssumption DEF MapsInv, RingInv, RingTypeOK, CountersOK, Held, RegionSize, OpenFrameFits
<1> QED
  BY <1>1, <1>2, DistanceRange DEF MapsInv, MapsFar, RingInv, RingTypeOK, CountersOK

\* A block that an allocation hands out is not in use.
LEMMA NewIsUnused ==
    ASSUME MapsInv, NEW n \in Nat, AllocInFrame(n) \/ AllocInNewFrame(n), NEW b \in written'
    PROVE  /\ b \in Blocks /\ b \notin Headers
           /\ \A v \in Volume : b \notin {openMap[v], flushedMap[v], restoringMap[v]}
<1>1. b \in Blocks /\ Distance(b) < frames_free
  BY AllocMoves DEF MapsInv
<1>2. Distance(b) \in Int /\ frames_free \in Int
  BY <1>1, DistanceRange, RingAssumption DEF MapsInv, RingInv, RingTypeOK, CountersOK
<1>3. b \notin Headers
  <2>1. holds[b] \notin Live
    BY <1>1, <1>2, LiveIsFar DEF MapsInv
  <2> QED
    BY <2>1 DEF MapsInv, HeadersApart, Headers, Live
<1>4. \A v \in Volume : b \notin {openMap[v], flushedMap[v], restoringMap[v]}
  BY <1>1, <1>2, MappedFar, RingAssumption DEF Blocks
<1> QED
  BY <1>1, <1>3, <1>4

\* One more block in the open map, and perhaps a new frame for it.
LEMMA NewBlockMaps ==
    ASSUME MapsInv, RingInv', AllocInFrame(1) \/ AllocInNewFrame(1),
           NEW v \in Volume, openMap[v] = 0,
           NEW b \in written', b \notin NullBlocks \/ AllocInFrame(1),
           b # open_current_frame', holds'[b] = "open",
           openMap' = [openMap EXCEPT ![v] = b],
           open_current_frame' \in written' \/ open_current_frame' = open_current_frame,
           open_current_frame' # 0 => holds'[open_current_frame'] = "open",
           UNCHANGED <<flushedMap, restoringMap, flushedVars, restoringVars>>
    PROVE  MapsFar' /\ MapsApart' /\ HeadersApart'
<1> USE RingAssumption
<1>0. /\ UNCHANGED <<flushed_start_record, flushed_terminal_record, flushed_last_block,
                     restoring_start_record, restoring_terminal_record, restoring_last_block>>
      /\ MapsTyped /\ CountersOK
  BY DEF flushedVars, restoringVars, MapsInv, RingInv, RingTypeOK
<1>1. /\ b \in Blocks /\ b \notin Headers
      /\ \A w \in Volume : b \notin {openMap[w], flushedMap[w], restoringMap[w]}
  BY NewIsUnused
<1>2. /\ openMap'[v] = b
      /\ \A w \in Volume \ {v} : openMap'[w] = openMap[w]
  BY <1>0 DEF MapsTyped
<1>3. Held' = Held /\ Held \in Nat
  BY <1>0 DEF Held, RegionSize, MapsInv, RingInv, RingTypeOK, CountersOK, OpenFrameFits
<1>4. /\ frames_free' \in 0 .. frames_free
      /\ Distance(b)' >= FileSize - 1 - (frames_free - frames_free')
      /\ \A k \in Blocks :
            Distance(k) >= frames_free => Distance(k)' = Distance(k) - (frames_free - frames_free')
  BY AllocMoves DEF MapsInv
<1>5. ASSUME NEW w \in Volume, NEW k \in {openMap[w], flushedMap[w], restoringMap[w]}, k # 0
      PROVE  /\ k \in Blocks /\ Distance(k) \in 0 .. FileSize - 2
             /\ Distance(k)' = Distance(k) - (frames_free - frames_free')
  BY <1>4, <1>5, MappedFar, DistanceRange DEF MapsInv, RingInv
<1>6. MapsFar'
  <2>1. ASSUME NEW w \in Volume, w # v, openMap[w] # 0
        PROVE  Distance(openMap[w])' >= frames_free' + Held
    BY <2>1, <1>0, <1>3, <1>4, <1>5 DEF MapsInv, MapsFar, CountersOK
  <2>0. Distance(b)' \in Int
    <3>1. next_free_frame' \in 2 .. FileSize
      BY Zenon DEF RingInv, RingTypeOK, CountersOK
    <3> QED
      BY <3>1, <1>1 DEF Blocks, Distance, RingDistance
  <2>2. Distance(b)' >= frames_free' + Held
    <3>1. FilledFrom' # 0 /\ Distance(b)' >= Distance(FilledFrom)'
      BY <1>1 DEF RingInv, RegionsInOrder
    <3>2. frames_free' + Held' <= Distance(FilledFrom)'
      BY <3>1 DEF RingInv, Accounting
    <3>3. Distance(FilledFrom)' \in Int
      BY <3>1 DEF RingInv, RingTypeOK, CountersOK, Distance, RingDistance, FilledFrom
    <3> QED
      BY <3>1, <3>2, <3>3, <2>0, <1>0, <1>3, <1>4 DEF CountersOK
  <2>3. flushed_start_record # 0 =>
           /\ flushed_last_block \in Blocks /\ Distance(flushed_last_block) \in 0 .. FileSize - 2
           /\ Distance(flushed_last_block)' = Distance(flushed_last_block) - (frames_free - frames_free')
    <3> HAVE flushed_start_record # 0
    <3>1. /\ flushed_last_block \in Blocks
          /\ Distance(flushed_last_block) >= Distance(flushed_start_record)
          /\ frames_free + Held <= Distance(flushed_start_record)
      BY <1>0 DEF MapsInv, RingInv, RegionsInOrder, Accounting, FilledFrom, CountersOK, Blocks
    <3>2. /\ Distance(flushed_last_block) \in 0 .. FileSize - 2
          /\ Distance(flushed_start_record) \in 0 .. FileSize - 2
      BY <3>1, <1>0, DistanceRange DEF MapsInv, RingInv, Blocks, CountersOK
    <3> QED
      BY <3>1, <3>2, <1>0, <1>3, <1>4 DEF CountersOK
  <2>4. ASSUME NEW w \in Volume, w # v, openMap[w] # 0, flushed_start_record # 0
        PROVE  Distance(openMap[w])' > Distance(flushed_last_block)'
    BY <2>3, <2>4, <1>0, <1>4, <1>5 DEF MapsInv, MapsFar, CountersOK
  <2>5. flushed_start_record # 0 => Distance(b)' > Distance(flushed_last_block)'
    BY <2>0, <2>3, <1>0, <1>1, <1>4 DEF CountersOK
  <2>6. ASSUME NEW w \in Volume, NEW k \in {flushedMap[w], restoringMap[w]}, k # 0
        PROVE  Distance(k)' >= frames_free'
    BY <2>6, <1>0, <1>4, <1>5, MappedFar DEF CountersOK
  <2>7. ASSUME NEW w \in Volume
        PROVE  /\ openMap'[w] # 0 =>
                    /\ Distance(openMap[w])' >= frames_free' + Held'
                    /\ flushed_start_record' # 0 => Distance(openMap[w])' > Distance(flushed_last_block)'
               /\ flushedMap'[w] # 0 => Distance(flushedMap[w])' >= frames_free'
               /\ restoringMap'[w] # 0 => Distance(restoringMap[w])' >= frames_free'
    <3>1. CASE w = v
      BY <3>1, <2>2, <2>5, <2>6, <1>0, <1>2, <1>3 DEF Distance
    <3>2. CASE w # v
      BY <3>2, <2>1, <2>4, <2>6, <1>0, <1>2, <1>3 DEF Distance
    <3> QED
      BY <3>1, <3>2
  <2> QED
    BY <2>7 DEF MapsFar
<1>7. MapsApart'
  BY <1>0, <1>1, <1>2 DEF MapsInv, MapsApart
<1>8. HeadersApart'
  <2>1. /\ Headers' \subseteq Headers \union {open_current_frame'}
        /\ b \notin Headers'
    BY <1>0, <1>1 DEF Headers
  <2>2. ASSUME NEW w \in Volume, NEW k \in {openMap[w], flushedMap[w], restoringMap[w]}
        PROVE  k \notin Headers'
    <3>1. k \notin Headers
      BY DEF MapsInv, HeadersApart
    <3>2. CASE open_current_frame' \in written'
      <4>1. k # open_current_frame'
        BY <3>2, NewIsUnused
      <4> QED
        BY <3>1, <4>1, <2>1
    <3>3. CASE open_current_frame' = open_current_frame
      BY <3>1, <3>3, <1>0 DEF Headers
    <3> QED
      BY <3>2, <3>3
  <2>3. ASSUME NEW h \in {flushed_terminal_record, restoring_terminal_record}, h # 0
        PROVE  holds'[h] = holds[h]
    <3>1. h \in Blocks /\ holds[h] \in Live
      BY <2>3, <1>0 DEF MapsInv, HeadersApart, CountersOK, Blocks, Live
    <3>2. h \notin written'
      BY <2>3, NewIsUnused DEF Headers
    <3>3. NullBlocks \subseteq written' \/ AllocInFrame(1)
      BY DEF AllocInNewFrame
    <3> QED
      BY <3>1, <3>2, <3>3 DEF AllocInFrame, AllocInNewFrame
  <2>4. \A w \in Volume : {openMap'[w], flushedMap'[w], restoringMap'[w]} \cap Headers' = {}
    BY <2>1, <2>2, <1>0, <1>2
  <2> QED
    BY <2>3, <2>4, <1>0 DEF MapsInv, HeadersApart
<1> QED
  BY <1>6, <1>7, <1>8

LEMMA WriteMaps ==
    ASSUME MapsInv, RingInv', NEW v \in Volume, NEW c, Write(v, c)
    PROVE  MapsInv'
<1> USE RingAssumption
<1>0. RingTypeOK /\ CountersOK /\ OpenFrameFits
  BY DEF MapsInv, RingInv, RingTypeOK
<1>1. /\ mode = "up" /\ mode' = mode /\ restore_state' = restore_state
      /\ Rewrite(v, c) \/ WriteInFrame(v, c) \/ WriteInNewFrame(v, c)
  BY Zenon DEF Write, Ready, restoreVars
<1>2. CASE Rewrite(v, c)
  <2>1. UNCHANGED <<ringVars, mapVars>>
    BY <1>2, Zenon DEF Rewrite
  <2> QED
    BY <2>1, <1>1, SameMaps
<1>3. CASE WriteInFrame(v, c)
  <2>1. /\ openMap[v] = 0 /\ AllocInFrame(1)
        /\ openMap' = [openMap EXCEPT ![v] = next_free_frame]
        /\ open_recs' = Append(open_recs, v)
        /\ UNCHANGED <<flushedMap, restoringMap>>
    BY <1>3, Zenon DEF WriteInFrame
  <2>2. /\ 1 \in 1 .. open_current_free
        /\ open_current_used' = open_current_used + 1
        /\ written' = next_free_frame .. next_free_frame + 1 - 1
        /\ holds' = [b \in Blocks |-> IF b \in written' THEN "open" ELSE holds[b]]
        /\ UNCHANGED <<open_current_frame, flushedVars, restoringVars>>
    BY <2>1, Zenon DEF AllocInFrame
  <2>3. /\ next_free_frame \in written' /\ open_current_frame # 0
        /\ open_current_frame \in Blocks /\ next_free_frame # open_current_frame
    BY <2>2, <1>0 DEF CountersOK, OpenFrameFits, Blocks
  <2>4. next_free_frame \in Blocks
    BY <2>1, <2>3, NewIsUnused
  <2>5. holds'[next_free_frame] = "open" /\ holds'[open_current_frame] = "open"
    BY <2>2, <2>3, <2>4 DEF MapsInv, HeadersApart
  <2>6. MapsFar' /\ MapsApart' /\ HeadersApart'
    BY <2>1, <2>2, <2>3, <2>5, NewBlockMaps
  <2>7. MapsTyped'
    BY SMTT(20), <2>1, <2>2, <2>3, <2>4, <1>1
    DEF MapsInv, MapsTyped, flushedVars, restoringVars, RingInv, RingTypeOK, CountersOK, Blocks
  <2> QED
    BY <2>6, <2>7 DEF MapsInv
<1>4. CASE WriteInNewFrame(v, c)
  <2>1. /\ openMap[v] = 0 /\ AllocInNewFrame(1)
        /\ openMap' = [openMap EXCEPT ![v] = NewFrame + 1]
        /\ open_recs' = <<v>>
        /\ UNCHANGED <<flushedMap, restoringMap>>
    BY <1>4, Zenon DEF WriteInNewFrame
  <2>2. /\ ~OpenFrameFails /\ 1 \in 0 .. RoomInNewFrame
        /\ open_current_used' = 1 /\ open_current_frame' = NewFrame
        /\ written' = NullBlocks \union (NewFrame .. NewFrame + 1)
        /\ holds' = [b \in Blocks |-> IF b \in NullBlocks THEN "null"
                                      ELSE IF b \in written' THEN "open" ELSE holds[b]]
        /\ UNCHANGED <<flushedVars, restoringVars>>
    BY <2>1, Zenon DEF AllocInNewFrame
  <2>3. /\ NewFrame \in Blocks
        /\ Room \in Nat /\ Room >= 2 /\ NewFrame + Room <= FileSize
        /\ FreeAfterNull \in 2 .. frames_free
    BY <2>2, <1>0, NewFramePlace DEF CountersOK
  <2>4. /\ NewFrame \in written' /\ NewFrame + 1 \in written'
        /\ NewFrame \notin NullBlocks /\ NewFrame + 1 \notin NullBlocks
        /\ NewFrame + 1 \in Blocks
    BY <2>2, <2>3, <1>0 DEF CountersOK, NullBlocks, NewFrame, Wraps, NeedsNullFrame, BlocksToEnd,
       Blocks, FreeAfterNull
  <2>5. holds'[NewFrame] = "open" /\ holds'[NewFrame + 1] = "open"
    BY <2>2, <2>3, <2>4
  <2>6. MapsFar' /\ MapsApart' /\ HeadersApart'
    <3>1. NewFrame + 1 # open_current_frame' /\ open_current_frame' \in written'
          /\ holds'[open_current_frame'] = "open"
      BY <2>2, <2>3, <2>4, <2>5 DEF Blocks
    <3> QED
      BY <3>1, <2>1, <2>2, <2>4, <2>5, NewBlockMaps
  <2>7. MapsTyped'
    BY <2>1, <2>2, <2>4, <1>1
    DEF MapsInv, MapsTyped, flushedVars, restoringVars, Blocks
  <2> QED
    BY <2>6, <2>7 DEF MapsInv
<1> QED
  BY <1>1, <1>2, <1>3, <1>4

\* A journal-full error takes at most the last block of the free run.
LEMMA WriteFailsMaps ==
    ASSUME MapsInv, RingInv', WriteFails
    PROVE  MapsInv'
<1> USE RingAssumption
<1>1. /\ mode = "up" /\ mode' = mode /\ restore_state' = restore_state
      /\ JournalFull
      /\ UNCHANGED <<openMap, flushedMap, restoringMap, open_recs>>
  BY Zenon DEF WriteFails, Ready, restoreVars, mapVars
<1>2. /\ open_current_frame' = 0
      /\ UNCHANGED <<next_free_frame, flushed_start_record, flushed_terminal_record,
                     flushed_last_block, restoring_start_record, restoring_terminal_record,
                     restoring_last_block>>
  BY <1>1, Zenon DEF JournalFull, flushedVars, restoringVars
<1>3. frames_free' <= frames_free /\ frames_free \in Int /\ frames_free' \in Int
  BY <1>1 DEF JournalFull, FreeAfterNull, MapsInv, RingInv, RingTypeOK, CountersOK
<1>4. MapsTyped' /\ MapsApart'
  BY <1>1, <1>2 DEF MapsInv, MapsTyped, MapsApart
<1>5. MapsFar'
  <2>1. Held' = Held /\ Held \in Nat
    BY <1>2 DEF Held, RegionSize, MapsInv, RingInv, RingTypeOK, CountersOK, OpenFrameFits
  <2>2. \A b \in Blocks : Distance(b)' = Distance(b) /\ Distance(b) \in Int
    BY <1>2, DistanceRange DEF Distance, MapsInv, RingInv
  <2>3. ASSUME NEW v \in Volume, NEW k \in {openMap[v], flushedMap[v], restoringMap[v]}, k # 0
        PROVE  k \in Blocks /\ Distance(k)' = Distance(k) /\ Distance(k) \in Int
    BY <2>2, <2>3, MappedFar
  <2>4. Distance(flushed_last_block)' = Distance(flushed_last_block)
    BY <1>2 DEF Distance
  <2>5. ASSUME NEW v \in Volume, openMap[v] # 0
        PROVE  /\ Distance(openMap[v])' >= frames_free' + Held'
               /\ flushed_start_record' # 0 => Distance(openMap[v])' > Distance(flushed_last_block)'
    <3>1. /\ Distance(openMap[v]) >= frames_free + Held
          /\ flushed_start_record # 0 => Distance(openMap[v]) > Distance(flushed_last_block)
      BY <2>5 DEF MapsInv, MapsFar
    <3> QED
      BY <3>1, <2>1, <2>3, <2>4, <2>5, <1>1, <1>2, <1>3
  <2>6. ASSUME NEW v \in Volume, NEW k \in {flushedMap[v], restoringMap[v]}, k # 0
        PROVE  Distance(k)' >= frames_free'
    BY <2>3, <2>6, <1>3, MappedFar
  <2> QED
    BY <2>5, <2>6, <1>1 DEF MapsFar, Distance
<1>6. HeadersApart'
  <2>1. Headers' \subseteq Headers
    BY <1>2 DEF Headers
  <2>2. ASSUME NEW h \in {flushed_terminal_record, restoring_terminal_record}, h # 0
        PROVE  holds'[h] = holds[h]
    <3>1. h \in Blocks /\ holds[h] \in Live
      <4>1. CountersOK
        BY DEF MapsInv, RingInv, RingTypeOK
      <4> QED
        BY <2>2, <4>1 DEF MapsInv, HeadersApart, CountersOK, Blocks, Live
    <3>2. h \notin written'
      BY <3>1, <1>1, JournalFullInv DEF MapsInv
    <3> QED
      BY <3>1, <3>2, <1>1 DEF JournalFull
  <2> QED
    BY <2>1, <2>2, <1>1, <1>2 DEF MapsInv, HeadersApart
<1> QED
  BY <1>4, <1>5, <1>6 DEF MapsInv

LEMMA CommitMaps ==
    ASSUME MapsInv, RingInv', Commit
    PROVE  MapsInv'
<1> USE RingAssumption
<1>0. CountersOK /\ OpenFrameFits
  BY DEF MapsInv, RingInv, RingTypeOK
<1>1. /\ mode = "up" /\ mode' = mode /\ restore_state' = restore_state
      /\ restoring_start_record = 0 /\ UNCHANGED restoringMap
  BY Zenon DEF Commit, Ready, restoreVars
<1>2. CASE ~open_remapped
  <2>1. UNCHANGED <<ringVars, mapVars>>
    BY <1>1, <1>2, Zenon DEF Commit, mapVars
  <2> QED
    BY <2>1, <1>1, SameMaps
<1>3. CASE open_remapped
  <2>1. /\ Flush
        /\ flushedMap' = Overlay(openMap, flushedMap)
        /\ openMap' = NoMap /\ open_recs' = <<>>
    BY <1>3, Zenon DEF Commit
  <2>2. /\ flushed_start_record' = FlushStart
        /\ flushed_terminal_record' = open_current_frame
        /\ open_current_frame' = 0
        /\ holds' = [b \in Blocks |-> IF holds[b] = "open" THEN "flushed" ELSE holds[b]]
        /\ UNCHANGED <<next_free_frame, frames_free, restoring_start_record,
                       restoring_terminal_record, restoring_last_block>>
    BY <2>1, Zenon DEF Flush, cursors, restoringVars
  <2>3. /\ \A v \in Volume : openMap'[v] = 0 /\ restoringMap'[v] = 0
        /\ \A v \in Volume : flushedMap'[v] \in {openMap[v], flushedMap[v]}
        /\ flushedMap' \in [Volume -> 0 .. FileSize - 1]
    BY <1>1, <2>1 DEF NoMap, Overlay, MapsInv, MapsTyped
  <2>4. open_current_frame \in Blocks /\ FlushStart # 0
    BY <1>0, <1>3 DEF OpenFrameFits, CountersOK, FlushStart, Blocks
  <2>5. MapsTyped'
    BY <1>1, <2>1, <2>2, <2>3, <2>4 DEF MapsInv, MapsTyped, NoMap
  <2>6. MapsFar'
    <3>1. ASSUME NEW v \in Volume, flushedMap'[v] # 0
          PROVE  Distance(flushedMap'[v]) >= frames_free
      BY <3>1, <2>3, MappedFar
    <3> QED
      BY <3>1, <2>2, <2>3 DEF MapsFar, Distance
  <2>7. MapsApart'
    BY <2>3 DEF MapsApart
  <2>8. HeadersApart'
    <3>1. Headers' \subseteq Headers /\ 0 \notin Headers'
      BY <2>2 DEF Headers
    <3>2. \A v \in Volume : {openMap'[v], flushedMap'[v], restoringMap'[v]} \cap Headers' = {}
      BY <3>1, <2>3 DEF MapsInv, HeadersApart
    <3>3. holds'[open_current_frame] = "flushed"
      BY <2>2, <2>4 DEF MapsInv, HeadersApart, Blocks
    <3>4. restoring_terminal_record # 0 => holds'[restoring_terminal_record] = "restoring"
      BY <2>2, <1>0 DEF MapsInv, HeadersApart, CountersOK, Blocks
    <3> QED
      BY <3>2, <3>3, <3>4, <2>2 DEF HeadersApart
  <2> QED
    BY <2>5, <2>6, <2>7, <2>8 DEF MapsInv
<1> QED
  BY <1>2, <1>3

\* The region being restored and the blocks still mapped behind it do not meet.
LEMMA StartRestoreMaps ==
    ASSUME MapsInv, RingInv', StartRestore
    PROVE  MapsInv'
<1> USE RingAssumption
<1>0. CountersOK /\ OpenFrameFits /\ RegionsInOrder /\ Accounting
  BY DEF MapsInv, RingInv, RingTypeOK
<1>1. /\ mode = "up" /\ mode' = mode /\ restore_state' = "mark" /\ ~open_remapped /\ RestoreStart
      /\ restoringMap' = flushedMap /\ flushedMap' = NoMap
      /\ UNCHANGED <<openMap, open_recs>>
  BY Zenon DEF StartRestore, Ready
<1>2. /\ restoring_start_record = 0
      /\ flushed_start_record # 0 /\ flushed_terminal_record # 0
      /\ restoring_start_record' = flushed_start_record
      /\ restoring_terminal_record' = flushed_terminal_record
      /\ restoring_last_block' = flushed_last_block
      /\ open_current_frame' = 0
      /\ flushed_start_record' = 0 /\ flushed_terminal_record' = 0
      /\ UNCHANGED <<next_free_frame, frames_free>>
  BY <1>1, Zenon DEF RestoreStart, cursors
<1>3. holds' = [b \in Blocks |->
                   CASE holds[b] = "flushed" -> "restoring"
                     [] holds[b] = "open" -> IF open_remapped THEN "restoring" ELSE "lost"
                     [] OTHER -> holds[b]]
  BY <1>1, Zenon DEF RestoreStart
<1>4. \A v \in Volume : flushedMap'[v] = 0
  BY <1>1 DEF NoMap
<1>5. MapsTyped'
  BY <1>1, <1>2 DEF MapsInv, MapsTyped, NoMap
<1>6. MapsFar'
  <2>1. Held = 0 /\ frames_free <= Distance(flushed_start_record)
    BY <1>0, <1>2 DEF Held, Accounting, FilledFrom, CountersOK
  <2>2. /\ flushed_last_block # 0
        /\ Distance(flushed_last_block) >= Distance(flushed_start_record)
    BY <1>0, <1>2 DEF RegionsInOrder
  <2>3. Held' = 1 + Distance(flushed_last_block) - Distance(flushed_start_record)
    BY <1>0, <1>2, <2>2 DEF Held, RegionSize, Distance, RingDistance, CountersOK
  <2>4. /\ Distance(flushed_last_block) \in Int /\ Distance(flushed_start_record) \in Int
    BY <1>0, <1>2, <2>2 DEF Distance, RingDistance, CountersOK
  <2>5. ASSUME NEW v \in Volume, openMap[v] # 0
        PROVE  Distance(openMap[v]) >= frames_free + Held'
    <3>1. Distance(openMap[v]) > Distance(flushed_last_block)
      BY <2>5, <1>2 DEF MapsInv, MapsFar
    <3>2. Distance(openMap[v]) \in Int
      BY <2>5, MappedFar, DistanceRange DEF MapsInv, RingInv
    <3> QED
      BY <3>1, <3>2, <2>1, <2>3, <2>4, <1>0 DEF CountersOK
  <2>6. ASSUME NEW v \in Volume, flushedMap[v] # 0
        PROVE  Distance(flushedMap[v]) >= frames_free
    BY <2>6, MappedFar
  <2> QED
    BY <2>5, <2>6, <1>1, <1>2, <1>4 DEF MapsFar, Distance
<1>7. MapsApart'
  BY <1>1, <1>4 DEF MapsInv, MapsApart, MapsTyped
<1>8. HeadersApart'
  <2>1. Headers' \subseteq Headers /\ 0 \notin Headers'
    BY <1>2 DEF Headers
  <2>2. \A v \in Volume : {openMap'[v], flushedMap'[v], restoringMap'[v]} \cap Headers' = {}
    BY <2>1, <1>1, <1>4 DEF MapsInv, HeadersApart
  <2>3. holds'[flushed_terminal_record] = "restoring"
    BY SMTT(20), <1>0, <1>2, <1>3 DEF MapsInv, HeadersApart, CountersOK, Blocks
  <2> QED
    BY <2>2, <2>3, <1>2 DEF HeadersApart
<1> QED
  BY <1>5, <1>6, <1>7, <1>8 DEF MapsInv

LEMMA EndRestoreMaps ==
    ASSUME MapsInv, RingInv', EndRestore
    PROVE  MapsInv'
<1> USE RingAssumption
<1>0. CountersOK /\ OpenFrameFits
  BY DEF MapsInv, RingInv, RingTypeOK
<1>1. /\ mode = "up" /\ mode' = mode /\ restore_state' = "none" /\ RestoreComplete
      /\ restoringMap' = NoMap
      /\ UNCHANGED <<openMap, flushedMap, open_recs>>
  BY Zenon DEF EndRestore, Ready
<1>2. /\ restoring_start_record # 0
      /\ frames_free' = frames_free + RegionSize(restoring_start_record, restoring_last_block)
      /\ restoring_start_record' = 0 /\ restoring_terminal_record' = 0
      /\ holds' = [b \in Blocks |-> IF holds[b] = "restoring" THEN "free" ELSE holds[b]]
      /\ UNCHANGED <<next_free_frame, open_current_frame, open_current_used,
                     flushed_start_record, flushed_terminal_record, flushed_last_block>>
  BY <1>1, Zenon DEF RestoreComplete, openVars, flushedVars
<1>3. flushed_start_record = 0 /\ flushedMap = NoMap
  BY <1>2 DEF MapsInv, MapsTyped
<1>4. \A v \in Volume : flushedMap'[v] = 0 /\ restoringMap'[v] = 0
  BY <1>1, <1>3 DEF NoMap
<1>5. MapsTyped'
  BY <1>1, <1>2, <1>3 DEF MapsInv, MapsTyped, NoMap
<1>6. MapsFar'
  <2>1. Held' = 0 /\ frames_free' + Held' = frames_free + Held
    BY <1>0, <1>2 DEF Held, RegionSize, OpenFrameFits, CountersOK
  <2>2. ASSUME NEW v \in Volume, openMap[v] # 0
        PROVE  Distance(openMap[v]) >= frames_free' + Held'
    BY <2>1, <2>2 DEF MapsInv, MapsFar
  <2> QED
    BY <2>2, <1>1, <1>2, <1>3, <1>4 DEF MapsFar, Distance
<1>7. MapsApart'
  BY <1>1, <1>4 DEF MapsInv, MapsApart
<1>8. HeadersApart'
  <2>1. Headers' \subseteq Headers /\ 0 \notin Headers'
    BY <1>2 DEF Headers
  <2>2. \A v \in Volume : {openMap'[v], flushedMap'[v], restoringMap'[v]} \cap Headers' = {}
    BY <2>1, <1>1, <1>4 DEF MapsInv, HeadersApart
  <2>3. ASSUME NEW h \in Blocks, holds[h] # "restoring"
        PROVE  holds'[h] = holds[h]
    BY <2>3, <1>2
  <2> QED
    BY <2>2, <2>3, <1>0, <1>2 DEF MapsInv, HeadersApart, CountersOK, Blocks
<1> QED
  BY <1>5, <1>6, <1>7, <1>8 DEF MapsInv

LEMMA StepMaps == ASSUME MapsInv, [FsNext]_fsVars PROVE MapsInv'
<1>0. RingInv'
  BY RingStep DEF MapsInv
<1>1. CASE Crash \/ BeginSession
  BY <1>0, <1>1, StartMaps, Zenon DEF Crash, BeginSession
<1>2. CASE DiskWrite
  <2>1. UNCHANGED <<ringVars, mapVars, mode, restore_state>>
    BY <1>2, Zenon DEF DiskWrite, restoreVars
  <2> QED
    BY <2>1, SameMaps
<1>3. CASE Mount \/ Recover \/ Remount
  <2>1. UNCHANGED <<ringVars, mapVars>> /\ mode # "up" /\ mode' # "up"
    BY <1>3, Zenon DEF Mount, Recover, Remount
  <2> QED
    BY <2>1, SameMaps
<1>4. CASE WriteData \/ Create \/ Delete
  <2>1. PICK v \in Volume : \E c : Write(v, c)
    BY <1>4, Zenon DEF WriteData, Create, Delete, Volume
  <2>2. PICK c : Write(v, c)
    BY <2>1
  <2> QED
    BY <1>0, <2>2, WriteMaps
<1>5. CASE WriteFails
  BY <1>0, <1>5, WriteFailsMaps
<1>6. CASE Commit
  BY <1>0, <1>6, CommitMaps
<1>7. CASE StartRestore
  BY <1>0, <1>7, StartRestoreMaps
<1>8. CASE RestorePass
  <2>1. UNCHANGED <<ringVars, mapVars>> /\ mode' = mode
        /\ restore_state # "none" /\ restore_state' # "none"
    BY <1>8, Zenon DEF RestorePass
  <2> QED
    BY <2>1, SameMaps
<1>9. CASE EndRestore
  BY <1>0, <1>9, EndRestoreMaps
<1>10. CASE UNCHANGED fsVars
  <2>1. UNCHANGED <<ringVars, mapVars, mode, restore_state>>
    BY <1>10, Zenon DEF fsVars, restoreVars
  <2> QED
    BY <2>1, SameMaps
<1> QED
  BY <1>1, <1>2, <1>3, <1>4, <1>5, <1>6, <1>7, <1>8, <1>9, <1>10, Zenon DEF FsNext

LEMMA InitMaps == FsInit => MapsInv
<1> SUFFICES ASSUME FsInit PROVE MapsInv
  OBVIOUS
<1> USE RingAssumption
<1>1. RingInv
  BY InitInv DEF FsInit
<1>2. /\ openMap = NoMap /\ flushedMap = NoMap /\ restoringMap = NoMap /\ open_recs = <<>>
      /\ mode = "down"
      /\ open_current_frame = 1 /\ open_current_used = 0
      /\ flushed_start_record = 0 /\ flushed_terminal_record = 0
      /\ restoring_start_record = 0 /\ restoring_terminal_record = 0
      /\ holds = [b \in Blocks |-> IF b = 1 THEN "open" ELSE "free"]
  BY DEF FsInit, RingInit
<1>3. \A v \in Volume : openMap[v] = 0 /\ flushedMap[v] = 0 /\ restoringMap[v] = 0
  BY <1>2 DEF NoMap
<1>4. MapsTyped
  BY <1>2 DEF MapsTyped, NoMap
<1>5. MapsFar /\ MapsApart
  BY <1>3 DEF MapsFar, MapsApart
<1>6. HeadersApart
  BY <1>2, <1>3 DEF HeadersApart, Headers, Blocks
<1> QED
  BY <1>1, <1>4, <1>5, <1>6 DEF MapsInv

-----------------------------------------------------------------------------
(* What lies on the disk once the writes of the call in progress are done.  *)

WritesOf(s) == {s[i] : i \in 1 .. Len(s)}
Pending == WritesOf(io)
JournalWrites(b) == {w \in Pending : w.to = "journal" /\ w.at = b}
VolumeWrites(v) == {w \in Pending : w.to = "volume" /\ w.at = v}

JournalHolds(b, x) ==
    /\ \A w \in JournalWrites(b) : w.val = x
    /\ JournalWrites(b) # {} \/ journal[b] = x
VolumeHolds(v, c) ==
    /\ \A w \in VolumeWrites(v) : w.val = c
    /\ VolumeWrites(v) # {} \/ volume[v] = c
\* A frame header, with one of the marks ts if they are given.
MarkedAt(b, ts) ==
    /\ \A w \in JournalWrites(b) : w.val.type \in ts
    /\ JournalWrites(b) # {} \/ journal[b].type \in ts
HandleGone ==
    /\ \A w \in Pending : w.to = "handle" => w.val = FALSE
    /\ (\E w \in Pending : w.to = "handle") \/ handle = FALSE

HeaderTypes == {"open", "closed", "flushed", "restoring", "restored"}

\* A header's records end inside the file.
HeaderAt(b, x) ==
    /\ DOMAIN x = {"type", "seq", "session", "space", "recs"}
    /\ x.type \in HeaderTypes
    /\ x.recs \in Seq(Volume) /\ b + Len(x.recs) < FileSize
WellFormed(b, x) == x.type = "data" \/ HeaderAt(b, x)

DiskTyped ==
    /\ io \in Seq(Pending)
    /\ DOMAIN journal = Blocks /\ DOMAIN volume = Volume /\ view = [v \in Volume |-> view[v]]
    /\ master.start \in Blocks
    /\ \A b \in Blocks : WellFormed(b, journal[b])
    /\ \A w \in Pending :
          /\ w.to = "journal" => w.at \in Blocks /\ WellFormed(w.at, w.val)
          /\ w.to = "master" => w.val.start \in Blocks
    /\ mode \in {"down", "start"} => io = <<>>
    /\ mode = "remount" => \A w \in Pending : w.to \in {"fat2", "handle"}
    /\ mode = "recover" => \A w \in Pending : w.to \in {"journal", "volume", "fat2", "handle"}

HeadersThere ==
    \A h \in {flushed_terminal_record, restoring_terminal_record} \ {0} : MarkedAt(h, HeaderTypes)

\* While the volume is in use every block is where a read looks for it.
Shown(v) == IF openMap[v] # 0 THEN openMap[v]
            ELSE IF flushedMap[v] # 0 THEN flushedMap[v] ELSE restoringMap[v]
OnVolume(v) == openMap[v] = 0 /\ flushedMap[v] = 0 /\ (restoringMap[v] = 0 \/ v \in copied)
InUse ==
    mode = "up" =>
        /\ restore_state = "clear" => ToCopy \subseteq copied
        /\ \A v \in Volume :
              /\ Shown(v) # 0 => JournalHolds(Shown(v), DataBlock(view[v]))
              /\ OnVolume(v) => VolumeHolds(v, view[v])

\* While a mount restores, the ranges left over the volume are what it found.
Alike(x, y) ==
    /\ x.type = "data" <=> y.type = "data"
    /\ x.type = "open" <=> y.type = "open"
    /\ x.type = "data" => x = y
    /\ x.recs = y.recs /\ x.seq = y.seq /\ x.session = y.session /\ x.space = y.space

LastBlock(r) == r[Len(r)]
RangeOK(r) ==
    /\ r \in Seq(Blocks) /\ r # <<>>
    /\ \A i \in 1 .. Len(r) : journal[r[i]].type \in HeaderTypes \ {"open"}
Disposed(p) ==
    /\ p \in 1 .. Len(Chain(journal, master))
    /\ Chain(journal, master)[p] = LastBlock(todo[Len(todo)])
    /\ \A i \in p + 1 .. Len(Chain(journal, master)) :
          /\ journal[Chain(journal, master)[i]].type \notin {"restoring", "flushed"}
          /\ \A k \in 1 .. Len(todo) : Chain(journal, master)[i] # LastBlock(todo[k])
InRecovery ==
    mode = "recover" =>
        /\ todo \in Seq(Seq(Blocks)) /\ Len(todo) \in {1, 2}
        /\ \A k \in 1 .. Len(todo) : RangeOK(todo[k])
        /\ restore_state \in {"mark", "copy", "clear"}
        /\ \A w \in Pending : w.to = "journal" =>
              w.at = LastBlock(todo[1]) /\ Alike(journal[w.at], w.val)
        /\ restore_state = "mark" => copied = {}
        /\ restore_state = "clear" =>
              /\ Replaced(journal, todo[1]) \subseteq copied
              /\ MarkedAt(LastBlock(todo[1]), {"restored"})
        /\ \A v \in Volume :
              IF Len(todo) = 2 /\ v \in Replaced(journal, todo[2])
              THEN view[v] = Replacement(journal, todo[2], v)
              ELSE /\ v \in Replaced(journal, todo[1]) =>
                         view[v] = Replacement(journal, todo[1], v)
                   /\ v \notin Replaced(journal, todo[1]) \/ v \in copied => VolumeHolds(v, view[v])
        /\ \E p \in 1 .. Len(Chain(journal, master)) : Disposed(p)

\* After it nothing is left that the next mount would restore.
NothingFound ==
    IF FixedJournal
    THEN /\ Restoring(journal, Chain(journal, master)) = <<>>
         /\ Flushed(journal, Chain(journal, master)) = <<>>
    ELSE HandleGone
AfterRecovery ==
    /\ mode = "remount" => NothingFound /\ \A v \in Volume : VolumeHolds(v, view[v])
    /\ mode = "start" => \A v \in Volume : volume[v] = view[v]
    /\ mode = "down" => view = Recovered

DiskInv == DiskTyped /\ HeadersThere /\ InUse /\ InRecovery /\ AfterRecovery

-----------------------------------------------------------------------------
(* Sequences of disk writes *)

LEMMA NoWrites == WritesOf(<<>>) = {} /\ <<>> \in Seq(WritesOf(<<>>))
  BY DEF WritesOf

LEMMA OneWrite == ASSUME NEW w PROVE WritesOf(<<w>>) = {w} /\ <<w>> \in Seq(WritesOf(<<w>>))
<1>1. Len(<<w>>) = 1 /\ <<w>>[1] = w
  OBVIOUS
<1>2. WritesOf(<<w>>) = {w}
  BY <1>1 DEF WritesOf
<1> QED
  BY <1>2

LEMMA MoreWrites ==
    ASSUME NEW s, s \in Seq(WritesOf(s)), NEW t, t \in Seq(WritesOf(t))
    PROVE  /\ WritesOf(s \o t) = WritesOf(s) \union WritesOf(t)
           /\ s \o t \in Seq(WritesOf(s \o t))
<1> DEFINE S == WritesOf(s) \union WritesOf(t)
<1>1. s \in Seq(S) /\ t \in Seq(S)
  BY SeqMonotonic
<1>2. /\ s \o t \in Seq(S) /\ Len(s \o t) = Len(s) + Len(t)
      /\ \A i \in 1 .. Len(s) + Len(t) :
            (s \o t)[i] = IF i <= Len(s) THEN s[i] ELSE t[i - Len(s)]
  BY <1>1, ConcatProperties
<1>3. Len(s) \in Nat /\ Len(t) \in Nat
  BY <1>1, LenProperties
<1>4. ASSUME NEW w \in WritesOf(s \o t) PROVE w \in S
  BY <1>1, <1>2, <1>3 DEF WritesOf
<1>5. ASSUME NEW w \in WritesOf(s) PROVE w \in WritesOf(s \o t)
  <2>1. PICK i \in 1 .. Len(s) : w = s[i]
    BY DEF WritesOf
  <2>2. i \in 1 .. Len(s) + Len(t) /\ (s \o t)[i] = w
    BY <1>2, <1>3, <2>1
  <2> QED
    BY <1>2, <2>2 DEF WritesOf
<1>6. ASSUME NEW w \in WritesOf(t) PROVE w \in WritesOf(s \o t)
  <2>1. PICK i \in 1 .. Len(t) : w = t[i]
    BY DEF WritesOf
  <2>2. i + Len(s) \in 1 .. Len(s) + Len(t) /\ (s \o t)[i + Len(s)] = w
    BY <1>2, <1>3, <2>1
  <2> QED
    BY <1>2, <2>2 DEF WritesOf
<1>7. WritesOf(s \o t) = S
  BY <1>4, <1>5, <1>6
<1> QED
  BY <1>2, <1>7

LEMMA FirstWrite ==
    ASSUME NEW s, s \in Seq(WritesOf(s)), s # <<>>
    PROVE  /\ WritesOf(s) = {Head(s)} \union WritesOf(Tail(s))
           /\ Tail(s) \in Seq(WritesOf(Tail(s)))
<1>1. Len(s) \in Nat /\ Len(s) # 0 /\ Head(s) = s[1]
  BY LenProperties, EmptySeq
<1>2. /\ Tail(s) \in Seq(WritesOf(s)) /\ Len(Tail(s)) = Len(s) - 1
      /\ \A i \in 1 .. Len(Tail(s)) : Tail(s)[i] = s[i + 1]
  BY HeadTailProperties
<1>3. ASSUME NEW w \in WritesOf(s) PROVE w = Head(s) \/ w \in WritesOf(Tail(s))
  <2>1. PICK i \in 1 .. Len(s) : w = s[i]
    BY DEF WritesOf
  <2>2. CASE i # 1
    <3>1. i - 1 \in 1 .. Len(Tail(s)) /\ Tail(s)[i - 1] = w
      BY <1>1, <1>2, <2>1, <2>2
    <3> QED
      BY <3>1 DEF WritesOf
  <2> QED
    BY <1>1, <2>1, <2>2
<1>4. ASSUME NEW w \in WritesOf(Tail(s)) PROVE w \in WritesOf(s)
  BY <1>1, <1>2 DEF WritesOf
<1>5. Head(s) \in WritesOf(s)
  BY <1>1 DEF WritesOf
<1>6. WritesOf(s) = {Head(s)} \union WritesOf(Tail(s))
  BY <1>3, <1>4, <1>5
<1>7. Tail(s) \in Seq(WritesOf(Tail(s)))
  <2>1. \A i \in 1 .. Len(Tail(s)) : Tail(s)[i] \in WritesOf(Tail(s))
    BY DEF WritesOf
  <2> QED
    BY <1>2, <2>1, SeqOfRange, RangeEquality DEF WritesOf
<1> QED
  BY <1>6, <1>7

\* What is to lie on the disk stays so while the writes are done.
LEMMA WriteDone ==
    ASSUME io \in Seq(Pending), DOMAIN journal = Blocks, DOMAIN volume = Volume,
           \A w \in Pending : w.to = "journal" => w.at \in Blocks, DiskWrite
    PROVE  /\ Pending' \subseteq Pending /\ Head(io) \in Pending
           /\ io' \in Seq(Pending')
           /\ \A b \in Blocks : \A x : JournalHolds(b, x) => JournalHolds(b, x)'
           /\ \A v \in Volume : \A c : VolumeHolds(v, c) => VolumeHolds(v, c)'
           /\ \A b \in Blocks : \A ts : MarkedAt(b, ts) => MarkedAt(b, ts)'
           /\ HandleGone => HandleGone'
           /\ DOMAIN journal' = Blocks /\ DOMAIN volume' = Volume
<1> DEFINE h == Head(io)
<1>1. /\ io # <<>> /\ io' = Tail(io)
      /\ journal' = IF h.to = "journal" THEN [journal EXCEPT ![h.at] = h.val] ELSE journal
      /\ volume' = IF h.to = "volume" THEN [volume EXCEPT ![h.at] = h.val] ELSE volume
      /\ handle' = IF h.to = "handle" THEN h.val ELSE handle
  BY DEF DiskWrite, Done
<1>2. Pending = {h} \union Pending' /\ io' \in Seq(Pending')
  BY <1>1, FirstWrite DEF Pending
<1> HIDE DEF h
<1>3. ASSUME NEW b \in Blocks
      PROVE  journal'[b] = IF h.to = "journal" /\ h.at = b THEN h.val ELSE journal[b]
  BY <1>1
<1>4. ASSUME NEW v \in Volume
      PROVE  volume'[v] = IF h.to = "volume" /\ h.at = v THEN h.val ELSE volume[v]
  BY <1>1
<1>5. ASSUME NEW b \in Blocks
      PROVE  JournalWrites(b) = JournalWrites(b)' \union {w \in {h} : w.to = "journal" /\ w.at = b}
  BY <1>2 DEF JournalWrites
<1>6. ASSUME NEW v \in Volume
      PROVE  VolumeWrites(v) = VolumeWrites(v)' \union {w \in {h} : w.to = "volume" /\ w.at = v}
  BY <1>2 DEF VolumeWrites
<1>7. ASSUME NEW b \in Blocks, NEW x, JournalHolds(b, x) PROVE JournalHolds(b, x)'
  BY <1>3, <1>5, <1>7 DEF JournalHolds
<1>8. ASSUME NEW v \in Volume, NEW c, VolumeHolds(v, c) PROVE VolumeHolds(v, c)'
  BY <1>4, <1>6, <1>8 DEF VolumeHolds
<1>9. ASSUME NEW b \in Blocks, NEW ts, MarkedAt(b, ts) PROVE MarkedAt(b, ts)'
  BY <1>3, <1>5, <1>9 DEF MarkedAt
<1>10. HandleGone => HandleGone'
  BY <1>1, <1>2 DEF HandleGone
<1>11. DOMAIN journal' = Blocks /\ DOMAIN volume' = Volume
  BY <1>1
<1>12. h \in Pending
  BY <1>2
<1> QED
  BY <1>2, <1>7, <1>8, <1>9, <1>10, <1>11, <1>12 DEF h

-----------------------------------------------------------------------------
(* The writes the steps leave to be done *)

LEMMA KindsOfWrites ==
    ASSUME NEW b, NEW x, NEW y
    PROVE  /\ WritesOf(ToJournal(b, x)) = {[to |-> "journal", at |-> b, val |-> x]}
           /\ WritesOf(ToVolume(b, x)) = {[to |-> "volume", at |-> b, val |-> x]}
           /\ WritesOf(ToMaster(x, y)) = {[to |-> "master", val |-> [session |-> x, start |-> y]]}
           /\ WritesOf(ToFat2(x)) = {[to |-> "fat2", val |-> x]}
           /\ WritesOf(ToHandle(x)) = {[to |-> "handle", val |-> x]}
           /\ WritesOf(Return) = {[to |-> "return"]}
           /\ \A s \in {ToJournal(b, x), ToVolume(b, x), ToMaster(x, y), ToFat2(x), ToHandle(x), Return} :
                 s \in Seq(WritesOf(s))
<1>1. \A s \in {ToJournal(b, x), ToVolume(b, x), ToMaster(x, y), ToFat2(x), ToHandle(x), Return} :
         s \in Seq(WritesOf(s))
  BY OneWrite DEF ToJournal, ToVolume, ToMaster, ToFat2, ToHandle, Return
<1> QED
  BY <1>1, OneWrite DEF ToJournal, ToVolume, ToMaster, ToFat2, ToHandle, Return

LEMMA NothingPending ==
    ASSUME io = <<>>
    PROVE  /\ Pending = {}
           /\ \A b, x : JournalHolds(b, x) <=> journal[b] = x
           /\ \A v, c : VolumeHolds(v, c) <=> volume[v] = c
           /\ \A b, ts : MarkedAt(b, ts) <=> journal[b].type \in ts
           /\ HandleGone <=> handle = FALSE
<1>1. Pending = {}
  BY NoWrites DEF Pending
<1> QED
  BY <1>1 DEF JournalHolds, VolumeHolds, MarkedAt, HandleGone, JournalWrites, VolumeWrites

LEMMA CopyOutWrites ==
    ASSUME NEW v, NEW c
    PROVE  /\ CopyOut(v, c) \in Seq(WritesOf(CopyOut(v, c)))
           /\ [to |-> "volume", at |-> v, val |-> c] \in WritesOf(CopyOut(v, c))
           /\ \A w \in WritesOf(CopyOut(v, c)) :
                 w = [to |-> "volume", at |-> v, val |-> c] \/ w.to = "fat2"
<1> DEFINE copy2 == IF v = "fat" /\ FixedJournal THEN ToFat2(c) ELSE <<>>
<1>1. /\ WritesOf(copy2) \subseteq {[to |-> "fat2", val |-> c]}
      /\ copy2 \in Seq(WritesOf(copy2))
  BY KindsOfWrites, NoWrites
<1>2. /\ WritesOf(ToVolume(v, c)) = {[to |-> "volume", at |-> v, val |-> c]}
      /\ ToVolume(v, c) \in Seq(WritesOf(ToVolume(v, c)))
  BY KindsOfWrites
<1>3. CopyOut(v, c) = ToVolume(v, c) \o copy2
  BY DEF CopyOut
<1> HIDE DEF copy2
<1>4. /\ WritesOf(CopyOut(v, c)) = WritesOf(ToVolume(v, c)) \union WritesOf(copy2)
      /\ CopyOut(v, c) \in Seq(WritesOf(CopyOut(v, c)))
  <2>1. /\ WritesOf(ToVolume(v, c) \o copy2) = WritesOf(ToVolume(v, c)) \union WritesOf(copy2)
        /\ ToVolume(v, c) \o copy2 \in Seq(WritesOf(ToVolume(v, c) \o copy2))
    BY <1>1, <1>2, MoreWrites, Zenon
  <2> QED
    BY <1>3, <2>1, Zenon
<1> QED
  BY <1>1, <1>2, <1>4

LEMMA ClearHandleWrites ==
    /\ ClearHandle \in Seq(WritesOf(ClearHandle))
    /\ \A w \in WritesOf(ClearHandle) :
          w.to \in {"fat2", "handle"} /\ (w.to = "handle" => w.val = FALSE)
    /\ ~FixedJournal => \E w \in WritesOf(ClearHandle) : w.to = "handle"
<1>1. CASE FixedJournal
  BY <1>1, NoWrites DEF ClearHandle
<1>2. CASE ~FixedJournal
  <2> DEFINE s == ToFat2(volume["fat"])
             t == ToHandle(FALSE)
  <2>1. /\ WritesOf(s) = {[to |-> "fat2", val |-> volume["fat"]]} /\ s \in Seq(WritesOf(s))
        /\ WritesOf(t) = {[to |-> "handle", val |-> FALSE]} /\ t \in Seq(WritesOf(t))
    BY KindsOfWrites
  <2>2. ClearHandle = s \o t
    BY <1>2 DEF ClearHandle
  <2> HIDE DEF s, t
  <2>3. /\ WritesOf(ClearHandle) = WritesOf(s) \union WritesOf(t)
        /\ ClearHandle \in Seq(WritesOf(ClearHandle))
    BY <2>1, <2>2, MoreWrites
  <2> QED
    BY <2>1, <2>3
<1> QED
  BY <1>1, <1>2

\* The header of the open frame fits in the file.
LEMMA OpenHeader ==
    ASSUME MapsInv, open_current_frame # 0, NEW type \in HeaderTypes, NEW seq
    PROVE  open_current_frame \in Blocks /\ HeaderAt(open_current_frame, Header(type, seq, open_recs))
<1>1. /\ open_current_frame \in Blocks /\ open_current_frame + open_current_used < FileSize
      /\ open_recs \in Seq(Volume) /\ Len(open_recs) = open_current_used
  BY RingAssumption
  DEF MapsInv, RingInv, RingTypeOK, CountersOK, OpenFrameFits, MapsTyped, Blocks
<1> QED
  BY <1>1, SMT DEF HeaderAt, Header, HeaderTypes

LEMMA EmptyHeader ==
    ASSUME NEW b \in Blocks, NEW type \in HeaderTypes, NEW seq
    PROVE  HeaderAt(b, Header(type, seq, <<>>))
<1>1. <<>> \in Seq(Volume) /\ Len(<<>>) = 0 /\ b + 0 < FileSize
  BY RingAssumption DEF Blocks
<1> QED
  BY <1>1, SMT DEF HeaderAt, Header, HeaderTypes

\* A block the cursor may still run over is not in use.
LEMMA CursorIsUnused ==
    ASSUME MapsInv, next_free_frame \in Blocks, frames_free >= 1
    PROVE  /\ next_free_frame \notin Headers
           /\ \A v \in Volume : next_free_frame \notin {openMap[v], flushedMap[v], restoringMap[v]}
<1>1. Distance(next_free_frame) < frames_free
  BY RingAssumption DEF Distance, RingDistance, Blocks, MapsInv, RingInv, RingTypeOK, CountersOK
<1>2. Distance(next_free_frame) \in Int /\ frames_free \in Int
  BY DistanceRange, RingAssumption DEF MapsInv, RingInv, RingTypeOK, CountersOK
<1>3. holds[next_free_frame] \notin Live
  BY <1>1, <1>2, LiveIsFar DEF MapsInv
<1>4. next_free_frame \notin Headers
  BY <1>3 DEF MapsInv, HeadersApart, Headers, Live
<1>5. \A v \in Volume : next_free_frame \notin {openMap[v], flushedMap[v], restoringMap[v]}
  BY <1>1, <1>2, MappedFar, RingAssumption DEF Blocks
<1> QED
  BY <1>4, <1>5

\* The frames a step closes on its way to the next one.
LEMMA CloseWrites ==
    ASSUME MapsInv
    PROVE  /\ CloseFrame \in Seq(WritesOf(CloseFrame))
           /\ \A w \in WritesOf(CloseFrame) :
                 /\ w.to = "journal" /\ w.at = open_current_frame /\ open_current_frame # 0
                 /\ w.at \in Blocks /\ HeaderAt(w.at, w.val)
<1>1. CASE open_current_frame = 0
  BY <1>1, NoWrites DEF CloseFrame
<1>2. CASE open_current_frame # 0
  <2> DEFINE x == Header("closed", frame_sequence, open_recs)
  <2>1. open_current_frame \in Blocks /\ HeaderAt(open_current_frame, x)
    BY <1>2, OpenHeader DEF HeaderTypes
  <2>2. CloseFrame = ToJournal(open_current_frame, x)
    BY <1>2 DEF CloseFrame
  <2> HIDE DEF x
  <2>3. /\ WritesOf(CloseFrame) = {[to |-> "journal", at |-> open_current_frame, val |-> x]}
        /\ CloseFrame \in Seq(WritesOf(CloseFrame))
    BY <2>2, OneWrite DEF ToJournal
  <2> QED
    BY <1>2, <2>1, <2>3
<1> QED
  BY <1>1, <1>2

LEMMA NullWrites ==
    ASSUME MapsInv
    PROVE  /\ NullFrame \in Seq(WritesOf(NullFrame))
           /\ \A w \in WritesOf(NullFrame) :
                 /\ w.to = "journal" /\ w.at = next_free_frame /\ w.at \in NullBlocks
                 /\ w.at \in Blocks /\ HeaderAt(w.at, w.val) /\ frames_free >= 2
<1>1. CASE ~(NeedsNullFrame /\ frames_free >= 2)
  BY <1>1, NoWrites DEF NullFrame
<1>2. CASE NeedsNullFrame /\ frames_free >= 2
  <2> DEFINE x == Header("closed", frame_sequence + 1, <<>>)
  <2>1. next_free_frame \in Blocks /\ next_free_frame \in NullBlocks
    BY <1>2, RingAssumption
    DEF NeedsNullFrame, BlocksToEnd, NullBlocks, Blocks, MapsInv, RingInv, RingTypeOK, CountersOK
  <2>2. HeaderAt(next_free_frame, x)
    BY <2>1, EmptyHeader DEF HeaderTypes
  <2>3. NullFrame = ToJournal(next_free_frame, x)
    BY <1>2 DEF NullFrame
  <2> HIDE DEF x
  <2>4. /\ WritesOf(NullFrame) = {[to |-> "journal", at |-> next_free_frame, val |-> x]}
        /\ NullFrame \in Seq(WritesOf(NullFrame))
    BY <2>3, OneWrite DEF ToJournal
  <2> QED
    BY <1>2, <2>1, <2>2, <2>4
<1> QED
  BY <1>1, <1>2

LEMMA MoveStartWrites ==
    ASSUME RingInv'
    PROVE  /\ MoveStart \in Seq(WritesOf(MoveStart))
           /\ \A w \in WritesOf(MoveStart) : w.to = "master" /\ w.val.start \in Blocks
<1>1. session_start_record' \in Blocks
  BY RingAssumption DEF RingInv, RingTypeOK, CountersOK, Blocks
<1>2. CASE MoveStart = <<>>
  BY <1>2, NoWrites
<1>3. CASE MoveStart = ToMaster(session_id, session_start_record')
  <2>1. /\ WritesOf(MoveStart)
              = {[to |-> "master", val |-> [session |-> session_id, start |-> session_start_record']]}
        /\ MoveStart \in Seq(WritesOf(MoveStart))
    BY <1>3, OneWrite DEF ToMaster
  <2> QED
    BY <1>1, <2>1
<1> QED
  BY <1>2, <1>3 DEF MoveStart

-----------------------------------------------------------------------------
(* The journal in use *)

\* What a step of a mounted journal has to show.
LEMMA UpStep ==
    ASSUME DiskInv, mode' = "up", UNCHANGED diskVars,
           io' \in Seq(Pending'), view' = [v \in Volume |-> view'[v]],
           \A w \in Pending' :
              /\ w.to = "journal" => w.at \in Blocks /\ WellFormed(w.at, w.val)
              /\ w.to = "master" => w.val.start \in Blocks,
           HeadersThere', InUse'
    PROVE  DiskInv'
<1>1. /\ DOMAIN journal = Blocks /\ DOMAIN volume = Volume /\ master.start \in Blocks
      /\ \A b \in Blocks : WellFormed(b, journal[b])
      /\ UNCHANGED <<journal, master, volume, handle, fat2>>
  BY Zenon DEF DiskInv, DiskTyped, diskVars
<1>2. DiskTyped'
  BY <1>1 DEF DiskTyped
<1>3. InRecovery' /\ AfterRecovery'
  BY DEF InRecovery, AfterRecovery
<1> QED
  BY <1>2, <1>3 DEF DiskInv

\* The blocks in use for another volume block than v, and the terminal records.
InUseBut(v) ==
    {b \in Blocks :
        \/ b \in {flushed_terminal_record, restoring_terminal_record}
        \/ \E u \in Volume \ {v} : b \in {openMap[u], flushedMap[u], restoringMap[u]}}

\* The writes ws put x into journal block b and touch none of the blocks others.
OnlyBlock(ws, b, x, others) ==
    /\ [to |-> "journal", at |-> b, val |-> x] \in ws
    /\ \A w \in ws :
          /\ w.to \in {"journal", "master"}
          /\ w.to = "master" => w.val.start \in Blocks
          /\ w.to = "journal" =>
                w.at \in Blocks \ others /\ WellFormed(w.at, w.val) /\ (w.at = b => w.val = x)

\* The block written goes to a journal block that is not in use for another.
LEMMA OneBlockWritten ==
    ASSUME MapsInv, DiskInv, NEW v \in Volume, NEW c, NEW b \in Blocks,
           mode = "up", mode' = mode, io = <<>>, io' \in Seq(Pending'),
           UNCHANGED <<flushedMap, restoringMap, copied, restore_state,
                       flushed_terminal_record, restoring_terminal_record>>,
           UNCHANGED diskVars,
           view' = [view EXCEPT ![v] = c],
           openMap'[v] = b, \A u \in Volume \ {v} : openMap'[u] = openMap[u],
           OnlyBlock(Pending', b, DataBlock(c), InUseBut(v))
    PROVE  DiskInv'
<1>0. /\ [to |-> "journal", at |-> b, val |-> DataBlock(c)] \in Pending'
      /\ \A w \in Pending' :
            /\ w.to \in {"journal", "master"}
            /\ w.to = "master" => w.val.start \in Blocks
            /\ w.to = "journal" =>
                  /\ w.at \in Blocks /\ WellFormed(w.at, w.val)
                  /\ w.at = b => w.val = DataBlock(c)
                  /\ \A u \in Volume \ {v} : w.at \notin {openMap[u], flushedMap[u], restoringMap[u]}
                  /\ w.at \notin {flushed_terminal_record, restoring_terminal_record}
  BY DEF OnlyBlock, InUseBut
<1>1. /\ UNCHANGED <<journal, volume>> /\ InUse /\ HeadersThere
      /\ view = [u \in Volume |-> view[u]]
  BY Zenon DEF DiskInv, DiskTyped, diskVars
<1>2. view' = [u \in Volume |-> view'[u]] /\ view'[v] = c /\ \A u \in Volume \ {v} : view'[u] = view[u]
  BY <1>1
<1>3. \A u \in Volume : \A x : VolumeHolds(u, x) => VolumeHolds(u, x)'
  BY <1>0, <1>1, NothingPending DEF VolumeHolds, VolumeWrites
<1>4. ASSUME NEW k, JournalWrites(k)' = {}, NEW x, JournalHolds(k, x) PROVE JournalHolds(k, x)'
  BY <1>1, <1>4, NothingPending DEF JournalHolds
<1>5. JournalHolds(b, DataBlock(c))'
  BY <1>0 DEF JournalHolds, JournalWrites
<1>6. ASSUME NEW u \in Volume \ {v}, NEW k \in {openMap[u], flushedMap[u], restoringMap[u]}
      PROVE  JournalWrites(k)' = {}
  BY <1>0 DEF JournalWrites
<1>7. HeadersThere'
  <2>1. ASSUME NEW h \in {flushed_terminal_record, restoring_terminal_record} \ {0}
        PROVE  MarkedAt(h, HeaderTypes)'
    <3>1. JournalWrites(h)' = {}
      BY <1>0 DEF JournalWrites
    <3>2. journal[h].type \in HeaderTypes
      BY <1>1, NothingPending DEF HeadersThere
    <3> QED
      BY <1>1, <3>1, <3>2 DEF MarkedAt
  <2> QED
    BY <2>1 DEF HeadersThere
<1>8. InUse'
  <2>1. restore_state' = "clear" => ToCopy' \subseteq copied'
    BY <1>1 DEF InUse, ToCopy
  <2>2. Shown(v)' = b /\ b # 0 /\ ~OnVolume(v)'
    BY DEF Shown, OnVolume, Blocks
  <2>3. ASSUME NEW u \in Volume \ {v}
        PROVE  /\ Shown(u)' # 0 => JournalHolds(Shown(u), DataBlock(view[u]))'
               /\ OnVolume(u)' => VolumeHolds(u, view[u])'
    <3>1. Shown(u)' = Shown(u) /\ (OnVolume(u)' <=> OnVolume(u)) /\ view'[u] = view[u]
      BY <1>2 DEF Shown, OnVolume
    <3>2. Shown(u) \in {openMap[u], flushedMap[u], restoringMap[u]}
      BY DEF Shown
    <3>3. JournalWrites(Shown(u))' = {}
      <4>1. PICK k \in {openMap[u], flushedMap[u], restoringMap[u]} : k = Shown(u)
        BY <3>2
      <4>2. JournalWrites(k)' = {}
        BY <1>6
      <4> QED
        BY <4>1, <4>2, <3>1 DEF JournalWrites
    <3>4. ASSUME Shown(u) # 0 PROVE JournalHolds(Shown(u), DataBlock(view[u]))'
      <4>1. journal[Shown(u)] = DataBlock(view[u])
        BY <1>1, <3>4, NothingPending DEF InUse
      <4> QED
        BY <1>1, <3>1, <3>3, <4>1 DEF JournalHolds
    <3>5. ASSUME OnVolume(u) PROVE VolumeHolds(u, view[u])'
      <4>1. VolumeHolds(u, view[u])
        BY <1>1, <3>5 DEF InUse
      <4>2. volume[u] = view[u] /\ VolumeWrites(u)' = {}
        BY <1>0, <4>1, NothingPending DEF VolumeWrites
      <4> QED
        BY <1>1, <3>1, <4>2 DEF VolumeHolds
    <3> QED
      BY <3>1, <3>4, <3>5
  <2>4. JournalHolds(Shown(v), DataBlock(view[v]))'
    BY <1>2, <1>5, <2>2
  <2> QED
    BY <2>1, <2>2, <2>3, <2>4 DEF InUse
<1> QED
  BY <1>0, <1>2, <1>7, <1>8, UpStep

LEMMA WriteDisk ==
    ASSUME MapsInv, MapsInv', DiskInv, NEW v \in Volume, NEW c, Write(v, c)
    PROVE  DiskInv'
<1> USE RingAssumption
<1>1. /\ mode = "up" /\ mode' = mode /\ io = <<>>
      /\ UNCHANGED diskVars /\ UNCHANGED <<copied, restore_state>>
      /\ view' = [view EXCEPT ![v] = c]
      /\ Rewrite(v, c) \/ WriteInFrame(v, c) \/ WriteInNewFrame(v, c)
  BY Zenon DEF Write, Ready, Done, restoreVars
<1>2. openMap \in [Volume -> 0 .. FileSize - 1]
  BY DEF MapsInv, MapsTyped
<1>3. \A b : WellFormed(b, DataBlock(c))
  BY DEF WellFormed, DataBlock
<1>4. CASE Rewrite(v, c)
  <2>1. /\ openMap[v] # 0 /\ io' = ToJournal(openMap[v], DataBlock(c))
        /\ UNCHANGED <<openMap, flushedMap, restoringMap, flushed_terminal_record,
                       restoring_terminal_record>>
    BY <1>4, Zenon DEF Rewrite, ringVars, mapVars, flushedVars, restoringVars
  <2>2. /\ Pending' = {[to |-> "journal", at |-> openMap[v], val |-> DataBlock(c)]}
        /\ io' \in Seq(Pending')
    BY <2>1, OneWrite DEF Pending, ToJournal
  <2>3. openMap[v] \in Blocks /\ openMap[v] \notin {flushed_terminal_record, restoring_terminal_record}
    BY <1>2, <2>1 DEF MapsInv, HeadersApart, Headers, Blocks
  <2>4. \A u \in Volume \ {v} : openMap[v] \notin {openMap[u], flushedMap[u], restoringMap[u]}
    BY <2>1 DEF MapsInv, MapsApart
  <2>5. PICK b \in Blocks : b = openMap[v]
    BY <2>3
  <2>6. OnlyBlock(Pending', b, DataBlock(c), InUseBut(v))
    BY <1>3, <2>2, <2>3, <2>4, <2>5 DEF OnlyBlock, InUseBut
  <2>7. openMap'[v] = b /\ \A u \in Volume \ {v} : openMap'[u] = openMap[u]
    BY <2>1, <2>5
  <2>8. UNCHANGED <<flushedMap, restoringMap, copied, restore_state,
                    flushed_terminal_record, restoring_terminal_record>>
    BY <1>1, <2>1
  <2> QED
    BY <1>1, <2>2, <2>6, <2>7, <2>8, OneBlockWritten
<1>5. CASE WriteInFrame(v, c)
  <2>1. /\ openMap[v] = 0 /\ AllocInFrame(1)
        /\ openMap' = [openMap EXCEPT ![v] = next_free_frame]
        /\ io' = ToJournal(next_free_frame, DataBlock(c))
        /\ UNCHANGED <<flushedMap, restoringMap>>
    BY <1>5, Zenon DEF WriteInFrame
  <2>2. /\ written' = next_free_frame .. next_free_frame + 1 - 1
        /\ UNCHANGED <<flushed_terminal_record, restoring_terminal_record>>
    BY <2>1, Zenon DEF AllocInFrame, flushedVars, restoringVars
  <2>3. next_free_frame \in written'
    BY <2>2 DEF MapsInv, RingInv, RingTypeOK, CountersOK
  <2>4. /\ next_free_frame \in Blocks /\ next_free_frame \notin Headers
        /\ \A u \in Volume : next_free_frame \notin {openMap[u], flushedMap[u], restoringMap[u]}
    BY <2>1, <2>3, NewIsUnused
  <2>5. /\ Pending' = {[to |-> "journal", at |-> next_free_frame, val |-> DataBlock(c)]}
        /\ io' \in Seq(Pending')
    BY <2>1, OneWrite DEF Pending, ToJournal
  <2>6. next_free_frame \notin {flushed_terminal_record, restoring_terminal_record}
    BY <2>4 DEF Headers, Blocks
  <2>7. openMap'[v] = next_free_frame /\ \A u \in Volume \ {v} : openMap'[u] = openMap[u]
    BY <1>2, <2>1
  <2>8. PICK b \in Blocks : b = next_free_frame
    BY <2>4
  <2>9. OnlyBlock(Pending', b, DataBlock(c), InUseBut(v))
    BY <1>3, <2>4, <2>5, <2>6, <2>8 DEF OnlyBlock, InUseBut
  <2>10. openMap'[v] = b /\ \A u \in Volume \ {v} : openMap'[u] = openMap[u]
    BY <2>7, <2>8
  <2>11. UNCHANGED <<flushedMap, restoringMap, copied, restore_state,
                     flushed_terminal_record, restoring_terminal_record>>
    BY <1>1, <2>1, <2>2
  <2> QED
    BY <1>1, <2>5, <2>9, <2>10, <2>11, OneBlockWritten
<1>6. CASE WriteInNewFrame(v, c)
  <2> DEFINE at == NewFrame + 1
             open == Header("open", SequenceAfterNull + 1, <<>>)
  <2>1. /\ openMap[v] = 0 /\ AllocInNewFrame(1)
        /\ openMap' = [openMap EXCEPT ![v] = NewFrame + 1]
        /\ io' = CloseFrame \o NullFrame \o MoveStart \o OpenFrame \o ToJournal(NewFrame + 1, DataBlock(c))
        /\ UNCHANGED <<flushedMap, restoringMap>>
    BY <1>6, Zenon DEF WriteInNewFrame
  <2>2. /\ ~OpenFrameFails
        /\ written' = NullBlocks \union (NewFrame .. NewFrame + 1)
        /\ UNCHANGED <<flushed_terminal_record, restoring_terminal_record>>
    BY <2>1, Zenon DEF AllocInNewFrame, flushedVars, restoringVars
  <2>3. NewFrame \in Blocks
    BY <2>2, NewFramePlace DEF MapsInv, RingInv, RingTypeOK, CountersOK
  <2>4. NewFrame \in written' /\ at \in written'
    BY <2>2, <2>3 DEF Blocks
  <2>5. \A b \in written' :
           /\ b \in Blocks /\ b \notin Headers
           /\ \A u \in Volume : b \notin {openMap[u], flushedMap[u], restoringMap[u]}
    BY <2>1, NewIsUnused
  <2>6. /\ CloseFrame \in Seq(WritesOf(CloseFrame)) /\ NullFrame \in Seq(WritesOf(NullFrame))
        /\ MoveStart \in Seq(WritesOf(MoveStart))
    BY CloseWrites, NullWrites, MoveStartWrites DEF MapsInv
  <2>7. /\ WritesOf(OpenFrame) = {[to |-> "journal", at |-> NewFrame, val |-> open]}
        /\ OpenFrame \in Seq(WritesOf(OpenFrame))
    BY OneWrite DEF ToJournal, OpenFrame
  <2>8. /\ WritesOf(ToJournal(at, DataBlock(c))) = {[to |-> "journal", at |-> at, val |-> DataBlock(c)]}
        /\ ToJournal(at, DataBlock(c)) \in Seq(WritesOf(ToJournal(at, DataBlock(c))))
    BY OneWrite DEF ToJournal
  <2>9. /\ io' \in Seq(Pending')
        /\ Pending' = WritesOf(CloseFrame) \union WritesOf(NullFrame) \union WritesOf(MoveStart)
                      \union WritesOf(OpenFrame) \union WritesOf(ToJournal(at, DataBlock(c)))
    <3> DEFINE s2 == CloseFrame \o NullFrame
               s3 == s2 \o MoveStart
               s4 == s3 \o OpenFrame
               s5 == s4 \o ToJournal(at, DataBlock(c))
    <3>1. s2 \in Seq(WritesOf(s2)) /\ WritesOf(s2) = WritesOf(CloseFrame) \union WritesOf(NullFrame)
      BY <2>6, MoreWrites, Zenon
    <3>2. s3 \in Seq(WritesOf(s3)) /\ WritesOf(s3) = WritesOf(s2) \union WritesOf(MoveStart)
      <4> HIDE DEF s2
      <4> QED
        BY <2>6, <3>1, MoreWrites, Zenon
    <3>3. s4 \in Seq(WritesOf(s4)) /\ WritesOf(s4) = WritesOf(s3) \union WritesOf(OpenFrame)
      <4> HIDE DEF s3
      <4> QED
        BY <2>7, <3>2, MoreWrites, Zenon
    <3>4. s5 \in Seq(WritesOf(s5))
          /\ WritesOf(s5) = WritesOf(s4) \union WritesOf(ToJournal(at, DataBlock(c)))
      <4> HIDE DEF s4
      <4> QED
        BY <2>8, <3>3, MoreWrites, Zenon
    <3>5. io' = s5
      BY <2>1
    <3> HIDE DEF s2, s3, s4, s5
    <3> QED
      BY <3>1, <3>2, <3>3, <3>4, <3>5 DEF Pending
  <2>10. [to |-> "journal", at |-> at, val |-> DataBlock(c)] \in Pending'
    BY <2>8, <2>9
  <2>11. WellFormed(NewFrame, open)
    BY <2>3, EmptyHeader DEF HeaderTypes, WellFormed
  <2>12. open_current_frame # 0 =>
            /\ open_current_frame \notin {flushed_terminal_record, restoring_terminal_record}
            /\ open_current_frame # at
            /\ \A u \in Volume : open_current_frame \notin {openMap[u], flushedMap[u], restoringMap[u]}
    BY <2>4, <2>5 DEF MapsInv, HeadersApart, Headers
  <2>13. ASSUME NEW b \in written'
         PROVE  /\ b \notin {flushed_terminal_record, restoring_terminal_record}
                /\ \A u \in Volume : b \notin {openMap[u], flushedMap[u], restoringMap[u]}
    BY <2>5 DEF Headers, Blocks
  <2>14. at \notin NullBlocks /\ NewFrame \notin NullBlocks /\ NewFrame # at
    <3>1. next_free_frame \in 2 .. FileSize /\ frames_free \in 0 .. FileSize - 1
      BY DEF MapsInv, RingInv, RingTypeOK, CountersOK
    <3> QED
      BY <3>1, <2>2, <2>3 DEF NullBlocks, NewFrame, Wraps, NeedsNullFrame, BlocksToEnd, Blocks,
         OpenFrameFails, FreeAfterNull
  <2>15. ASSUME NEW w \in Pending'
         PROVE  /\ w.to \in {"journal", "master"}
                /\ w.to = "master" => w.val.start \in Blocks
                /\ w.to = "journal" =>
                      /\ w.at \in Blocks /\ WellFormed(w.at, w.val)
                      /\ w.at = at => w.val = DataBlock(c)
                      /\ \A u \in Volume \ {v} :
                            w.at \notin {openMap[u], flushedMap[u], restoringMap[u]}
                      /\ w.at \notin {flushed_terminal_record, restoring_terminal_record}
    <3>1. CASE w \in WritesOf(CloseFrame)
      BY <3>1, <2>12, CloseWrites, Zenon DEF WellFormed
    <3>2. CASE w \in WritesOf(NullFrame)
      <4>1. w.to = "journal" /\ w.at \in NullBlocks /\ w.at \in Blocks /\ WellFormed(w.at, w.val)
        BY <3>2, NullWrites DEF WellFormed
      <4>2. w.at \in written' /\ w.at # at
        BY <4>1, <2>2, <2>14
      <4> HIDE DEF at
      <4> QED
        BY <4>1, <4>2, <2>13, Zenon
    <3>3. CASE w \in WritesOf(MoveStart)
      BY <3>3, MoveStartWrites DEF MapsInv
    <3>4. CASE w = [to |-> "journal", at |-> NewFrame, val |-> open]
      <4>1. w.to = "journal" /\ w.at = NewFrame /\ w.val = open
        BY <3>4
      <4> HIDE DEF at, open
      <4> QED
        BY <4>1, <2>3, <2>4, <2>11, <2>13, <2>14
    <3>5. CASE w = [to |-> "journal", at |-> at, val |-> DataBlock(c)]
      <4>1. w.to = "journal" /\ w.at = at /\ w.val = DataBlock(c)
        BY <3>5
      <4> HIDE DEF at
      <4> QED
        BY <4>1, <1>3, <2>4, <2>5, <2>13
    <3> QED
      BY <3>1, <3>2, <3>3, <3>4, <3>5, <2>7, <2>8, <2>9
  <2>16. openMap'[v] = at /\ \A u \in Volume \ {v} : openMap'[u] = openMap[u]
    BY <1>2, <2>1
  <2>17. at \in Blocks
    BY <2>4, <2>5
  <2>18. UNCHANGED <<flushedMap, restoringMap, copied, restore_state,
                     flushed_terminal_record, restoring_terminal_record>>
    BY <1>1, <2>1, <2>2
  <2>19. PICK b \in Blocks : b = at
    BY <2>17
  <2> HIDE DEF at
  <2>20. openMap'[v] = b /\ \A u \in Volume \ {v} : openMap'[u] = openMap[u]
    BY <2>16, <2>19
  <2>21. OnlyBlock(Pending', b, DataBlock(c), InUseBut(v))
    BY <2>10, <2>15, <2>19 DEF OnlyBlock, InUseBut
  <2>22. io' \in Seq(Pending')
    BY <2>9, Zenon
  <2> QED
    BY <1>1, <2>18, <2>20, <2>21, <2>22, OneBlockWritten
<1> QED
  BY <1>1, <1>4, <1>5, <1>6

\* Steps that change no contents: what they write are frame headers, on no
\* block that is mapped, and FAT copies.
Mapped == {b \in Blocks : \E v \in Volume : b \in {openMap[v], flushedMap[v], restoringMap[v]}}
OnlyHeaders(ws, others) ==
    \A w \in ws :
       /\ w.to \notin {"volume", "master"}
       /\ w.to = "journal" => w.at \in Blocks \ others /\ HeaderAt(w.at, w.val)
KeepsReads ==
    /\ \A v \in Volume : Shown(v)' # 0 => Shown(v)' = Shown(v)
    /\ \A v \in Volume : OnVolume(v)' => VolumeHolds(v, view[v])
    /\ restore_state' = "clear" => ToCopy' \subseteq copied'
KeepsHeaders ==
    \A h \in {flushed_terminal_record', restoring_terminal_record'} \ {0} :
       \/ h \in {flushed_terminal_record, restoring_terminal_record}
       \/ \E w \in Pending' : w.to = "journal" /\ w.at = h

LEMMA SameContents ==
    ASSUME MapsInv, DiskInv, mode = "up", mode' = mode, io = <<>>, UNCHANGED diskVars, view' = view,
           io' \in Seq(Pending'), OnlyHeaders(Pending', Mapped), KeepsReads, KeepsHeaders
    PROVE  DiskInv'
<1>1. /\ InUse /\ HeadersThere /\ view = [u \in Volume |-> view[u]]
      /\ UNCHANGED <<journal, volume>>
  BY DEF DiskInv, DiskTyped, diskVars
<1>2. \A w \in Pending' :
         /\ w.to = "journal" => w.at \in Blocks /\ WellFormed(w.at, w.val) /\ HeaderAt(w.at, w.val)
         /\ w.to # "volume" /\ w.to # "master"
  BY DEF OnlyHeaders, WellFormed
<1>3. ASSUME NEW v \in Volume, Shown(v)' # 0
      PROVE  JournalHolds(Shown(v), DataBlock(view[v]))'
  <2>1. Shown(v) # 0 /\ Shown(v)' = Shown(v)
    BY <1>3 DEF KeepsReads
  <2>2. journal[Shown(v)] = DataBlock(view[v])
    BY <1>1, <2>1, NothingPending DEF InUse
  <2>3. Shown(v) \in Mapped
    BY <2>1 DEF Mapped, Shown, MapsInv, MapsTyped, Blocks
  <2>4. JournalWrites(Shown(v))' = {}
    BY <2>1, <2>3 DEF JournalWrites, OnlyHeaders
  <2> QED
    BY <1>1, <2>1, <2>2, <2>4 DEF JournalHolds
<1>4. ASSUME NEW v \in Volume, OnVolume(v)' PROVE VolumeHolds(v, view[v])'
  <2>1. volume[v] = view[v]
    BY <1>4, NothingPending DEF KeepsReads
  <2>2. VolumeWrites(v)' = {}
    BY <1>2 DEF VolumeWrites
  <2> QED
    BY <1>1, <2>1, <2>2 DEF VolumeHolds
<1>5. InUse'
  BY <1>3, <1>4 DEF InUse, KeepsReads
<1>6. HeadersThere'
  <2>1. ASSUME NEW h \in {flushed_terminal_record', restoring_terminal_record'} \ {0}
        PROVE  MarkedAt(h, HeaderTypes)'
    <3>1. \A w \in JournalWrites(h)' : w.val.type \in HeaderTypes
      BY <1>2 DEF JournalWrites, HeaderAt
    <3>2. CASE h \in {flushed_terminal_record, restoring_terminal_record}
      <4>1. journal[h].type \in HeaderTypes
        BY <1>1, <3>2, NothingPending DEF HeadersThere
      <4> QED
        BY <1>1, <3>1, <4>1 DEF MarkedAt
    <3>3. CASE \E w \in Pending' : w.to = "journal" /\ w.at = h
      BY <3>1, <3>3 DEF MarkedAt, JournalWrites
    <3> QED
      BY <3>2, <3>3 DEF KeepsHeaders
  <2> QED
    BY <2>1 DEF HeadersThere
<1>7. view' = [u \in Volume |-> view'[u]]
  BY <1>1
<1> QED
  BY <1>2, <1>5, <1>6, <1>7, UpStep

LEMMA WriteFailsDisk ==
    ASSUME MapsInv, DiskInv, WriteFails
    PROVE  DiskInv'
<1>1. /\ mode = "up" /\ mode' = mode /\ io = <<>> /\ UNCHANGED diskVars /\ view' = view
      /\ io' = CloseFrame \o NullFrame
      /\ UNCHANGED <<openMap, flushedMap, restoringMap, restore_state, copied>>
      /\ JournalFull
  BY Zenon DEF WriteFails, Ready, Done, restoreVars, mapVars
<1>2. UNCHANGED <<flushed_terminal_record, restoring_terminal_record>>
  BY <1>1, Zenon DEF JournalFull, flushedVars, restoringVars
<1>3. /\ Pending' = WritesOf(CloseFrame) \union WritesOf(NullFrame) /\ io' \in Seq(Pending')
  BY <1>1, CloseWrites, NullWrites, MoreWrites DEF Pending
<1>4. open_current_frame # 0 => open_current_frame \notin Mapped
  BY DEF Mapped, MapsInv, HeadersApart, Headers, Blocks
<1>5. next_free_frame \in Blocks /\ frames_free >= 2 => next_free_frame \notin Mapped
  BY CursorIsUnused DEF Mapped, MapsInv, RingInv, RingTypeOK, CountersOK
<1>6. OnlyHeaders(Pending', Mapped)
  <2>1. ASSUME NEW w \in WritesOf(CloseFrame)
        PROVE  w.to = "journal" /\ w.at \in Blocks \ Mapped /\ HeaderAt(w.at, w.val)
    BY <1>4, CloseWrites
  <2>2. ASSUME NEW w \in WritesOf(NullFrame)
        PROVE  w.to = "journal" /\ w.at \in Blocks \ Mapped /\ HeaderAt(w.at, w.val)
    BY <1>5, NullWrites
  <2> QED
    BY <1>3, <2>1, <2>2 DEF OnlyHeaders
<1>7. KeepsReads
  BY <1>1 DEF KeepsReads, Shown, OnVolume, ToCopy, DiskInv, InUse
<1>8. KeepsHeaders
  BY <1>2 DEF KeepsHeaders
<1> QED
  BY <1>1, <1>3, <1>6, <1>7, <1>8, SameContents

LEMMA CommitDisk ==
    ASSUME MapsInv, DiskInv, Commit
    PROVE  DiskInv'
<1> USE RingAssumption
<1>1. /\ mode = "up" /\ mode' = mode /\ io = <<>> /\ UNCHANGED diskVars /\ view' = view
      /\ UNCHANGED <<restoringMap, restore_state, copied>> /\ InUse
  BY Zenon DEF Commit, Ready, Done, restoreVars, DiskInv
<1>2. CASE open_remapped
  <2> DEFINE x == Header("flushed", frame_sequence, open_recs)
  <2>1. /\ Flush
        /\ io' = ToJournal(open_current_frame, x) \o MarkHandle \o Return
        /\ flushedMap' = Overlay(openMap, flushedMap) /\ openMap' = NoMap
    BY <1>2, Zenon DEF Commit
  <2>2. /\ flushed_terminal_record' = open_current_frame
        /\ restoring_terminal_record' = restoring_terminal_record
    BY <2>1, Zenon DEF Flush, restoringVars
  <2>3. open_current_frame # 0
    BY <1>2 DEF MapsInv, RingInv, OpenFrameFits
  <2>4. open_current_frame \in Blocks /\ HeaderAt(open_current_frame, x)
    BY <2>3, OpenHeader DEF HeaderTypes
  <2> HIDE DEF x
  <2>5. /\ WritesOf(ToJournal(open_current_frame, x))
             = {[to |-> "journal", at |-> open_current_frame, val |-> x]}
        /\ ToJournal(open_current_frame, x) \in Seq(WritesOf(ToJournal(open_current_frame, x)))
    BY OneWrite DEF ToJournal
  <2>6. /\ \A w \in WritesOf(MarkHandle) : w.to = "handle"
        /\ MarkHandle \in Seq(WritesOf(MarkHandle))
    <3>1. CASE FixedJournal
      BY <3>1, NoWrites DEF MarkHandle
    <3>2. CASE ~FixedJournal
      <4>1. MarkHandle = <<[to |-> "handle", val |-> TRUE]>>
        BY <3>2 DEF MarkHandle, ToHandle
      <4>2. /\ WritesOf(MarkHandle) = {[to |-> "handle", val |-> TRUE]}
            /\ MarkHandle \in Seq(WritesOf(MarkHandle))
        BY <4>1, OneWrite
      <4> QED
        BY <4>2
    <3> QED
      BY <3>1, <3>2
  <2>7. /\ \A w \in WritesOf(Return) : w.to = "return"
        /\ Return \in Seq(WritesOf(Return))
    BY OneWrite DEF Return
  <2>8. /\ Pending' = WritesOf(ToJournal(open_current_frame, x)) \union WritesOf(MarkHandle)
                      \union WritesOf(Return)
        /\ io' \in Seq(Pending')
    <3> DEFINE s == ToJournal(open_current_frame, x) \o MarkHandle
    <3>1. /\ s \in Seq(WritesOf(s))
          /\ WritesOf(s) = WritesOf(ToJournal(open_current_frame, x)) \union WritesOf(MarkHandle)
      BY <2>5, <2>6, MoreWrites, Zenon
    <3>2. io' = s \o Return
      BY <2>1
    <3> HIDE DEF s
    <3> QED
      BY <3>1, <3>2, <2>7, MoreWrites DEF Pending
  <2>9. open_current_frame \notin Mapped
    BY <2>3 DEF Mapped, MapsInv, HeadersApart, Headers, Blocks
  <2>10. OnlyHeaders(Pending', Mapped)
    <3>1. ASSUME NEW w \in WritesOf(ToJournal(open_current_frame, x))
          PROVE  w.to = "journal" /\ w.at \in Blocks \ Mapped /\ HeaderAt(w.at, w.val)
      BY <2>4, <2>5, <2>9
    <3> QED
      BY <2>6, <2>7, <2>8, <3>1 DEF OnlyHeaders
  <2>11. ASSUME NEW v \in Volume
         PROVE  /\ openMap'[v] = 0
                /\ flushedMap'[v] = IF openMap[v] # 0 THEN openMap[v] ELSE flushedMap[v]
    BY <2>1 DEF NoMap, Overlay
  <2>12. KeepsReads
    BY <1>1, <2>11 DEF KeepsReads, Shown, OnVolume, ToCopy, InUse
  <2>13. KeepsHeaders
    <3>1. [to |-> "journal", at |-> open_current_frame, val |-> x] \in Pending'
      BY <2>5, <2>8
    <3> QED
      BY <2>2, <3>1 DEF KeepsHeaders
  <2> QED
    BY <1>1, <2>8, <2>10, <2>12, <2>13, SameContents
<1>3. CASE ~open_remapped
  <2>1. io' = Return /\ UNCHANGED <<ringVars, openMap, flushedMap>>
    BY <1>3, Zenon DEF Commit
  <2>2. UNCHANGED <<flushed_terminal_record, restoring_terminal_record>>
    BY <2>1 DEF ringVars, flushedVars, restoringVars
  <2>3. Pending' = {[to |-> "return"]} /\ io' \in Seq(Pending')
    BY <2>1, OneWrite DEF Return, Pending
  <2>4. OnlyHeaders(Pending', Mapped)
    BY <2>3 DEF OnlyHeaders
  <2>5. KeepsReads /\ KeepsHeaders
    BY <1>1, <2>1, <2>2 DEF KeepsReads, KeepsHeaders, Shown, OnVolume, ToCopy, InUse
  <2> QED
    BY <1>1, <2>3, <2>4, <2>5, SameContents
<1> QED
  BY <1>2, <1>3

LEMMA StartRestoreDisk ==
    ASSUME MapsInv, DiskInv, StartRestore
    PROVE  DiskInv'
<1>1. /\ mode = "up" /\ mode' = mode /\ io = <<>> /\ io' = io /\ UNCHANGED diskVars /\ view' = view
      /\ ~open_remapped /\ RestoreStart
      /\ openMap' = openMap /\ restoringMap' = flushedMap /\ flushedMap' = NoMap
      /\ restore_state' = "mark" /\ copied' = {} /\ InUse
  BY Zenon DEF StartRestore, Ready, Done, DiskInv
<1>2. /\ restoring_start_record = 0
      /\ restoring_terminal_record' = flushed_terminal_record /\ flushed_terminal_record' = 0
  BY <1>1, Zenon DEF RestoreStart
<1>3. restoringMap = NoMap
  BY <1>2 DEF MapsInv, MapsTyped
<1>4. Pending' = {} /\ io' \in Seq(Pending')
  BY <1>1, NoWrites DEF Pending
<1>5. OnlyHeaders(Pending', Mapped) /\ KeepsHeaders
  BY <1>2, <1>4 DEF OnlyHeaders, KeepsHeaders
<1>6. ASSUME NEW v \in Volume
      PROVE  restoringMap'[v] = flushedMap[v] /\ flushedMap'[v] = 0 /\ restoringMap[v] = 0
  BY <1>1, <1>3 DEF NoMap
<1>7. KeepsReads
  BY <1>1, <1>6 DEF KeepsReads, Shown, OnVolume, InUse
<1> QED
  BY <1>1, <1>4, <1>5, <1>7, SameContents

\* A mark changes the type of a header and nothing else.
LEMMA MarkWrites ==
    ASSUME NEW b \in Blocks, HeaderAt(b, journal[b]), NEW type \in HeaderTypes
    PROVE  /\ WritesOf(Mark(b, type))
                 = {[to |-> "journal", at |-> b, val |-> [journal[b] EXCEPT !.type = type]]}
           /\ Mark(b, type) \in Seq(WritesOf(Mark(b, type)))
           /\ HeaderAt(b, [journal[b] EXCEPT !.type = type])
           /\ [journal[b] EXCEPT !.type = type].type = type
<1>1. /\ [journal[b] EXCEPT !.type = type].type = type
      /\ [journal[b] EXCEPT !.type = type].recs = journal[b].recs
      /\ DOMAIN [journal[b] EXCEPT !.type = type] = DOMAIN journal[b]
  BY DEF HeaderAt
<1> DEFINE x == [journal[b] EXCEPT !.type = type]
<1>2. HeaderAt(b, x)
  BY <1>1 DEF HeaderAt
<1>3. Mark(b, type) = <<[to |-> "journal", at |-> b, val |-> x]>>
  BY DEF Mark, ToJournal
<1> HIDE DEF x
<1>4. /\ WritesOf(Mark(b, type)) = {[to |-> "journal", at |-> b, val |-> x]}
      /\ Mark(b, type) \in Seq(WritesOf(Mark(b, type)))
  BY <1>3, OneWrite
<1> QED
  BY <1>1, <1>2, <1>4 DEF x

LEMMA RestorePassDisk ==
    ASSUME MapsInv, DiskInv, RestorePass
    PROVE  DiskInv'
<1>1. /\ mode = "up" /\ mode' = mode /\ io = <<>> /\ UNCHANGED diskVars /\ view' = view
      /\ UNCHANGED <<openMap, flushedMap, restoringMap, flushed_terminal_record, restoring_terminal_record>>
      /\ InUse /\ HeadersThere /\ DiskTyped
  BY Zenon DEF RestorePass, Ready, Done, DiskInv, ringVars, mapVars, flushedVars, restoringVars
<1>2. restore_state # "none"
  BY Zenon DEF RestorePass
<1>3. /\ restoring_terminal_record \in Blocks /\ restoring_terminal_record \notin Mapped
  <2>1. restoring_terminal_record # 0
    BY <1>1, <1>2 DEF MapsInv, MapsTyped
  <2>2. restoring_terminal_record \in Headers
    BY <2>1 DEF Headers
  <2>3. restoring_terminal_record \in Blocks
    BY <2>1, RingAssumption DEF MapsInv, RingInv, RingTypeOK, CountersOK, Blocks
  <2> QED
    BY <2>2, <2>3 DEF MapsInv, HeadersApart, Mapped
<1>4. HeaderAt(restoring_terminal_record, journal[restoring_terminal_record])
  <2>1. journal[restoring_terminal_record].type \in HeaderTypes
    BY <1>1, <1>3, NothingPending DEF HeadersThere, Blocks
  <2> QED
    BY <1>1, <1>3, <2>1 DEF DiskTyped, WellFormed, HeaderTypes
<1>5. ASSUME NEW type \in {"restoring", "restored"}, io' = Mark(restoring_terminal_record, type),
             restore_state' = "clear" => ToCopy \subseteq copied, copied' = copied
      PROVE  DiskInv'
  <2> DEFINE x == [journal[restoring_terminal_record] EXCEPT !.type = type]
  <2>1. /\ Pending' = {[to |-> "journal", at |-> restoring_terminal_record, val |-> x]}
        /\ io' \in Seq(Pending') /\ HeaderAt(restoring_terminal_record, x)
    BY <1>3, <1>4, <1>5, MarkWrites DEF Pending, HeaderTypes
  <2> HIDE DEF x
  <2>2. OnlyHeaders(Pending', Mapped)
    BY <1>3, <2>1 DEF OnlyHeaders
  <2>3. KeepsHeaders
    BY <1>1 DEF KeepsHeaders
  <2>4. KeepsReads
    BY <1>1, <1>5 DEF KeepsReads, Shown, OnVolume, ToCopy, InUse
  <2> QED
    BY <1>1, <2>1, <2>2, <2>3, <2>4, SameContents
<1>6. ASSUME NEW v \in ToCopy \ copied, io' = CopyOut(v, ValueAt(journal, restoringMap[v])),
             copied' = copied \union {v}, restore_state' = restore_state
      PROVE  DiskInv'
  <2> DEFINE c == ValueAt(journal, restoringMap[v])
  <2>1. /\ io' \in Seq(Pending')
        /\ [to |-> "volume", at |-> v, val |-> c] \in Pending'
        /\ \A w \in Pending' : w = [to |-> "volume", at |-> v, val |-> c] \/ w.to = "fat2"
    BY <1>6, CopyOutWrites DEF Pending
  <2>2. v \in Volume /\ restoringMap[v] # 0
    BY DEF ToCopy
  <2>3. OnVolume(v)' => c = view[v]
    <3>1. HAVE OnVolume(v)'
    <3>2. Shown(v) = restoringMap[v]
      BY <1>1, <3>1 DEF Shown, OnVolume
    <3>3. journal[restoringMap[v]] = DataBlock(view[v])
      BY <1>1, <2>2, <3>2, NothingPending DEF InUse
    <3> QED
      BY <3>3 DEF ValueAt, DataBlock
  <2> HIDE DEF c
  <2>4. \A w \in Pending' :
           /\ w.to \notin {"journal", "master"}
           /\ w.to = "volume" => w.at = v /\ w.val = c
    BY <2>1
  <2>5. UNCHANGED <<journal, volume>>
    BY <1>1 DEF diskVars
  <2>6. ASSUME NEW b, NEW y, JournalHolds(b, y) PROVE JournalHolds(b, y)'
    BY <1>1, <2>4, <2>5, <2>6, NothingPending DEF JournalHolds, JournalWrites
  <2>7. HeadersThere'
    BY <1>1, <2>4, <2>5, NothingPending DEF HeadersThere, MarkedAt, JournalWrites
  <2>8. ASSUME NEW u \in Volume, OnVolume(u)' PROVE VolumeHolds(u, view[u])'
    <3>1. CASE u = v
      BY <1>1, <2>1, <2>3, <2>4, <2>8, <3>1 DEF VolumeHolds, VolumeWrites
    <3>2. CASE u # v
      <4>1. OnVolume(u)
        BY <1>1, <1>6, <2>8, <3>2 DEF OnVolume
      <4>2. volume[u] = view[u]
        BY <1>1, <4>1, NothingPending DEF InUse
      <4> QED
        BY <1>1, <2>4, <2>5, <3>2, <4>2 DEF VolumeHolds, VolumeWrites
    <3> QED
      BY <3>1, <3>2
  <2>9. ASSUME NEW u \in Volume, Shown(u)' # 0 PROVE JournalHolds(Shown(u), DataBlock(view[u]))'
    <3>1. Shown(u)' = Shown(u)
      BY <1>1 DEF Shown
    <3>2. journal[Shown(u)] = DataBlock(view[u])
      BY <1>1, <2>9, <3>1, NothingPending DEF InUse
    <3> QED
      BY <1>1, <2>4, <2>5, <3>1, <3>2 DEF JournalHolds, JournalWrites
  <2>10. InUse'
    BY <1>1, <1>6, <2>8, <2>9 DEF InUse, ToCopy
  <2>11. view' = [u \in Volume |-> view'[u]]
    BY <1>1 DEF DiskTyped
  <2> QED
    BY <1>1, <2>1, <2>4, <2>7, <2>10, <2>11, UpStep
<1>7. \/ /\ io' = Mark(restoring_terminal_record, "restoring")
         /\ restore_state' = "copy" /\ UNCHANGED copied
      \/ /\ \E v \in ToCopy \ copied :
               /\ io' = CopyOut(v, ValueAt(journal, restoringMap[v]))
               /\ copied' = copied \union {v}
         /\ UNCHANGED restore_state
      \/ /\ ToCopy \subseteq copied
         /\ io' = Mark(restoring_terminal_record, "restored")
         /\ UNCHANGED copied
  BY Zenon DEF RestorePass
<1> QED
  BY <1>5, <1>6, <1>7

LEMMA EndRestoreDisk ==
    ASSUME MapsInv, DiskInv, EndRestore
    PROVE  DiskInv'
<1>1. /\ mode = "up" /\ mode' = mode /\ io = <<>> /\ UNCHANGED diskVars /\ view' = view
      /\ restore_state = "clear" /\ restore_state' = "none" /\ RestoreComplete
      /\ io' = IF KeepHandle THEN <<>> ELSE ClearHandle
      /\ UNCHANGED <<openMap, flushedMap>> /\ restoringMap' = NoMap /\ InUse
  BY Zenon DEF EndRestore, Ready, Done, DiskInv
<1>2. restoring_terminal_record' = 0 /\ flushed_terminal_record' = flushed_terminal_record
  BY <1>1, Zenon DEF RestoreComplete, flushedVars
<1>3. /\ io' \in Seq(Pending')
      /\ \A w \in Pending' : w.to \in {"fat2", "handle"}
  BY <1>1, NoWrites, ClearHandleWrites DEF Pending
<1>4. OnlyHeaders(Pending', Mapped) /\ KeepsHeaders
  BY <1>2, <1>3 DEF OnlyHeaders, KeepsHeaders
<1>5. \A v \in Volume : restoringMap'[v] = 0
  BY <1>1 DEF NoMap
<1>6. ASSUME NEW v \in Volume, OnVolume(v)' PROVE VolumeHolds(v, view[v])
  <2>1. OnVolume(v)
    BY <1>1, <1>6 DEF OnVolume, InUse, ToCopy
  <2> QED
    BY <1>1, <2>1 DEF InUse
<1>7. KeepsReads
  BY <1>1, <1>5, <1>6 DEF KeepsReads, Shown
<1> QED
  BY <1>1, <1>3, <1>4, <1>7, SameContents

LEMMA BeginSessionDisk ==
    ASSUME DiskInv, BeginSession
    PROVE  DiskInv'
<1> DEFINE first == [type |-> "open", seq |-> 1, session |-> session_id',
                     space |-> session_current_freespace', recs |-> <<>>]
<1>1. /\ mode = "start" /\ mode' = "up" /\ io = <<>> /\ UNCHANGED diskVars /\ view' = view
      /\ io' = ToMaster(session_id', 1) \o ToJournal(1, first)
      /\ StartJournaling /\ InMemory /\ AfterRecovery /\ DiskTyped
  BY Zenon DEF BeginSession, Done, DiskInv
<1>2. /\ openMap' = NoMap /\ flushedMap' = NoMap /\ restoringMap' = NoMap /\ restore_state' = "none"
  BY <1>1, Zenon DEF InMemory
<1>3. flushed_terminal_record' = 0 /\ restoring_terminal_record' = 0
  BY <1>1, Zenon DEF StartJournaling
<1>4. 1 \in Blocks /\ HeaderAt(1, first)
  <2>1. <<>> \in Seq(Volume) /\ Len(<<>>) = 0 /\ 1 + 0 < FileSize
    BY RingAssumption
  <2> QED
    BY <2>1, RingAssumption DEF HeaderAt, HeaderTypes, Blocks
<1> HIDE DEF first
<1>5. /\ WritesOf(ToMaster(session_id', 1))
           = {[to |-> "master", val |-> [session |-> session_id', start |-> 1]]}
      /\ ToMaster(session_id', 1) \in Seq(WritesOf(ToMaster(session_id', 1)))
  BY OneWrite DEF ToMaster
<1>6. /\ WritesOf(ToJournal(1, first)) = {[to |-> "journal", at |-> 1, val |-> first]}
      /\ ToJournal(1, first) \in Seq(WritesOf(ToJournal(1, first)))
  BY OneWrite DEF ToJournal
<1>7. /\ Pending' = {[to |-> "master", val |-> [session |-> session_id', start |-> 1]],
                     [to |-> "journal", at |-> 1, val |-> first]}
      /\ io' \in Seq(Pending')
  <2>1. /\ ToMaster(session_id', 1) \o ToJournal(1, first)
             \in Seq(WritesOf(ToMaster(session_id', 1) \o ToJournal(1, first)))
        /\ WritesOf(ToMaster(session_id', 1) \o ToJournal(1, first))
             = WritesOf(ToMaster(session_id', 1)) \union WritesOf(ToJournal(1, first))
    BY <1>5, <1>6, MoreWrites, Zenon
  <2> QED
    BY <1>1, <1>5, <1>6, <2>1 DEF Pending
<1>8. \A v \in Volume : Shown(v)' = 0
  BY <1>2 DEF Shown, NoMap
<1>9. ASSUME NEW v \in Volume PROVE VolumeHolds(v, view[v])'
  <2>1. volume'[v] = view'[v]
    BY <1>1 DEF AfterRecovery, diskVars
  <2> QED
    BY <1>7, <2>1 DEF VolumeHolds, VolumeWrites
<1>10. InUse'
  BY <1>2, <1>8, <1>9 DEF InUse
<1>11. HeadersThere'
  BY <1>3 DEF HeadersThere
<1>12. \A w \in Pending' :
         /\ w.to = "journal" => w.at \in Blocks /\ WellFormed(w.at, w.val)
         /\ w.to = "master" => w.val.start \in Blocks
  BY <1>4, <1>7 DEF WellFormed
<1>13. view' = [u \in Volume |-> view'[u]]
  BY <1>1 DEF DiskTyped
<1> QED
  BY <1>1, <1>7, <1>10, <1>11, <1>12, <1>13, UpStep

-----------------------------------------------------------------------------
(* What a mount reads *)

LEMMA Least ==
    ASSUME NEW S \in SUBSET Nat, S # {}
    PROVE  \E n \in S : \A k \in S : n <= k
<1>1. \E n \in S : \A k \in S : ~ (<<k, n>> \in OpToRel(<, Nat))
  BY WFMin, NatLessThanWellFounded, Zenon
<1>2. ASSUME NEW n \in S, NEW k \in S, k < n
      PROVE  <<k, n>> \in OpToRel(<, Nat)
  BY <1>2, SMT DEF OpToRel
<1>3. \E n \in S : \A k \in S : ~(k < n)
  BY <1>1, <1>2, Zenon
<1> QED
  BY <1>3

LEMMA Greatest ==
    ASSUME NEW m \in Nat, NEW S \in SUBSET (1 .. m), S # {}
    PROVE  \E n \in S : \A k \in S : k <= n
<1> DEFINE T == {m - k : k \in S}
<1>1. T \in SUBSET Nat /\ T # {}
  <2>1. \A k \in S : m - k \in Nat
    OBVIOUS
  <2> QED
    BY <2>1, Zenon
<1>2. PICK t \in T : \A k \in T : t <= k
  BY <1>1, Least
<1>3. PICK n \in S : t = m - n
  OBVIOUS
<1>4. ASSUME NEW k \in S PROVE k <= n
  <2>1. m - k \in T
    OBVIOUS
  <2>2. m - n <= m - k
    BY <1>2, <1>3, <2>1
  <2> QED
    BY <2>2
<1> QED
  BY <1>4

\* The number of frames a mount follows.
GoesOn(j, m, n) == Continues(j, m, Walk(Following(j), m.start)[n], n)
IsLength(j, m, n) ==
    /\ \A k \in 1 .. n : GoesOn(j, m, k)
    /\ n = FileSize \/ ~GoesOn(j, m, n + 1)

LEMMA LengthExists ==
    ASSUME NEW j, NEW m
    PROVE  \E n \in 0 .. FileSize : IsLength(j, m, n)
<1> USE RingAssumption
<1> DEFINE S == {n \in 0 .. FileSize : n = FileSize \/ ~GoesOn(j, m, n + 1)}
<1>1. S \in SUBSET Nat /\ FileSize \in S
  OBVIOUS
<1>2. PICK n \in S : \A k \in S : n <= k
  BY <1>1, Least
<1>3. ASSUME NEW k \in 1 .. n PROVE GoesOn(j, m, k)
  <2>1. k - 1 \notin S
    BY <1>2
  <2>2. k - 1 \in 0 .. FileSize /\ k - 1 # FileSize /\ (k - 1) + 1 = k
    OBVIOUS
  <2> QED
    BY <2>1, <2>2
<1> QED
  BY <1>2, <1>3 DEF IsLength

LEMMA LengthUnique ==
    ASSUME NEW j, NEW m, NEW n \in 0 .. FileSize, NEW k \in 0 .. FileSize,
           IsLength(j, m, n), IsLength(j, m, k)
    PROVE  n = k
<1> USE RingAssumption
<1>1. ASSUME NEW a \in 0 .. FileSize, NEW b \in 0 .. FileSize, IsLength(j, m, a), IsLength(j, m, b)
      PROVE  ~(a < b)
  <2>1. SUFFICES ASSUME a < b PROVE FALSE
    OBVIOUS
  <2>2. a + 1 \in 1 .. b /\ a # FileSize
    BY <2>1
  <2> QED
    BY <1>1, <2>2 DEF IsLength
<1> QED
  BY <1>1

LEMMA ChainLength ==
    ASSUME NEW j, NEW m
    PROVE  \E n \in 0 .. FileSize :
              /\ IsLength(j, m, n)
              /\ Chain(j, m) = SubSeq([i \in 1 .. FileSize |-> Walk(Following(j), m.start)[i]], 1, n)
<1> DEFINE frame == Walk(Following(j), m.start)
           length == CHOOSE n \in 0 .. FileSize :
                        /\ \A k \in 1 .. n : Continues(j, m, frame[k], k)
                        /\ n = FileSize \/ ~Continues(j, m, frame[n + 1], n + 1)
<1>1. Chain(j, m) = SubSeq([i \in 1 .. FileSize |-> frame[i]], 1, length)
  BY DEF Chain
<1>2. \E n \in 0 .. FileSize :
         /\ \A k \in 1 .. n : Continues(j, m, frame[k], k)
         /\ n = FileSize \/ ~Continues(j, m, frame[n + 1], n + 1)
  BY LengthExists DEF IsLength, GoesOn
<1>3. /\ length \in 0 .. FileSize
      /\ \A k \in 1 .. length : Continues(j, m, frame[k], k)
      /\ length = FileSize \/ ~Continues(j, m, frame[length + 1], length + 1)
  BY <1>2
<1> HIDE DEF length
<1> QED
  BY <1>1, <1>3 DEF IsLength, GoesOn

LEMMA ChainIs ==
    ASSUME NEW j, NEW m
    PROVE  /\ Chain(j, m) \in Seq(Blocks) /\ Len(Chain(j, m)) \in Nat
           /\ \A i \in 1 .. Len(Chain(j, m)) :
                 Chain(j, m)[i] \in Blocks /\ j[Chain(j, m)[i]].type \notin {"data", "open"}
<1> USE RingAssumption
<1> DEFINE s == [i \in 1 .. FileSize |-> Walk(Following(j), m.start)[i]]
<1>1. PICK n \in 0 .. FileSize : IsLength(j, m, n) /\ Chain(j, m) = SubSeq(s, 1, n)
  BY ChainLength
<1>2. \A i \in 1 .. n : s[i] \in Blocks /\ j[s[i]].type \notin {"data", "open"}
  <2>1. ASSUME NEW i \in 1 .. n PROVE s[i] \in Blocks /\ j[s[i]].type \notin {"data", "open"}
    <3>0. \A k \in 1 .. n : GoesOn(j, m, k)
      BY <1>1, Zenon DEF IsLength
    <3>1. GoesOn(j, m, i) /\ i \in 1 .. FileSize
      BY <3>0
    <3>2. s[i] = Walk(Following(j), m.start)[i]
      BY <3>1
    <3> QED
      BY <3>1, <3>2 DEF GoesOn, Continues, IsFrame
  <2> QED
    BY <2>1
<1> HIDE DEF s
<1>3. /\ SubSeq(s, 1, n) \in Seq(Blocks) /\ Len(SubSeq(s, 1, n)) = n
      /\ \A i \in 1 .. n : SubSeq(s, 1, n)[i] = s[i]
  BY <1>2, SubSeqProperties
<1> QED
  BY <1>1, <1>2, <1>3

LEMMA LastOfIs ==
    ASSUME NEW j, NEW c \in Seq(Blocks), NEW types
    PROVE  /\ LastOf(j, c, types) \in 0 .. Len(c)
           /\ LastOf(j, c, types) # 0 => j[c[LastOf(j, c, types)]].type \in types
           /\ \A i \in 1 .. Len(c) : j[c[i]].type \in types => i <= LastOf(j, c, types)
<1> DEFINE found == {i \in 1 .. Len(c) : j[c[i]].type \in types}
<1>1. Len(c) \in Nat
  BY LenProperties
<1>2. CASE found = {}
  <2>1. LastOf(j, c, types) = 0
    BY <1>2 DEF LastOf
  <2> QED
    BY <1>1, <1>2, <2>1
<1>3. CASE found # {}
  <2>1. \E i \in found : \A k \in found : k <= i
    BY <1>1, <1>3, Greatest
  <2>2. LastOf(j, c, types) = CHOOSE i \in found : \A k \in found : k <= i
    BY <1>3 DEF LastOf
  <2>3. LastOf(j, c, types) \in found /\ \A k \in found : k <= LastOf(j, c, types)
    BY <2>1, <2>2
  <2> QED
    BY <2>3
<1> QED
  BY <1>2, <1>3

LEMMA LatestIs ==
    ASSUME NEW j, NEW r \in Seq(Blocks), NEW v \in Replaced(j, r)
    PROVE  /\ LatestRecord(j, r, v) \in Records(j, r)
           /\ j[r[LatestRecord(j, r, v)[1]]].recs[LatestRecord(j, r, v)[2]] = v
           /\ \A y \in Records(j, r) :
                 j[r[y[1]]].recs[y[2]] = v =>
                    \/ y[1] < LatestRecord(j, r, v)[1]
                    \/ y[1] = LatestRecord(j, r, v)[1] /\ y[2] <= LatestRecord(j, r, v)[2]
<1> DEFINE found == {x \in Records(j, r) : j[r[x[1]]].recs[x[2]] = v}
           S1 == {x[1] : x \in found}
<1>1. Len(r) \in Nat /\ FrameMax \in Nat
  BY LenProperties, RingAssumption
<1>2. \A x \in found : x[1] \in 1 .. Len(r) /\ x[2] \in 1 .. FrameMax /\ x = <<x[1], x[2]>>
  BY DEF Records
<1>3. found # {}
  BY DEF Replaced
<1>4. PICK a \in S1 : \A k \in S1 : k <= a
  <2>1. S1 \in SUBSET (1 .. Len(r)) /\ S1 # {}
    BY <1>2, <1>3
  <2> QED
    BY <1>1, <2>1, Greatest
<1> DEFINE S2 == {x[2] : x \in {y \in found : y[1] = a}}
<1>5. PICK b \in S2 : \A k \in S2 : k <= b
  <2>1. S2 \in SUBSET (1 .. FrameMax) /\ S2 # {}
    BY <1>2
  <2> QED
    BY <1>1, <2>1, Greatest
<1>6. PICK x \in found : x[1] = a /\ x[2] = b
  OBVIOUS
<1>7. \A y \in found : y[1] < x[1] \/ (y[1] = x[1] /\ y[2] <= x[2])
  <2>1. ASSUME NEW y \in found PROVE y[1] < x[1] \/ (y[1] = x[1] /\ y[2] <= x[2])
    <3>1. y[1] \in S1 /\ y[1] <= a
      BY <1>4
    <3>2. CASE y[1] = a
      <4>1. y[2] \in S2
        BY <3>2
      <4> QED
        BY <1>5, <1>6, <3>2, <4>1
    <3>3. CASE y[1] # a
      BY <1>2, <1>6, <3>1, <3>3
    <3> QED
      BY <3>2, <3>3
  <2> QED
    BY <2>1
<1>8. LatestRecord(j, r, v) =
         CHOOSE z \in found : \A y \in found : y[1] < z[1] \/ (y[1] = z[1] /\ y[2] <= z[2])
  BY DEF LatestRecord
<1> HIDE DEF found
<1>9. /\ LatestRecord(j, r, v) \in found
      /\ \A y \in found : \/ y[1] < LatestRecord(j, r, v)[1]
                          \/ y[1] = LatestRecord(j, r, v)[1] /\ y[2] <= LatestRecord(j, r, v)[2]
  BY <1>7, <1>8
<1> QED
  BY <1>9 DEF found

\* A mark that is neither taken away nor put where none was changes nothing of
\* what a mount finds and copies.
LEMMA AlikeChain ==
    ASSUME NEW j, NEW k, NEW m, m.start \in Blocks, \A b \in Blocks : Alike(j[b], k[b])
    PROVE  Chain(k, m) = Chain(j, m)
<1>1. Following(k) = Following(j)
  <2>1. ASSUME NEW b \in 0 .. FileSize - 1
        PROVE  (IF b = 0 \/ j[b].type = "data" THEN 0 ELSE NextFrame(j, b))
                  = (IF b = 0 \/ k[b].type = "data" THEN 0 ELSE NextFrame(k, b))
    <3>1. CASE b = 0
      BY <3>1
    <3>2. CASE b # 0
      <4>1. Alike(j[b], k[b])
        BY <3>2 DEF Blocks
      <4> QED
        BY <4>1 DEF Alike, NextFrame
    <3> QED
      BY <3>1, <3>2
  <2> QED
    BY <2>1, Zenon DEF Following
<1>2. ASSUME NEW n PROVE GoesOn(k, m, n) <=> GoesOn(j, m, n)
  <2> DEFINE b == Walk(Following(j), m.start)[n]
  <2>1. b \in Blocks => Alike(j[b], k[b])
    OBVIOUS
  <2>2. Alike(j[m.start], k[m.start])
    OBVIOUS
  <2> HIDE DEF b
  <2>3. Continues(k, m, b, n) <=> Continues(j, m, b, n)
    BY <2>1, <2>2 DEF Alike, Continues, IsFrame
  <2> QED
    BY <1>1, <2>3 DEF GoesOn, b
<1>3. \A n : IsLength(k, m, n) <=> IsLength(j, m, n)
  BY <1>2 DEF IsLength
<1> DEFINE s == [i \in 1 .. FileSize |-> Walk(Following(j), m.start)[i]]
<1>4. PICK n \in 0 .. FileSize : IsLength(j, m, n) /\ Chain(j, m) = SubSeq(s, 1, n)
  BY ChainLength
<1>5. PICK l \in 0 .. FileSize : IsLength(k, m, l) /\ Chain(k, m) = SubSeq(s, 1, l)
  <2>1. \E l \in 0 .. FileSize :
           /\ IsLength(k, m, l)
           /\ Chain(k, m) = SubSeq([i \in 1 .. FileSize |-> Walk(Following(k), m.start)[i]], 1, l)
    BY ChainLength, Zenon
  <2> QED
    BY <1>1, <2>1, Zenon
<1> HIDE DEF s
<1>6. n = l
  BY <1>3, <1>4, <1>5, LengthUnique
<1> QED
  BY <1>4, <1>5, <1>6

LEMMA AlikeRange ==
    ASSUME NEW j, NEW k, \A b \in Blocks : Alike(j[b], k[b]),
           NEW r \in Seq(Blocks), \A i \in 1 .. Len(r) : HeaderAt(r[i], j[r[i]])
    PROVE  /\ Replaced(k, r) = Replaced(j, r)
           /\ \A v \in Replaced(j, r) : Replacement(k, r, v) = Replacement(j, r, v)
<1>1. Len(r) \in Nat /\ \A i \in 1 .. Len(r) : r[i] \in Blocks /\ j[r[i]].recs = k[r[i]].recs
  BY LenProperties, ElementOfSeq DEF Alike
<1>2. Records(k, r) = Records(j, r)
  <2>1. \A x \in (1 .. Len(r)) \X (1 .. FrameMax) : j[r[x[1]]].recs = k[r[x[1]]].recs
    BY <1>1
  <2> QED
    BY <2>1 DEF Records
<1>3. \A x \in Records(j, r) : j[r[x[1]]].recs = k[r[x[1]]].recs /\ x[1] \in 1 .. Len(r)
  BY <1>1 DEF Records
<1>4. Replaced(k, r) = Replaced(j, r)
  BY <1>2, <1>3 DEF Replaced
<1>5. ASSUME NEW v \in Replaced(j, r) PROVE Replacement(k, r, v) = Replacement(j, r, v)
  <2>1. PICK x : x = LatestRecord(j, r, v)
    OBVIOUS
  <2>2. PICK y : y = LatestRecord(k, r, v)
    OBVIOUS
  <2>3. /\ x \in Records(j, r) /\ j[r[x[1]]].recs[x[2]] = v
        /\ \A z \in Records(j, r) :
              j[r[z[1]]].recs[z[2]] = v => z[1] < x[1] \/ (z[1] = x[1] /\ z[2] <= x[2])
    BY <2>1, LatestIs
  <2>4. /\ y \in Records(j, r) /\ j[r[y[1]]].recs[y[2]] = v
        /\ \A z \in Records(j, r) :
              j[r[z[1]]].recs[z[2]] = v => z[1] < y[1] \/ (z[1] = y[1] /\ z[2] <= y[2])
    <3>1. /\ y \in Records(k, r) /\ k[r[y[1]]].recs[y[2]] = v
          /\ \A z \in Records(k, r) :
                k[r[z[1]]].recs[z[2]] = v => z[1] < y[1] \/ (z[1] = y[1] /\ z[2] <= y[2])
      BY <1>4, <2>2, LatestIs
    <3> QED
      BY <3>1, <1>2, <1>3
  <2>5. x[1] \in 1 .. Len(r) /\ y[1] \in 1 .. Len(r) /\ x[2] \in 1 .. FrameMax /\ y[2] \in 1 .. FrameMax
        /\ x = <<x[1], x[2]>> /\ y = <<y[1], y[2]>> /\ x[2] <= Len(j[r[x[1]]].recs)
    BY <2>3, <2>4 DEF Records
  <2>6. x = y
    <3>1. y[1] < x[1] \/ (y[1] = x[1] /\ y[2] <= x[2])
      BY <2>3, <2>4
    <3>2. x[1] < y[1] \/ (x[1] = y[1] /\ x[2] <= y[2])
      BY <2>3, <2>4
    <3>3. x[1] = y[1] /\ x[2] = y[2]
      BY <1>1, <2>5, <3>1, <3>2, RingAssumption
    <3> QED
      BY <2>5, <3>3
  <2> DEFINE b == r[x[1]] + x[2]
  <2>7. b \in Blocks
    <3>1. r[x[1]] \in Blocks /\ HeaderAt(r[x[1]], j[r[x[1]]])
      BY <1>1, <2>5
    <3>2. Len(j[r[x[1]]].recs) \in Nat /\ r[x[1]] + Len(j[r[x[1]]].recs) < FileSize
      BY <3>1, LenProperties DEF HeaderAt
    <3>3. x[2] \in Nat /\ x[2] >= 1 /\ x[2] <= Len(j[r[x[1]]].recs)
      BY <2>5, RingAssumption
    <3>4. \A p \in Blocks, q \in Nat, l \in Nat : p + l < FileSize /\ q <= l => p + q \in Blocks
      BY RingAssumption DEF Blocks
    <3> QED
      BY <3>1, <3>2, <3>3, <3>4
  <2>8. ValueAt(k, b) = ValueAt(j, b)
    BY <2>7 DEF ValueAt, Alike
  <2>9. Replacement(j, r, v) = ValueAt(j, b) /\ Replacement(k, r, v) = ValueAt(k, b)
    BY <2>1, <2>2, <2>6 DEF Replacement
  <2> QED
    BY <2>8, <2>9
<1> QED
  BY <1>4, <1>5

LEMMA Cut ==
    ASSUME NEW c \in Seq(Blocks), NEW a \in 0 .. Len(c), NEW b \in 0 .. Len(c)
    PROVE  IF a < b
           THEN /\ SubSeq(c, a + 1, b) \in Seq(Blocks) /\ SubSeq(c, a + 1, b) # <<>>
                /\ LastBlock(SubSeq(c, a + 1, b)) = c[b]
                /\ \A i \in 1 .. Len(SubSeq(c, a + 1, b)) :
                      \E q \in 1 .. Len(c) : SubSeq(c, a + 1, b)[i] = c[q]
           ELSE SubSeq(c, a + 1, b) = <<>>
<1> DEFINE s == SubSeq(c, a + 1, b)
<1>1. Len(c) \in Nat
  BY LenProperties
<1>2. CASE ~(a < b)
  BY <1>1, <1>2, SubSeqEmpty
<1>3. CASE a < b
  <2>1. \A i \in a + 1 .. b : c[i] \in Blocks
    BY <1>1, ElementOfSeq
  <2>2. /\ s \in Seq(Blocks)
        /\ Len(s) = IF a + 1 <= b THEN b - (a + 1) + 1 ELSE 0
        /\ \A i \in 1 .. b - (a + 1) + 1 : s[i] = c[a + 1 + i - 1]
    BY <1>1, <2>1, SubSeqProperties
  <2> HIDE DEF s
  <2>3. Len(s) = b - a /\ b - a \in 1 .. Len(c) /\ \A i \in 1 .. b - a : s[i] = c[a + i]
    BY <1>1, <1>3, <2>2
  <2>4. s # <<>>
    BY <2>2, <2>3, EmptySeq
  <2>5. LastBlock(s) = c[b]
    BY <1>1, <2>3 DEF LastBlock
  <2>6. ASSUME NEW i \in 1 .. Len(s) PROVE \E q \in 1 .. Len(c) : s[i] = c[q]
    <3>1. a + i \in 1 .. Len(c) /\ s[i] = c[a + i]
      BY <1>1, <1>3, <2>3
    <3> QED
      BY <3>1
  <2> QED
    BY <1>3, <2>2, <2>4, <2>5, <2>6 DEF s
<1> QED
  BY <1>2, <1>3

\* The ranges a mount restores, and where they end in the chain.
LEMMA RangesAre ==
    ASSUME NEW j, NEW m, NEW h, NEW v
    PROVE  LET c == Chain(j, m)
               R == Restoring(j, c)
               F == Flushed(j, c)
           IN  /\ \/ RangesOf(j, m, h, v) = <<>>
                  \/ R = <<>> /\ F # <<>> /\ RangesOf(j, m, h, v) = <<F>>
                  \/ R # <<>> /\ F = <<>> /\ RangesOf(j, m, h, v) = <<R>>
                  \/ R # <<>> /\ F # <<>> /\ RangesOf(j, m, h, v) = <<R, F>>
               /\ ~JournalFound(h) \/ (R = <<>> /\ F = <<>>) => RangesOf(j, m, h, v) = <<>>
<1> DEFINE c == Chain(j, m)
           R == Restoring(j, c)
           F == Flushed(j, c)
<1>1. RangesOf(j, m, h, v) =
          IF ~JournalFound(h) \/ Invalid(j, c) \/ OutOfDate(j, c, v) THEN <<>>
          ELSE IF R = <<>>
               THEN IF F = <<>> THEN <<>> ELSE <<F>>
               ELSE IF F = <<>> THEN <<R>> ELSE <<R, F>>
  BY DEF RangesOf
<1> HIDE DEF c, R, F
<1>2. /\ \/ RangesOf(j, m, h, v) = <<>>
         \/ R = <<>> /\ F # <<>> /\ RangesOf(j, m, h, v) = <<F>>
         \/ R # <<>> /\ F = <<>> /\ RangesOf(j, m, h, v) = <<R>>
         \/ R # <<>> /\ F # <<>> /\ RangesOf(j, m, h, v) = <<R, F>>
      /\ ~JournalFound(h) \/ (R = <<>> /\ F = <<>>) => RangesOf(j, m, h, v) = <<>>
  BY <1>1, Zenon
<1> QED
  BY <1>2 DEF c, R, F

LEMMA RestoringIs ==
    ASSUME NEW j, NEW c \in Seq(Blocks)
    PROVE  IF LastOf(j, c, {"restored"}) < LastOf(j, c, {"restoring"})
           THEN /\ Restoring(j, c) \in Seq(Blocks) /\ Restoring(j, c) # <<>>
                /\ LastBlock(Restoring(j, c)) = c[LastOf(j, c, {"restoring"})]
                /\ \A i \in 1 .. Len(Restoring(j, c)) :
                      \E q \in 1 .. Len(c) : Restoring(j, c)[i] = c[q]
           ELSE Restoring(j, c) = <<>>
  BY Cut, LastOfIs DEF Restoring

LEMMA FlushedIs ==
    ASSUME NEW j, NEW c \in Seq(Blocks)
    PROVE  IF LastOf(j, c, {"restored", "restoring"}) < LastOf(j, c, {"flushed"})
           THEN /\ Flushed(j, c) \in Seq(Blocks) /\ Flushed(j, c) # <<>>
                /\ LastBlock(Flushed(j, c)) = c[LastOf(j, c, {"flushed"})]
                /\ \A i \in 1 .. Len(Flushed(j, c)) :
                      \E q \in 1 .. Len(c) : Flushed(j, c)[i] = c[q]
           ELSE Flushed(j, c) = <<>>
  BY Cut, LastOfIs DEF Flushed

LEMMA RecoveredIs ==
    Recovered = Restored(journal, Ranges, volume)
  BY DEF Recovered, RecoveredFrom, Ranges

LEMMA RestoredNothing ==
    ASSUME NEW j, NEW vol
    PROVE  Restored(j, <<>>, vol) = [v \in Volume |-> vol[v]]
<1>1. Len(<<>>) = 0
  OBVIOUS
<1>2. \A v : {i \in 1 .. Len(<<>>) : v \in Replaced(j, <<>>[i])} = {}
  BY <1>1
<1> QED
  BY <1>2 DEF Restored

LEMMA RestoredOne ==
    ASSUME NEW j, NEW vol, NEW r, NEW v \in Volume
    PROVE  Restored(j, <<r>>, vol)[v] = IF v \in Replaced(j, r) THEN Replacement(j, r, v) ELSE vol[v]
<1> DEFINE in == {i \in 1 .. Len(<<r>>) : v \in Replaced(j, <<r>>[i])}
<1>1. Restored(j, <<r>>, vol)[v] =
         IF in = {} THEN vol[v]
         ELSE Replacement(j, <<r>>[CHOOSE i \in in : \A k \in in : k <= i], v)
  BY DEF Restored
<1>2. in = IF v \in Replaced(j, r) THEN {1} ELSE {}
  OBVIOUS
<1>3. CASE v \in Replaced(j, r)
  <2> HIDE DEF in
  <2>1. (CHOOSE i \in in : \A k \in in : k <= i) = 1
    BY <1>2, <1>3
  <2> QED
    BY <1>1, <1>2, <1>3, <2>1
<1>4. CASE v \notin Replaced(j, r)
  BY <1>1, <1>2, <1>4
<1> QED
  BY <1>3, <1>4

LEMMA RestoredTwo ==
    ASSUME NEW j, NEW vol, NEW r, NEW f, NEW v \in Volume
    PROVE  Restored(j, <<r, f>>, vol)[v] =
              IF v \in Replaced(j, f) THEN Replacement(j, f, v)
              ELSE IF v \in Replaced(j, r) THEN Replacement(j, r, v) ELSE vol[v]
<1> DEFINE in == {i \in 1 .. Len(<<r, f>>) : v \in Replaced(j, <<r, f>>[i])}
           last == CHOOSE i \in in : \A k \in in : k <= i
<1>1. Restored(j, <<r, f>>, vol)[v] =
         IF in = {} THEN vol[v] ELSE Replacement(j, <<r, f>>[last], v)
  BY DEF Restored
<1>2. \A i : i \in in <=> (i = 1 /\ v \in Replaced(j, r)) \/ (i = 2 /\ v \in Replaced(j, f))
  OBVIOUS
<1>3. CASE v \in Replaced(j, f)
  <2> HIDE DEF in
  <2>1. 2 \in in /\ \A k \in in : k <= 2
    BY <1>2, <1>3
  <2>2. last \in in /\ \A k \in in : k <= last
    BY <2>1
  <2>3. last = 2
    <3> HIDE DEF last
    <3> QED
      BY <1>2, <2>1, <2>2
  <2> HIDE DEF last
  <2> QED
    BY <1>1, <1>3, <2>1, <2>3
<1>4. CASE v \notin Replaced(j, f) /\ v \in Replaced(j, r)
  <2> HIDE DEF in
  <2>1. 1 \in in /\ \A k \in in : k <= 1
    BY <1>2, <1>4
  <2>2. last \in in
    BY <2>1
  <2>3. last = 1
    <3> HIDE DEF last
    <3> QED
      BY <1>2, <1>4, <2>2
  <2> HIDE DEF last
  <2> QED
    BY <1>1, <1>4, <2>1, <2>3
<1>5. CASE v \notin Replaced(j, f) /\ v \notin Replaced(j, r)
  <2> HIDE DEF in
  <2>1. in = {}
    BY <1>2, <1>5
  <2> HIDE DEF last
  <2> QED
    BY <1>1, <1>5, <2>1
<1> QED
  BY <1>3, <1>4, <1>5

-----------------------------------------------------------------------------
(* A crash and the mounts that follow *)

LEMMA EmptyChain ==
    ASSUME NEW j, NEW c \in Seq(Blocks),
           \A i \in 1 .. Len(c) : j[c[i]].type \notin {"restoring", "flushed"}
    PROVE  Restoring(j, c) = <<>> /\ Flushed(j, c) = <<>>
<1>1. Len(c) \in Nat
  BY LenProperties
<1>2. LastOf(j, c, {"restoring"}) = 0 /\ LastOf(j, c, {"flushed"}) = 0
  BY <1>1, LastOfIs
<1>3. LastOf(j, c, {"restored"}) \in Nat /\ LastOf(j, c, {"restored", "restoring"}) \in Nat
  BY <1>1, LastOfIs
<1> QED
  BY <1>2, <1>3, RestoringIs, FlushedIs

LEMMA InitDisk ==
    ASSUME FsInit
    PROVE  DiskInv
<1> USE RingAssumption
<1>1. /\ journal = [b \in Blocks |-> Unwritten] /\ master = [session |-> 0, start |-> 1]
      /\ volume = [v \in Volume |-> IF v = "fat" THEN InitFree ELSE 0]
      /\ mode = "down" /\ io = <<>> /\ view = volume
      /\ flushed_terminal_record = 0 /\ restoring_terminal_record = 0
  BY Zenon DEF FsInit, RingInit
<1>2. Pending = {}
  BY <1>1, NothingPending
<1>3. \A b \in Blocks : journal[b].type = "data"
  BY <1>1 DEF Unwritten
<1>4. Ranges = <<>>
  <2>1. \A i \in 1 .. Len(Chain(journal, master)) :
           journal[Chain(journal, master)[i]].type \notin {"restoring", "flushed"}
    BY <1>3, ChainIs
  <2>2. /\ Restoring(journal, Chain(journal, master)) = <<>>
        /\ Flushed(journal, Chain(journal, master)) = <<>>
    BY <2>1, ChainIs, EmptyChain
  <2> QED
    BY <2>2, RangesAre DEF Ranges
<1>5. volume = [v \in Volume |-> volume[v]]
  BY <1>1
<1>6. Recovered = view
  BY <1>1, <1>4, <1>5, RecoveredIs, RestoredNothing
<1>7. DiskTyped
  BY <1>1, <1>2, <1>3, <1>5 DEF DiskTyped, WellFormed, Blocks
<1>8. HeadersThere /\ InUse /\ InRecovery /\ AfterRecovery
  BY <1>1, <1>6 DEF HeadersThere, InUse, InRecovery, AfterRecovery
<1> QED
  BY <1>7, <1>8 DEF DiskInv

LEMMA CrashDisk ==
    ASSUME DiskInv, Crash
    PROVE  DiskInv'
<1>1. /\ mode' = "down" /\ io' = <<>> /\ view' = Recovered /\ UNCHANGED diskVars
      /\ StartJournaling /\ DiskTyped
  BY Zenon DEF Crash, DiskInv
<1>2. flushed_terminal_record' = 0 /\ restoring_terminal_record' = 0
  BY <1>1, Zenon DEF StartJournaling
<1>3. UNCHANGED <<journal, master, handle, volume>>
  BY <1>1 DEF diskVars
<1>4. view' = Recovered'
  BY <1>1, <1>3 DEF Recovered
<1>5. Pending' = {} /\ io' \in Seq(Pending')
  BY <1>1, NoWrites DEF Pending
<1>6. view' = [v \in Volume |-> view'[v]]
  BY <1>1, RecoveredIs DEF Restored
<1>7. DiskTyped'
  BY <1>1, <1>3, <1>5, <1>6 DEF DiskTyped
<1>8. HeadersThere' /\ InUse' /\ InRecovery' /\ AfterRecovery'
  BY <1>1, <1>2, <1>4 DEF HeadersThere, InUse, InRecovery, AfterRecovery
<1> QED
  BY <1>7, <1>8 DEF DiskInv

LEMMA NothingToRestore ==
    ASSUME AfterRecovery, mode = "remount", io = <<>>
    PROVE  Ranges = <<>>
<1>1. CASE FixedJournal
  BY <1>1, RangesAre DEF AfterRecovery, NothingFound, Ranges
<1>2. CASE ~FixedJournal
  <2>1. ~JournalFound(handle)
    BY <1>2, NothingPending DEF AfterRecovery, NothingFound, JournalFound
  <2> QED
    BY <2>1, RangesAre DEF Ranges
<1> QED
  BY <1>1, <1>2

LEMMA RemountDisk ==
    ASSUME DiskInv, Remount
    PROVE  DiskInv'
<1>1. /\ mode = "remount" /\ mode' = "down" /\ io = <<>> /\ io' = io /\ UNCHANGED diskVars
      /\ UNCHANGED <<view, flushed_terminal_record, restoring_terminal_record>>
      /\ DiskTyped /\ HeadersThere /\ AfterRecovery
  BY Zenon DEF Remount, DiskInv, Done, ringVars, flushedVars, restoringVars
<1>2. UNCHANGED <<journal, master, handle, volume>>
  BY <1>1 DEF diskVars
<1>3. Ranges = <<>>
  BY <1>1, NothingToRestore
<1>4. \A v \in Volume : volume[v] = view[v]
  BY <1>1, NothingPending DEF AfterRecovery
<1>5. Recovered = view
  <2>1. Recovered = [v \in Volume |-> volume[v]]
    BY <1>3, RecoveredIs, RestoredNothing
  <2>2. view = [v \in Volume |-> view[v]]
    BY <1>1 DEF DiskTyped
  <2> QED
    BY <1>4, <2>1, <2>2
<1>6. Recovered' = view'
  BY <1>1, <1>2, <1>5 DEF Recovered
<1>7. Pending' = Pending /\ Pending = {}
  BY <1>1, NothingPending DEF Pending
<1>8. DiskTyped'
  BY <1>1, <1>2, <1>7 DEF DiskTyped
<1>9. HeadersThere'
  BY <1>1, <1>2, <1>7 DEF HeadersThere, MarkedAt, JournalWrites
<1>10. InUse' /\ InRecovery' /\ AfterRecovery'
  BY <1>1, <1>6 DEF InUse, InRecovery, AfterRecovery
<1> QED
  BY <1>8, <1>9, <1>10 DEF DiskInv

LEMMA MountDisk ==
    ASSUME DiskInv, Mount
    PROVE  DiskInv'
<1>1. /\ mode = "down" /\ io' = io /\ UNCHANGED diskVars /\ todo' = Ranges
      /\ UNCHANGED <<view, flushed_terminal_record, restoring_terminal_record>>
      /\ IF Ranges = <<>> THEN mode' = "start"
         ELSE mode' = "recover" /\ restore_state' = "mark" /\ copied' = {}
      /\ DiskTyped /\ HeadersThere /\ AfterRecovery
  BY Zenon DEF Mount, DiskInv, ringVars, flushedVars, restoringVars
<1>2. UNCHANGED <<journal, master, handle, volume>>
  BY <1>1 DEF diskVars
<1>3. io = <<>>
  BY <1>1 DEF DiskTyped
<1>4. Pending' = Pending /\ Pending = {}
  BY <1>1, <1>3, NothingPending DEF Pending
<1>5. DiskTyped'
  BY <1>1, <1>2, <1>3, <1>4 DEF DiskTyped
<1>6. HeadersThere'
  BY <1>1, <1>2, <1>4 DEF HeadersThere, MarkedAt, JournalWrites
<1>7. view = Restored(journal, Ranges, volume)
  BY <1>1, RecoveredIs DEF AfterRecovery
<1>8. CASE Ranges = <<>>
  <2>1. view = [v \in Volume |-> volume[v]]
    BY <1>7, <1>8, RestoredNothing
  <2>2. \A v \in Volume : volume'[v] = view'[v]
    BY <1>1, <1>2, <2>1
  <2>3. InUse' /\ InRecovery' /\ AfterRecovery'
    BY <1>1, <1>8, <2>2 DEF InUse, InRecovery, AfterRecovery
  <2> QED
    BY <1>5, <1>6, <2>3 DEF DiskInv
<1>9. CASE Ranges # <<>>
  <2>1. PICK c : c = Chain(journal, master)
    OBVIOUS
  <2>2. /\ c \in Seq(Blocks) /\ Len(c) \in Nat
        /\ \A i \in 1 .. Len(c) : c[i] \in Blocks /\ journal[c[i]].type \notin {"data", "open"}
    BY <2>1, ChainIs
  <2>3. \A i \in 1 .. Len(c) : journal[c[i]].type \in HeaderTypes \ {"open"}
    BY <1>1, <2>2 DEF DiskTyped, WellFormed, HeaderAt
  <2>4. PICK R, F : R = Restoring(journal, c) /\ F = Flushed(journal, c)
    OBVIOUS
  <2>5. \/ R = <<>> /\ F # <<>> /\ Ranges = <<F>>
        \/ R # <<>> /\ F = <<>> /\ Ranges = <<R>>
        \/ R # <<>> /\ F # <<>> /\ Ranges = <<R, F>>
    BY <1>9, <2>1, <2>4, RangesAre DEF Ranges
  <2>6. PICK qr, qd, qf, qe :
           /\ qr = LastOf(journal, c, {"restoring"}) /\ qd = LastOf(journal, c, {"restored"})
           /\ qf = LastOf(journal, c, {"flushed"})
           /\ qe = LastOf(journal, c, {"restored", "restoring"})
    OBVIOUS
  <2>7. /\ qr \in 0 .. Len(c) /\ qd \in 0 .. Len(c) /\ qf \in 0 .. Len(c) /\ qe \in 0 .. Len(c)
        /\ qr # 0 => journal[c[qr]].type = "restoring"
        /\ qf # 0 => journal[c[qf]].type = "flushed"
        /\ qe # 0 => journal[c[qe]].type \in {"restored", "restoring"}
        /\ \A i \in 1 .. Len(c) :
              /\ journal[c[i]].type = "restoring" => i <= qr /\ i <= qe
              /\ journal[c[i]].type = "restored" => i <= qd /\ i <= qe
              /\ journal[c[i]].type = "flushed" => i <= qf
    BY <2>2, <2>6, LastOfIs
  <2>8. R # <<>> => /\ qd < qr /\ R \in Seq(Blocks) /\ LastBlock(R) = c[qr]
                    /\ \A i \in 1 .. Len(R) : \E q \in 1 .. Len(c) : R[i] = c[q]
    BY <2>2, <2>4, <2>6, RestoringIs
  <2>9. IF F # <<>>
        THEN /\ qe < qf /\ F \in Seq(Blocks) /\ LastBlock(F) = c[qf]
             /\ \A i \in 1 .. Len(F) : \E q \in 1 .. Len(c) : F[i] = c[q]
        ELSE ~(qe < qf)
    BY <2>2, <2>4, <2>6, FlushedIs
  <2>10. (R # <<>> => RangeOK(R)') /\ (F # <<>> => RangeOK(F)')
    BY <1>2, <2>3, <2>8, <2>9 DEF RangeOK
  <2>11. todo' \in Seq(Seq(Blocks)) /\ Len(todo') \in {1, 2}
         /\ \A k \in 1 .. Len(todo') : RangeOK(todo[k])'
    <3>1. CASE todo' = <<F>> /\ F # <<>>
      <4>1. Len(todo') = 1 /\ todo'[1] = F
        BY <3>1
      <4>2. ASSUME NEW k \in 1 .. Len(todo') PROVE RangeOK(todo[k])'
        BY <2>10, <3>1, <4>1
      <4> QED
        BY <2>9, <3>1, <4>1, <4>2
    <3>2. CASE todo' = <<R>> /\ R # <<>>
      <4>1. Len(todo') = 1 /\ todo'[1] = R
        BY <3>2
      <4>2. ASSUME NEW k \in 1 .. Len(todo') PROVE RangeOK(todo[k])'
        BY <2>10, <3>2, <4>1
      <4> QED
        BY <2>8, <3>2, <4>1, <4>2
    <3>3. CASE todo' = <<R, F>> /\ R # <<>> /\ F # <<>>
      <4>1. Len(todo') = 2 /\ todo'[1] = R /\ todo'[2] = F
        BY <3>3
      <4>2. ASSUME NEW k \in 1 .. Len(todo') PROVE RangeOK(todo[k])'
        BY <2>10, <3>3, <4>1
      <4> QED
        BY <2>8, <2>9, <3>3, <4>1, <4>2
    <3> QED
      BY <1>1, <2>5, <3>1, <3>2, <3>3
  <2>12. ASSUME NEW v \in Volume
         PROVE  IF Len(todo') = 2 /\ v \in Replaced(journal, todo'[2])
                THEN view[v] = Replacement(journal, todo'[2], v)
                ELSE /\ v \in Replaced(journal, todo'[1]) =>
                           view[v] = Replacement(journal, todo'[1], v)
                     /\ v \notin Replaced(journal, todo'[1]) => volume[v] = view[v]
    <3>1. CASE todo' = <<F>>
      BY <1>1, <1>7, <3>1, RestoredOne
    <3>2. CASE todo' = <<R>>
      BY <1>1, <1>7, <3>2, RestoredOne
    <3>3. CASE todo' = <<R, F>>
      BY <1>1, <1>7, <3>3, RestoredTwo
    <3> QED
      BY <1>1, <2>5, <3>1, <3>2, <3>3
  <2>13. \E p \in 1 .. Len(c) :
            /\ c[p] = LastBlock(todo'[Len(todo')])
            /\ \A i \in p + 1 .. Len(c) :
                  /\ journal[c[i]].type \notin {"restoring", "flushed"}
                  /\ \A k \in 1 .. Len(todo') : c[i] # LastBlock(todo'[k])
    <3>1. CASE F # <<>>
      <4>1. qf \in 1 .. Len(c)
        BY <2>2, <2>7, <2>9, <3>1
      <4>2. \A i \in qf + 1 .. Len(c) : journal[c[i]].type \notin {"restoring", "flushed"}
        BY <2>2, <2>7, <2>9, <3>1
      <4>3. \A i \in qf + 1 .. Len(c) : c[i] # c[qf] /\ (R # <<>> => c[i] # LastBlock(R))
        BY <2>2, <2>7, <2>8, <2>9, <4>1, <4>2, <3>1
      <4>4. /\ LastBlock(todo'[Len(todo')]) = c[qf]
            /\ \A k \in 1 .. Len(todo') :
                  LastBlock(todo'[k]) = c[qf] \/ (R # <<>> /\ LastBlock(todo'[k]) = LastBlock(R))
        <5>1. LastBlock(F) = c[qf]
          BY <2>9, <3>1
        <5>2. CASE todo' = <<F>>
          BY <5>1, <5>2
        <5>3. CASE todo' = <<R, F>> /\ R # <<>>
          <6>1. Len(todo') = 2 /\ todo'[1] = R /\ todo'[2] = F
            BY <5>3
          <6>2. \A k \in 1 .. 2 : k = 1 \/ k = 2
            OBVIOUS
          <6> QED
            BY <5>1, <5>3, <6>1, <6>2
        <5> QED
          BY <1>1, <2>5, <3>1, <5>2, <5>3
      <4> QED
        BY <4>1, <4>2, <4>3, <4>4
    <3>2. CASE F = <<>>
      <4>1. R # <<>> /\ todo' = <<R>>
        BY <1>1, <2>5, <3>2
      <4>2. qr \in 1 .. Len(c) /\ qe = qr
        BY <2>2, <2>7, <2>8, <4>1
      <4>3. \A i \in qr + 1 .. Len(c) :
               journal[c[i]].type \notin {"restoring", "flushed"} /\ c[i] # c[qr]
        BY <2>2, <2>7, <2>9, <3>2, <4>2
      <4> QED
        BY <2>8, <4>1, <4>2, <4>3
    <3> QED
      BY <3>1, <3>2
  <2>14. \E p \in 1 .. Len(Chain(journal', master')) : Disposed(p)'
    BY <1>2, <2>1, <2>13 DEF Disposed
  <2>15. \A v \in Volume : \A x : volume[v] = x => VolumeHolds(v, x)'
    BY <1>2, <1>4 DEF VolumeHolds, VolumeWrites
  <2>16. InRecovery'
    <3>1. mode' = "recover" /\ restore_state' = "mark" /\ copied' = {}
      BY <1>1, <1>9
    <3>2. \A v \in Volume :
             IF Len(todo') = 2 /\ v \in Replaced(journal', todo'[2])
             THEN view'[v] = Replacement(journal', todo'[2], v)
             ELSE /\ v \in Replaced(journal', todo'[1]) =>
                        view'[v] = Replacement(journal', todo'[1], v)
                  /\ v \notin Replaced(journal', todo'[1]) \/ v \in copied' => VolumeHolds(v, view[v])'
      <4>1. ASSUME NEW v \in Volume, v \notin Replaced(journal, todo'[1]),
                   ~(Len(todo') = 2 /\ v \in Replaced(journal, todo'[2]))
            PROVE  VolumeHolds(v, view[v])'
        <5>1. volume[v] = view'[v]
          BY <1>1, <2>12, <4>1
        <5> QED
          BY <1>2, <1>4, <5>1 DEF VolumeHolds, VolumeWrites
      <4> QED
        BY <1>1, <1>2, <2>12, <3>1, <4>1
    <3> QED
      BY <1>4, <2>11, <2>14, <3>1, <3>2 DEF InRecovery
  <2>17. InUse' /\ AfterRecovery'
    BY <1>1, <1>9 DEF InUse, AfterRecovery
  <2> QED
    BY <1>5, <1>6, <2>16, <2>17 DEF DiskInv
<1> QED
  BY <1>8, <1>9

\* What a step of a mount's restore has to show: it leaves the disk alone.
RecoverWrites(ws) ==
    \A w \in ws :
        /\ w.to \in {"journal", "volume", "fat2", "handle"}
        /\ w.to = "journal" => w.at \in Blocks /\ HeaderAt(w.at, w.val)
ClearWrites(ws) == \A w \in ws : w.to \in {"fat2", "handle"}

LEMMA RecoverStep ==
    ASSUME DiskInv, mode = "recover", io = <<>>, UNCHANGED diskVars, view' = view,
           UNCHANGED <<flushed_terminal_record, restoring_terminal_record>>,
           io' \in Seq(Pending'), RecoverWrites(Pending'),
           mode' \in {"recover", "remount"}, mode' = "remount" => ClearWrites(Pending'),
           InRecovery', AfterRecovery'
    PROVE  DiskInv'
<1>1. /\ DiskTyped /\ HeadersThere /\ UNCHANGED <<journal, master, handle, volume>>
  BY Zenon DEF DiskInv, diskVars
<1>2. DiskTyped'
  BY <1>1 DEF DiskTyped, WellFormed, RecoverWrites, ClearWrites
<1>3. HeadersThere'
  <2>1. ASSUME NEW h \in {flushed_terminal_record, restoring_terminal_record} \ {0}
        PROVE  MarkedAt(h, HeaderTypes)'
    <3>1. journal[h].type \in HeaderTypes
      BY <1>1, NothingPending DEF HeadersThere
    <3> QED
      BY <1>1, <3>1 DEF MarkedAt, JournalWrites, HeaderAt, RecoverWrites
  <2> QED
    BY <2>1 DEF HeadersThere
<1>4. InUse'
  BY DEF InUse
<1> QED
  BY <1>2, <1>3, <1>4 DEF DiskInv

LEMMA RecoverDisk ==
    ASSUME DiskInv, Recover
    PROVE  DiskInv'
<1> DEFINE t1 == LastBlock(todo[1])
<1>1. /\ mode = "recover" /\ io = <<>> /\ UNCHANGED diskVars /\ view' = view
      /\ UNCHANGED <<flushed_terminal_record, restoring_terminal_record>>
      /\ DiskTyped /\ InRecovery
  BY Zenon DEF Recover, DiskInv, Done, ringVars, flushedVars, restoringVars
<1>2. UNCHANGED <<journal, master, handle, volume>> /\ Pending = {}
  BY <1>1, NothingPending DEF diskVars
<1>3. /\ todo \in Seq(Seq(Blocks)) /\ Len(todo) \in {1, 2}
      /\ \A k \in 1 .. Len(todo) : RangeOK(todo[k])
      /\ restore_state \in {"mark", "copy", "clear"}
      /\ restore_state = "mark" => copied = {}
      /\ restore_state = "clear" =>
            /\ Replaced(journal, todo[1]) \subseteq copied
            /\ MarkedAt(LastBlock(todo[1]), {"restored"})
      /\ \A v \in Volume :
            IF Len(todo) = 2 /\ v \in Replaced(journal, todo[2])
            THEN view[v] = Replacement(journal, todo[2], v)
            ELSE /\ v \in Replaced(journal, todo[1]) =>
                       view[v] = Replacement(journal, todo[1], v)
                 /\ v \notin Replaced(journal, todo[1]) \/ v \in copied => VolumeHolds(v, view[v])
      /\ \E p \in 1 .. Len(Chain(journal, master)) : Disposed(p)
  BY <1>1, Zenon DEF InRecovery
<1>4. t1 \in Blocks /\ HeaderAt(t1, journal[t1]) /\ journal[t1].type # "open" /\ t1 = Terminal
  <2>1. RangeOK(todo[1])
    BY <1>3
  <2>2. Len(todo[1]) \in 1 .. Len(todo[1]) /\ todo[1] \in Seq(Blocks)
    BY <2>1, LenProperties, EmptySeq DEF RangeOK
  <2>3. t1 \in Blocks /\ journal[t1].type \in HeaderTypes \ {"open"}
    BY <2>1, <2>2, ElementOfSeq DEF RangeOK, LastBlock
  <2> QED
    BY <1>1, <2>3 DEF DiskTyped, WellFormed, HeaderTypes, LastBlock, Terminal
<1> HIDE DEF t1
<1>5. ASSUME NEW v \in Volume, NEW x PROVE VolumeHolds(v, x) => volume[v] = x
  BY <1>1, NothingPending
<1>6. ASSUME NEW type \in {"restoring", "restored"}, io' = Mark(Terminal, type),
             UNCHANGED <<copied, todo, mode>>,
             restore_state' \in {"copy", "clear"},
             restore_state' = "clear" =>
                 type = "restored" /\ Replaced(journal, todo[1]) \subseteq copied
      PROVE  DiskInv'
  <2>1. PICK x : x = [journal[t1] EXCEPT !.type = type]
    OBVIOUS
  <2>2. /\ Pending' = {[to |-> "journal", at |-> t1, val |-> x]} /\ io' \in Seq(Pending')
        /\ HeaderAt(t1, x) /\ x.type = type
    BY <1>4, <1>6, <2>1, MarkWrites DEF Pending, HeaderTypes
  <2>3. Alike(journal[t1], x)
    <3>1. x.recs = journal[t1].recs /\ x.seq = journal[t1].seq
          /\ x.session = journal[t1].session /\ x.space = journal[t1].space
      BY <1>4, <2>1 DEF HeaderAt
    <3> QED
      BY <1>4, <1>6, <2>2, <3>1 DEF Alike, HeaderAt, HeaderTypes
  <2>4. \A v \in Volume : \A y : VolumeHolds(v, y) => VolumeHolds(v, y)'
    BY <1>2, <1>5, <2>2 DEF VolumeHolds, VolumeWrites
  <2>5. ASSUME NEW v \in Volume, VolumeHolds(v, view[v]) PROVE VolumeHolds(v, view[v])'
    BY <1>1, <1>2, <1>5, <2>2, <2>5 DEF VolumeHolds, VolumeWrites
  <2>6. PICK b : b = t1
    OBVIOUS
  <2>7. todo' = todo /\ t1 = LastBlock(todo'[1]) /\ copied' = copied /\ mode' = mode
    BY <1>6 DEF t1
  <2>8. /\ \A k \in 1 .. Len(todo') : RangeOK(todo[k])'
        /\ \E p \in 1 .. Len(Chain(journal', master')) : Disposed(p)'
    BY <1>2, <1>3, <2>7 DEF RangeOK, Disposed
  <2>9. \A w \in Pending' : w.to = "journal" =>
           w.at = LastBlock(todo'[1]) /\ Alike(journal'[w.at], w.val)
    BY <1>2, <2>2, <2>3, <2>7
  <2>10. restore_state' = "clear" =>
            /\ Replaced(journal', todo'[1]) \subseteq copied'
            /\ MarkedAt(LastBlock(todo[1]), {"restored"})'
    <3>1. MarkedAt(b, {"restored"})' => MarkedAt(LastBlock(todo[1]), {"restored"})'
      BY <2>6, <2>7 DEF MarkedAt, JournalWrites
    <3>2. JournalWrites(b)' = {[to |-> "journal", at |-> t1, val |-> x]}
      BY <2>2, <2>6 DEF JournalWrites
    <3>3. type = "restored" => MarkedAt(b, {"restored"})'
      BY <2>2, <3>2 DEF MarkedAt
    <3> QED
      BY <1>2, <1>6, <2>7, <3>1, <3>3
  <2>11. \A v \in Volume :
            IF Len(todo') = 2 /\ v \in Replaced(journal', todo'[2])
            THEN view'[v] = Replacement(journal', todo'[2], v)
            ELSE /\ v \in Replaced(journal', todo'[1]) =>
                       view'[v] = Replacement(journal', todo'[1], v)
                 /\ v \notin Replaced(journal', todo'[1]) \/ v \in copied' => VolumeHolds(v, view[v])'
    BY <1>1, <1>2, <1>3, <2>5, <2>7
  <2>12. InRecovery'
    BY <1>1, <1>3, <1>6, <2>7, <2>8, <2>9, <2>10, <2>11 DEF InRecovery
  <2>13. RecoverWrites(Pending') /\ mode' = "recover" /\ AfterRecovery'
    BY <1>1, <1>4, <2>2, <2>7 DEF RecoverWrites, AfterRecovery
  <2> QED
    BY <1>1, <2>2, <2>12, <2>13, RecoverStep
<1>7. ASSUME NEW v \in Replaced(journal, todo[1]) \ copied, restore_state = "copy",
             io' = CopyOut(v, Replacement(journal, todo[1], v)),
             copied' = copied \union {v}, UNCHANGED <<restore_state, todo, mode>>
      PROVE  DiskInv'
  <2>1. PICK c : c = Replacement(journal, todo[1], v)
    OBVIOUS
  <2>2. /\ io' \in Seq(Pending')
        /\ [to |-> "volume", at |-> v, val |-> c] \in Pending'
        /\ \A w \in Pending' : w = [to |-> "volume", at |-> v, val |-> c] \/ w.to = "fat2"
    BY <1>7, <2>1, CopyOutWrites DEF Pending
  <2>3. \A w \in Pending' : w.to \in {"volume", "fat2"} /\ (w.to = "volume" => w.at = v /\ w.val = c)
    BY <2>2
  <2>4. ASSUME NEW u \in Volume, u # v, VolumeHolds(u, view[u]) PROVE VolumeHolds(u, view[u])'
    BY <1>1, <1>2, <1>5, <2>3, <2>4 DEF VolumeHolds, VolumeWrites
  <2>5. ASSUME v \in Volume, ~(Len(todo) = 2 /\ v \in Replaced(journal, todo[2]))
        PROVE  VolumeHolds(v, view[v])'
    <3>1. view'[v] = c
      BY <1>1, <1>3, <2>1, <2>5
    <3> QED
      BY <2>2, <2>3, <3>1 DEF VolumeHolds, VolumeWrites
  <2>6. todo' = todo /\ mode' = mode /\ restore_state' = "copy"
    BY <1>7
  <2>7. /\ \A k \in 1 .. Len(todo') : RangeOK(todo[k])'
        /\ \E p \in 1 .. Len(Chain(journal', master')) : Disposed(p)'
    BY <1>2, <1>3, <2>6 DEF RangeOK, Disposed
  <2>8. \A u \in Volume :
            IF Len(todo') = 2 /\ u \in Replaced(journal', todo'[2])
            THEN view'[u] = Replacement(journal', todo'[2], u)
            ELSE /\ u \in Replaced(journal', todo'[1]) =>
                       view'[u] = Replacement(journal', todo'[1], u)
                 /\ u \notin Replaced(journal', todo'[1]) \/ u \in copied' => VolumeHolds(u, view[u])'
    BY <1>1, <1>2, <1>3, <1>7, <2>4, <2>5, <2>6
  <2>9. InRecovery'
    BY <1>1, <1>3, <2>3, <2>6, <2>7, <2>8 DEF InRecovery
  <2>10. RecoverWrites(Pending') /\ mode' = "recover" /\ AfterRecovery'
    BY <1>1, <2>3, <2>6 DEF RecoverWrites, AfterRecovery
  <2> QED
    BY <1>1, <2>2, <2>9, <2>10, RecoverStep
<1>8. ASSUME restore_state = "clear", io' = ClearHandle, copied' = {}, todo' = Tail(todo),
             IF Len(todo) > 1 THEN restore_state' = "mark" /\ mode' = mode
             ELSE restore_state' = "none" /\ mode' = "remount"
      PROVE  DiskInv'
  <2>1. /\ io' \in Seq(Pending')
        /\ \A w \in Pending' : w.to \in {"fat2", "handle"} /\ (w.to = "handle" => w.val = FALSE)
        /\ ~FixedJournal => \E w \in Pending' : w.to = "handle"
    BY <1>8, ClearHandleWrites DEF Pending
  <2>2. ASSUME NEW v \in Volume, volume[v] = view[v] PROVE VolumeHolds(v, view[v])'
    BY <1>1, <1>2, <2>1, <2>2 DEF VolumeHolds, VolumeWrites
  <2>3. \A v \in Volume :
           IF Len(todo) = 2 /\ v \in Replaced(journal, todo[2])
           THEN view[v] = Replacement(journal, todo[2], v) ELSE volume[v] = view[v]
    BY <1>3, <1>5, <1>8
  <2>4. CASE Len(todo) = 2
    <3>1. /\ todo' \in Seq(Seq(Blocks)) /\ Len(todo') = 1 /\ todo'[1] = todo[2]
      <4>1. todo # <<>>
        BY <2>4, EmptySeq
      <4> QED
        BY <1>3, <1>8, <2>4, <4>1, HeadTailProperties
    <3>2. \A k \in 1 .. Len(todo') : RangeOK(todo[k])'
      <4>1. RangeOK(todo[2])
        BY <1>3, <2>4
      <4> QED
        BY <1>2, <3>1, <4>1 DEF RangeOK
    <3>3. \E p \in 1 .. Len(Chain(journal', master')) : Disposed(p)'
      <4>1. PICK p \in 1 .. Len(Chain(journal, master)) : Disposed(p)
        BY <1>3
      <4>2. Disposed(p)'
        BY <1>2, <2>4, <3>1, <4>1 DEF Disposed
      <4> QED
        BY <1>2, <4>2
    <3>4. \A v \in Volume :
            IF Len(todo') = 2 /\ v \in Replaced(journal', todo'[2])
            THEN view'[v] = Replacement(journal', todo'[2], v)
            ELSE /\ v \in Replaced(journal', todo'[1]) =>
                       view'[v] = Replacement(journal', todo'[1], v)
                 /\ v \notin Replaced(journal', todo'[1]) \/ v \in copied' => VolumeHolds(v, view[v])'
      BY <1>1, <1>2, <1>8, <2>2, <2>3, <2>4, <3>1
    <3>5. mode' = "recover" /\ restore_state' = "mark"
      BY <1>1, <1>8, <2>4
    <3>6. InRecovery'
      BY <1>8, <2>1, <3>1, <3>2, <3>3, <3>4, <3>5 DEF InRecovery
    <3>7. RecoverWrites(Pending') /\ AfterRecovery'
      BY <2>1, <3>5 DEF RecoverWrites, AfterRecovery
    <3> QED
      BY <1>1, <2>1, <3>5, <3>6, <3>7, RecoverStep
  <2>5. CASE Len(todo) = 1
    <3>1. mode' = "remount"
      BY <1>8, <2>5
    <3>2. \A v \in Volume : VolumeHolds(v, view[v])'
      BY <2>2, <2>3, <2>5
    <3>3. NothingFound'
      <4>1. CASE ~FixedJournal
        <5>1. HandleGone'
          BY <2>1, <4>1 DEF HandleGone
        <5> QED
          BY <4>1, <5>1 DEF NothingFound
      <4>2. CASE FixedJournal
        <5>1. PICK c : c = Chain(journal, master)
          OBVIOUS
        <5>2. PICK p \in 1 .. Len(c) :
                 /\ c[p] = LastBlock(todo[1])
                 /\ \A i \in p + 1 .. Len(c) : journal[c[i]].type \notin {"restoring", "flushed"}
          BY <1>3, <2>5, <5>1 DEF Disposed
        <5>3. journal[c[p]].type = "restored"
          BY <1>1, <1>3, <1>8, <5>2, NothingPending
        <5>4. c \in Seq(Blocks) /\ Len(c) \in Nat
          BY <5>1, ChainIs
        <5>5. /\ LastOf(journal, c, {"restoring"}) \in 0 .. Len(c)
              /\ LastOf(journal, c, {"restoring"}) < p
          <6>1. PICK q : q = LastOf(journal, c, {"restoring"})
            OBVIOUS
          <6>2. q \in 0 .. Len(c) /\ (q # 0 => journal[c[q]].type = "restoring")
            BY <5>4, <6>1, LastOfIs
          <6> QED
            BY <5>2, <5>3, <5>4, <6>1, <6>2
        <5>6. /\ LastOf(journal, c, {"flushed"}) \in 0 .. Len(c)
              /\ LastOf(journal, c, {"flushed"}) < p
          <6>1. PICK q : q = LastOf(journal, c, {"flushed"})
            OBVIOUS
          <6>2. q \in 0 .. Len(c) /\ (q # 0 => journal[c[q]].type = "flushed")
            BY <5>4, <6>1, LastOfIs
          <6> QED
            BY <5>2, <5>3, <5>4, <6>1, <6>2
        <5>7. /\ LastOf(journal, c, {"restored"}) \in 0 .. Len(c)
              /\ p <= LastOf(journal, c, {"restored"})
              /\ LastOf(journal, c, {"restored", "restoring"}) \in 0 .. Len(c)
              /\ p <= LastOf(journal, c, {"restored", "restoring"})
          BY <5>3, <5>4, LastOfIs
        <5>8. Restoring(journal, c) = <<>>
          <6>1. ~(LastOf(journal, c, {"restored"}) < LastOf(journal, c, {"restoring"}))
            BY <5>4, <5>5, <5>7
          <6> QED
            BY <5>4, <6>1, RestoringIs
        <5>9. Flushed(journal, c) = <<>>
          <6>1. ~(LastOf(journal, c, {"restored", "restoring"}) < LastOf(journal, c, {"flushed"}))
            BY <5>4, <5>6, <5>7
          <6> QED
            BY <5>4, <6>1, FlushedIs
        <5> QED
          BY <1>2, <4>2, <5>1, <5>8, <5>9 DEF NothingFound
      <4> QED
        BY <4>1, <4>2
    <3>4. AfterRecovery'
      BY <3>1, <3>2, <3>3 DEF AfterRecovery
    <3>5. RecoverWrites(Pending') /\ ClearWrites(Pending') /\ InRecovery'
      BY <2>1, <3>1 DEF RecoverWrites, ClearWrites, InRecovery
    <3> QED
      BY <1>1, <2>1, <3>1, <3>4, <3>5, RecoverStep
  <2> QED
    BY <1>3, <2>4, <2>5
<1>9. \/ /\ restore_state = "mark" /\ io' = Mark(Terminal, "restoring") /\ restore_state' = "copy"
         /\ UNCHANGED <<copied, todo, mode>>
      \/ /\ restore_state = "copy"
         /\ \E v \in Replaced(journal, todo[1]) \ copied :
               /\ io' = CopyOut(v, Replacement(journal, todo[1], v))
               /\ copied' = copied \union {v}
         /\ UNCHANGED <<restore_state, todo, mode>>
      \/ /\ restore_state = "copy" /\ Replaced(journal, todo[1]) \subseteq copied
         /\ io' = Mark(Terminal, "restored") /\ restore_state' = "clear"
         /\ UNCHANGED <<copied, todo, mode>>
      \/ /\ restore_state = "clear" /\ io' = ClearHandle /\ copied' = {} /\ todo' = Tail(todo)
         /\ IF Len(todo) > 1 THEN restore_state' = "mark" /\ mode' = mode
            ELSE restore_state' = "none" /\ mode' = "remount"
  BY Zenon DEF Recover
<1> QED
  BY <1>6, <1>7, <1>8, <1>9

\* A range a mount is restoring has headers in all its places.
LEMMA RangeIs ==
    ASSUME DiskTyped, NEW r, RangeOK(r)
    PROVE  /\ r \in Seq(Blocks) /\ LastBlock(r) \in Blocks
           /\ \A i \in 1 .. Len(r) : r[i] \in Blocks /\ HeaderAt(r[i], journal[r[i]])
<1>1. r \in Seq(Blocks) /\ Len(r) \in 1 .. Len(r)
  BY LenProperties, EmptySeq DEF RangeOK
<1>2. \A i \in 1 .. Len(r) : r[i] \in Blocks /\ journal[r[i]].type \in HeaderTypes
  BY <1>1, ElementOfSeq DEF RangeOK
<1>3. \A i \in 1 .. Len(r) : HeaderAt(r[i], journal[r[i]])
  BY <1>2 DEF DiskTyped, WellFormed, HeaderTypes
<1> QED
  BY <1>1, <1>2, <1>3 DEF LastBlock

\* While a mount restores, a write to the journal changes a mark.
LEMMA MarkDone ==
    ASSUME DiskInv, DiskWrite, mode = "recover"
    PROVE  /\ UNCHANGED <<mode, todo, copied, restore_state, view, master>>
           /\ \A b \in Blocks : Alike(journal[b], journal'[b])
           /\ \A b \in Blocks : b = LastBlock(todo[1]) \/ journal'[b] = journal[b]
           /\ \A w \in Pending' : w.to = "journal" =>
                 w.at = LastBlock(todo[1]) /\ Alike(journal'[w.at], w.val)
           /\ LastBlock(todo[1]) \in Blocks
<1>1. /\ DiskTyped /\ InRecovery
      /\ UNCHANGED <<mode, todo, copied, restore_state, view>>
      /\ journal' = IF Head(io).to = "journal"
                    THEN [journal EXCEPT ![Head(io).at] = Head(io).val] ELSE journal
      /\ master' = IF Head(io).to = "master" THEN Head(io).val ELSE master
  BY Zenon DEF DiskInv, DiskWrite, restoreVars
<1>2. Pending' \subseteq Pending /\ Head(io) \in Pending
  BY <1>1, WriteDone DEF DiskTyped
<1>3. LastBlock(todo[1]) \in Blocks
  BY <1>1, RangeIs DEF InRecovery
<1>4. PICK h : h = Head(io)
  OBVIOUS
<1>5. /\ h \in Pending /\ h.to # "master"
      /\ h.to = "journal" => h.at = LastBlock(todo[1]) /\ Alike(journal[h.at], h.val)
  BY <1>1, <1>2, <1>4 DEF DiskTyped, InRecovery
<1>6. DOMAIN journal = Blocks
  BY <1>1 DEF DiskTyped
<1>7. ASSUME NEW b \in Blocks
      PROVE  journal'[b] = IF h.to = "journal" /\ h.at = b THEN h.val ELSE journal[b]
  BY <1>1, <1>4, <1>6
<1>8. \A x : Alike(x, x)
  BY DEF Alike
<1>9. ASSUME NEW b \in Blocks PROVE Alike(journal[b], journal'[b])
  BY <1>5, <1>7, <1>8
<1>10. ASSUME NEW w \in Pending', w.to = "journal"
       PROVE  w.at = LastBlock(todo[1]) /\ Alike(journal'[w.at], w.val)
  <2>1. w.at = LastBlock(todo[1]) /\ Alike(journal[w.at], w.val)
    BY <1>1, <1>2, <1>10 DEF InRecovery
  <2>2. Alike(journal[w.at], journal'[w.at])
    BY <1>3, <1>9, <2>1
  <2>3. Alike(journal'[w.at], w.val)
    BY <2>1, <2>2 DEF Alike
  <2> QED
    BY <2>1, <2>3
<1> QED
  BY <1>1, <1>3, <1>4, <1>5, <1>7, <1>9, <1>10

LEMMA MarkDoneDisk ==
    ASSUME DiskInv, DiskWrite, mode = "recover", DiskTyped'
    PROVE  InRecovery'
<1>1. /\ UNCHANGED <<mode, todo, copied, restore_state, view, master>>
      /\ \A b \in Blocks : Alike(journal[b], journal'[b])
      /\ \A b \in Blocks : b = LastBlock(todo[1]) \/ journal'[b] = journal[b]
      /\ \A w \in Pending' : w.to = "journal" =>
            w.at = LastBlock(todo[1]) /\ Alike(journal'[w.at], w.val)
      /\ LastBlock(todo[1]) \in Blocks
  BY MarkDone
<1>2. /\ DiskTyped /\ InRecovery /\ master.start \in Blocks
  BY DEF DiskInv, DiskTyped
<1>3. /\ \A v \in Volume : \A c : VolumeHolds(v, c) => VolumeHolds(v, c)'
      /\ \A b \in Blocks : \A ts : MarkedAt(b, ts) => MarkedAt(b, ts)'
  BY <1>2, WriteDone DEF DiskTyped
<1>4. Chain(journal', master') = Chain(journal, master)
  BY <1>1, <1>2, AlikeChain
<1>5. /\ todo \in Seq(Seq(Blocks)) /\ Len(todo) \in {1, 2}
      /\ \A k \in 1 .. Len(todo) : RangeOK(todo[k])
      /\ \E p \in 1 .. Len(Chain(journal, master)) : Disposed(p)
  BY <1>2 DEF InRecovery
<1>12. 1 \in 1 .. Len(todo) /\ (Len(todo) = 2 => 2 \in 1 .. Len(todo))
  <2>1. \A n \in {1, 2} : 1 \in 1 .. n /\ (n = 2 => 2 \in 1 .. n)
    OBVIOUS
  <2>2. PICK n : n = Len(todo)
    OBVIOUS
  <2> QED
    BY <1>5, <2>1, <2>2
<1>6. ASSUME NEW k \in 1 .. Len(todo)
      PROVE  /\ Replaced(journal', todo[k]) = Replaced(journal, todo[k])
             /\ \A v \in Replaced(journal, todo[k]) :
                   Replacement(journal', todo[k], v) = Replacement(journal, todo[k], v)
  <2>1. RangeOK(todo[k])
    BY <1>5
  <2>2. todo[k] \in Seq(Blocks) /\ \A i \in 1 .. Len(todo[k]) : HeaderAt(todo[k][i], journal[todo[k][i]])
    BY <1>2, <2>1, RangeIs
  <2> QED
    BY <1>1, <2>2, AlikeRange
<1>7. ASSUME NEW k \in 1 .. Len(todo') PROVE RangeOK(todo[k])'
  <2>1. PICK r : r = todo[k]
    OBVIOUS
  <2>2. RangeOK(r) /\ r \in Seq(Blocks) /\ \A i \in 1 .. Len(r) : r[i] \in Blocks
    BY <1>1, <1>2, <1>5, <2>1, RangeIs
  <2>3. ASSUME NEW i \in 1 .. Len(r) PROVE journal'[r[i]].type \in HeaderTypes \ {"open"}
    <3>1. journal[r[i]].type \in HeaderTypes \ {"open"} /\ Alike(journal[r[i]], journal'[r[i]])
      BY <1>1, <2>2 DEF RangeOK
    <3>2. WellFormed(r[i], journal'[r[i]])
      BY <2>2 DEF DiskTyped
    <3> QED
      BY <3>1, <3>2 DEF Alike, WellFormed, HeaderAt, HeaderTypes
  <2> QED
    BY <1>1, <2>1, <2>2, <2>3 DEF RangeOK
<1>8. PICK p \in 1 .. Len(Chain(journal, master)) : Disposed(p)
  BY <1>5
<1>9. Disposed(p)'
  <2>1. PICK c : c = Chain(journal, master)
    OBVIOUS
  <2>2. Len(c) \in Nat /\ \A i \in 1 .. Len(c) : c[i] \in Blocks
    BY <2>1, ChainIs
  <2>3. ASSUME NEW i \in p + 1 .. Len(c)
        PROVE  /\ journal'[c[i]].type \notin {"restoring", "flushed"}
               /\ \A k \in 1 .. Len(todo) : c[i] # LastBlock(todo[k])
    <3>1. /\ journal[c[i]].type \notin {"restoring", "flushed"}
          /\ \A k \in 1 .. Len(todo) : c[i] # LastBlock(todo[k])
      BY <1>8, <2>1 DEF Disposed
    <3>2. c[i] \in Blocks /\ 1 \in 1 .. Len(todo)
      <4>1. p \in 1 .. Len(c)
        BY <1>8, <2>1
      <4> QED
        BY <1>12, <2>2, <4>1
    <3> QED
      BY <1>1, <3>1, <3>2
  <2> QED
    BY <1>1, <1>4, <1>8, <2>1, <2>3 DEF Disposed
<1>10. ASSUME NEW v \in Volume
       PROVE  IF Len(todo) = 2 /\ v \in Replaced(journal', todo[2])
              THEN view[v] = Replacement(journal', todo[2], v)
              ELSE /\ v \in Replaced(journal', todo[1]) =>
                         view[v] = Replacement(journal', todo[1], v)
                   /\ v \notin Replaced(journal', todo[1]) \/ v \in copied => VolumeHolds(v, view[v])'
  <2>1. 1 \in 1 .. Len(todo) /\ (Len(todo) = 2 => 2 \in 1 .. Len(todo))
    BY <1>12
  <2>2. IF Len(todo) = 2 /\ v \in Replaced(journal, todo[2])
        THEN view[v] = Replacement(journal, todo[2], v)
        ELSE /\ v \in Replaced(journal, todo[1]) =>
                   view[v] = Replacement(journal, todo[1], v)
             /\ v \notin Replaced(journal, todo[1]) \/ v \in copied => VolumeHolds(v, view[v])
    BY <1>2 DEF InRecovery
  <2>3. VolumeHolds(v, view[v]) => VolumeHolds(v, view[v])'
    <3>1. PICK c : c = view[v]
      OBVIOUS
    <3>2. VolumeHolds(v, c) => VolumeHolds(v, c)'
      BY <1>3
    <3> QED
      BY <1>1, <3>1, <3>2 DEF VolumeHolds, VolumeWrites
  <2>4. CASE Len(todo) = 2 /\ v \in Replaced(journal, todo[2])
    BY <1>6, <2>1, <2>2, <2>4
  <2>5. CASE ~(Len(todo) = 2 /\ v \in Replaced(journal, todo[2]))
    BY <1>6, <2>1, <2>2, <2>3, <2>5
  <2> QED
    BY <2>4, <2>5
<1>11. restore_state' = "clear" =>
         /\ Replaced(journal', todo'[1]) \subseteq copied'
         /\ MarkedAt(LastBlock(todo[1]), {"restored"})'
  <2>1. PICK b : b = LastBlock(todo[1])
    OBVIOUS
  <2>2. MarkedAt(b, {"restored"}) => MarkedAt(b, {"restored"})'
    BY <1>1, <1>3, <2>1
  <2>3. MarkedAt(LastBlock(todo[1]), {"restored"}) => MarkedAt(LastBlock(todo[1]), {"restored"})'
    BY <1>1, <2>1, <2>2 DEF MarkedAt, JournalWrites
  <2> QED
    BY <1>1, <1>2, <1>5, <1>6, <2>3 DEF InRecovery
<1> QED
  BY <1>1, <1>2, <1>4, <1>5, <1>7, <1>9, <1>10, <1>11 DEF InRecovery

LEMMA DiskWriteDisk ==
    ASSUME MapsInv, DiskInv, DiskWrite
    PROVE  DiskInv'
<1>1. /\ io # <<>> /\ io' = Tail(io)
      /\ UNCHANGED <<mode, copied, restore_state, view, openMap, flushedMap, restoringMap>>
      /\ UNCHANGED <<flushed_terminal_record, restoring_terminal_record>>
      /\ journal' = IF Head(io).to = "journal"
                    THEN [journal EXCEPT ![Head(io).at] = Head(io).val] ELSE journal
      /\ master' = IF Head(io).to = "master" THEN Head(io).val ELSE master
      /\ DiskTyped /\ HeadersThere /\ InUse /\ InRecovery /\ AfterRecovery
  BY Zenon DEF DiskInv, DiskWrite, Done, restoreVars, mapVars, ringVars, flushedVars, restoringVars
<1>2. /\ Pending' \subseteq Pending /\ Head(io) \in Pending
      /\ io' \in Seq(Pending')
      /\ \A b \in Blocks : \A x : JournalHolds(b, x) => JournalHolds(b, x)'
      /\ \A v \in Volume : \A c : VolumeHolds(v, c) => VolumeHolds(v, c)'
      /\ \A b \in Blocks : \A ts : MarkedAt(b, ts) => MarkedAt(b, ts)'
      /\ HandleGone => HandleGone'
      /\ DOMAIN journal' = Blocks /\ DOMAIN volume' = Volume
  BY <1>1, WriteDone DEF DiskTyped
<1>3. mode \notin {"down", "start"}
  BY <1>1 DEF DiskTyped
<1>4. DiskTyped'
  <2>1. PICK h : h = Head(io)
    OBVIOUS
  <2>2. \A b \in Blocks : WellFormed(b, journal'[b])
    BY <1>1, <1>2, <2>1 DEF DiskTyped
  <2>3. master'.start \in Blocks
    BY <1>1, <1>2, <2>1 DEF DiskTyped
  <2>4. \A w \in Pending' :
           /\ w.to = "journal" => w.at \in Blocks /\ WellFormed(w.at, w.val)
           /\ w.to = "master" => w.val.start \in Blocks
    BY <1>1, <1>2 DEF DiskTyped
  <2>5. /\ view' = [v \in Volume |-> view'[v]]
        /\ mode' = "remount" => \A w \in Pending' : w.to \in {"fat2", "handle"}
        /\ mode' = "recover" => \A w \in Pending' : w.to \in {"journal", "volume", "fat2", "handle"}
    BY <1>1, <1>2 DEF DiskTyped
  <2> QED
    BY <1>1, <1>2, <1>3, <2>2, <2>3, <2>4, <2>5 DEF DiskTyped
<1>5. HeadersThere'
  <2>1. ASSUME NEW h \in {flushed_terminal_record', restoring_terminal_record'} \ {0}
        PROVE  MarkedAt(h, HeaderTypes)'
    <3>1. h \in Blocks
      BY <1>1, RingAssumption DEF MapsInv, RingInv, RingTypeOK, CountersOK, Blocks
    <3> QED
      BY <1>1, <1>2, <3>1 DEF HeadersThere
  <2> QED
    BY <2>1 DEF HeadersThere
<1>6. InUse'
  <2>1. SUFFICES ASSUME mode = "up" PROVE InUse'
    BY <1>1 DEF InUse
  <2>2. ASSUME NEW v \in Volume, Shown(v)' # 0 PROVE JournalHolds(Shown(v), DataBlock(view[v]))'
    <3>1. PICK b, x : b = Shown(v) /\ x = DataBlock(view[v])
      OBVIOUS
    <3>2. Shown(v)' = Shown(v) /\ b \in Blocks
      BY <1>1, <2>2, <3>1, RingAssumption DEF Shown, MapsInv, MapsTyped, Blocks
    <3>3. JournalHolds(b, x)'
      BY <1>1, <1>2, <2>1, <2>2, <3>1, <3>2 DEF InUse
    <3> QED
      BY <1>1, <3>1, <3>2, <3>3 DEF JournalHolds, JournalWrites, DataBlock
  <2>3. ASSUME NEW v \in Volume, OnVolume(v)' PROVE VolumeHolds(v, view[v])'
    <3>1. PICK x : x = view[v]
      OBVIOUS
    <3>2. OnVolume(v)
      BY <1>1, <2>3 DEF OnVolume
    <3>3. VolumeHolds(v, x)'
      BY <1>1, <1>2, <2>1, <3>1, <3>2 DEF InUse
    <3> QED
      BY <1>1, <3>1, <3>3 DEF VolumeHolds, VolumeWrites
  <2> QED
    BY <1>1, <2>1, <2>2, <2>3 DEF InUse, ToCopy
<1>7. InRecovery'
  <2>1. CASE mode = "recover"
    BY <1>4, <2>1, MarkDoneDisk
  <2> QED
    BY <1>1, <2>1 DEF InRecovery
<1>8. AfterRecovery'
  <2>1. SUFFICES ASSUME mode = "remount" PROVE AfterRecovery'
    BY <1>1, <1>3 DEF AfterRecovery
  <2>2. UNCHANGED <<journal, master>>
    BY <1>1, <1>2, <2>1 DEF DiskTyped
  <2>3. NothingFound'
    BY <1>1, <1>2, <2>1, <2>2 DEF AfterRecovery, NothingFound
  <2>4. ASSUME NEW v \in Volume PROVE VolumeHolds(v, view[v])'
    <3>1. PICK x : x = view[v]
      OBVIOUS
    <3>2. VolumeHolds(v, x)'
      BY <1>1, <1>2, <2>1, <3>1 DEF AfterRecovery
    <3> QED
      BY <1>1, <3>1, <3>2 DEF VolumeHolds, VolumeWrites
  <2> QED
    BY <1>1, <2>1, <2>3, <2>4 DEF AfterRecovery
<1> QED
  BY <1>4, <1>5, <1>6, <1>7, <1>8 DEF DiskInv

-----------------------------------------------------------------------------
(* Every step *)

LEMMA StepDisk ==
    ASSUME MapsInv, DiskInv, [FsNext]_fsVars
    PROVE  DiskInv'
<1>1. MapsInv'
  BY StepMaps
<1>2. CASE Crash \/ BeginSession
  BY <1>2, CrashDisk, BeginSessionDisk
<1>3. CASE DiskWrite
  BY <1>3, DiskWriteDisk
<1>4. CASE Mount \/ Recover \/ Remount
  BY <1>4, MountDisk, RecoverDisk, RemountDisk
<1>5. CASE WriteData \/ Create \/ Delete
  <2>1. PICK v \in Volume : \E c : Write(v, c)
    BY <1>5, Zenon DEF WriteData, Create, Delete, Volume
  <2>2. PICK c : Write(v, c)
    BY <2>1
  <2> QED
    BY <1>1, <2>2, WriteDisk
<1>6. CASE WriteFails
  BY <1>6, WriteFailsDisk
<1>7. CASE Commit
  BY <1>7, CommitDisk
<1>8. CASE StartRestore
  BY <1>8, StartRestoreDisk
<1>9. CASE RestorePass
  BY <1>9, RestorePassDisk
<1>10. CASE EndRestore
  BY <1>10, EndRestoreDisk
<1>11. CASE UNCHANGED fsVars
  <2>1. /\ UNCHANGED <<journal, master, handle, volume, openMap, flushedMap, restoringMap>>
        /\ UNCHANGED <<flushed_terminal_record, restoring_terminal_record>>
        /\ UNCHANGED <<restore_state, copied, todo, mode, io, view>>
    BY <1>11, Zenon DEF fsVars, diskVars, mapVars, restoreVars, ringVars, flushedVars, restoringVars
  <2>2. /\ Pending' = Pending /\ \A b, x : JournalHolds(b, x)' <=> JournalHolds(b, x)
        /\ \A v, x : VolumeHolds(v, x)' <=> VolumeHolds(v, x)
        /\ \A b, x : MarkedAt(b, x)' <=> MarkedAt(b, x)
        /\ HandleGone' <=> HandleGone
    BY <2>1 DEF Pending, JournalHolds, VolumeHolds, MarkedAt, HandleGone, JournalWrites, VolumeWrites
  <2>3. DiskTyped' /\ HeadersThere'
    BY <2>1, <2>2 DEF DiskInv, DiskTyped, HeadersThere
  <2>4. InUse'
    <3>1. ASSUME NEW v \in Volume
          PROVE  /\ Shown(v)' = Shown(v) /\ OnVolume(v)' = OnVolume(v)
                 /\ JournalHolds(Shown(v), DataBlock(view[v]))' <=> JournalHolds(Shown(v), DataBlock(view[v]))
                 /\ VolumeHolds(v, view[v])' <=> VolumeHolds(v, view[v])
      BY <2>1, <2>2 DEF Shown, OnVolume, JournalHolds, VolumeHolds, JournalWrites, VolumeWrites, DataBlock
    <3> QED
      BY <2>1, <3>1 DEF DiskInv, InUse, ToCopy
  <2>5. InRecovery'
    BY <2>1, <2>2 DEF DiskInv, InRecovery, RangeOK, Disposed
  <2>6. AfterRecovery'
    BY <2>1, <2>2 DEF DiskInv, AfterRecovery, NothingFound, Recovered
  <2> QED
    BY <2>3, <2>4, <2>5, <2>6 DEF DiskInv
<1> QED
  BY <1>2, <1>3, <1>4, <1>5, <1>6, <1>7, <1>8, <1>9, <1>10, <1>11, Zenon DEF FsNext

\* At every step of every behaviour the disk holds, once the writes under way
\* are done, every block where a read looks for it, and while a mount restores
\* the ranges it has left are the ones it found.
LEMMA DiskAlways == FsSpec => [](MapsInv /\ DiskInv)
<1>1. FsInit => MapsInv /\ DiskInv
  BY InitMaps, InitDisk
<1>2. MapsInv /\ DiskInv /\ [FsNext]_fsVars => (MapsInv /\ DiskInv)'
  BY StepMaps, StepDisk
<1> QED
  BY <1>1, <1>2, PTL DEF FsSpec

\* Reads return what was written last (fs_devio_read), at every moment a call
\* may begin: through commits, restores half done and over, journal-full
\* errors, crashes and mounts, for every size of journal and volume.
THEOREM ReadsCorrect == FsSpec => []ReadsLatest
<1>1. ASSUME MapsInv, DiskInv PROVE ReadsLatest
  <2>1. SUFFICES ASSUME mode = "up", io = <<>>, NEW v \in Volume PROVE ReadBlock(v) = view[v]
    BY DEF ReadsLatest, Ready, Done
  <2>2. /\ Shown(v) # 0 => journal[Shown(v)] = DataBlock(view[v])
        /\ OnVolume(v) => volume[v] = view[v]
    BY <1>1, <2>1, NothingPending DEF DiskInv, InUse
  <2>3. CASE Shown(v) = 0
    BY <2>2, <2>3 DEF Shown, OnVolume, ReadBlock
  <2>4. CASE Shown(v) # 0
    BY <2>2, <2>4 DEF Shown, ReadBlock, ValueAt, DataBlock
  <2> QED
    BY <2>3, <2>4
<1> QED
  BY <1>1, DiskAlways, PTL

\* A mount that has restored the volume finds nothing to restore when it opens
\* the volume again (fs_failsafe_dskopen): it neither loops nor copies old
\* blocks over new ones, wherever power failures fell before.
THEOREM NothingLeft == FsSpec => []NothingLeftToRestore
<1>1. ASSUME DiskInv PROVE NothingLeftToRestore
  BY <1>1, NothingToRestore DEF DiskInv, NothingLeftToRestore, Done
<1> QED
  BY <1>1, DiskAlways, PTL


-----------------------------------------------------------------------------
(* What a mount reads: a journal in order *)

\* Where the next frame goes if the cursor has come to cur.
At(cur) == IF cur = FileSize THEN 1 ELSE cur

\* The frames of the last session are numbered up to e; each ends where the
\* next begins, the last one at the cursor, unless it is still open; and the
\* cursor meets them in the order of their numbers.
InSequence(j, m, e, cur) ==
    /\ \A b \in Blocks : IsFrame(j, m, b) =>
          /\ j[b].seq \in 1 .. e /\ Len(j[b].recs) <= FrameMax
          /\ j[b].type = "open" => j[b].seq = e
          /\ j[b].seq < e => /\ IsFrame(j, m, NextFrame(j, b))
                             /\ j[NextFrame(j, b)].seq = j[b].seq + 1
          /\ j[b].seq = e => j[b].type = "open" \/ NextFrame(j, b) = At(cur)
    /\ \A b, c \in Blocks :
          IsFrame(j, m, b) /\ IsFrame(j, m, c) /\ j[b].seq <= j[c].seq =>
             RingDistance(cur, b) <= RingDistance(cur, c)

\* Frames up to r have been restored, those up to f are flushed or, if mark says
\* so, being restored; the frames after f belong to the open transaction.
MarkFits(x, r, f, mark) ==
    /\ x.seq < r => x.type \in {"closed", "flushed", "restored"}
    /\ x.seq = r => x.type = "restored"
    /\ r < x.seq /\ x.seq < f => x.type \in {"closed", "flushed"}
    /\ r < f /\ x.seq = f => x.type = mark
    /\ f < x.seq => x.type \in {"closed", "open"}
Marked(j, m, r, f, mark) == \A b \in Blocks : IsFrame(j, m, b) => MarkFits(j[b], r, f, mark)

\* Free-space signatures: one for each segment, sp for the frames not restored.
Signed(j, m, r, sp) ==
    \A b \in Blocks : IsFrame(j, m, b) =>
        /\ r < j[b].seq => j[b].space = sp
        /\ \A c \in Blocks :
              IsFrame(j, m, c) /\ j[c].seq = j[b].seq + 1 /\ ~EndsSegment(j, b) =>
                 j[c].space = j[b].space

\* Block v has the i-th record of frame b, one of the frames r+1 to f.
RecordIn(j, m, r, f, b, i, v) ==
    /\ IsFrame(j, m, b) /\ r < j[b].seq /\ j[b].seq <= f
    /\ i <= Len(j[b].recs) /\ j[b].recs[i] = v

\* fm maps each block to the replacement that comes last in those frames.
MapOf(j, m, r, f, fm) ==
    \A v \in Volume :
        /\ fm[v] # 0 => \E b \in Blocks, i \in 1 .. FrameMax :
                            RecordIn(j, m, r, f, b, i, v) /\ fm[v] = b + i
        /\ \A b \in Blocks, i \in 1 .. FrameMax : RecordIn(j, m, r, f, b, i, v) =>
              \E c \in Blocks, k \in 1 .. FrameMax :
                 /\ RecordIn(j, m, r, f, c, k, v) /\ fm[v] = c + k
                 /\ j[b].seq < j[c].seq \/ (b = c /\ i <= k)

\* A mount starts to read early enough.
StartFound(j, m, r, f) ==
    r < f => /\ IsFrame(j, m, m.start) /\ j[m.start].seq <= f
             /\ \A b \in Blocks :
                   IsFrame(j, m, b) /\ r < j[b].seq /\ j[b].seq < j[m.start].seq =>
                      j[b].recs = <<>>

Formed(j) == \A b \in Blocks : WellFormed(b, j[b])

InOrder(j, m, e, cur, r, f, mark, sp, fm) ==
    /\ e \in Nat /\ cur \in 2 .. FileSize /\ r \in 0 .. e /\ f \in r .. e
    /\ mark \in {"flushed", "restoring"}
    /\ m.start \in Blocks /\ Formed(j)
    /\ InSequence(j, m, e, cur) /\ Marked(j, m, r, f, mark) /\ Signed(j, m, r, sp)
    /\ MapOf(j, m, r, f, fm) /\ StartFound(j, m, r, f)

LEMMA FormedFrame ==
    ASSUME NEW j, NEW m, Formed(j), NEW b \in Blocks, IsFrame(j, m, b)
    PROVE  /\ HeaderAt(b, j[b]) /\ j[b].recs \in Seq(Volume)
           /\ Len(j[b].recs) \in Nat /\ b + Len(j[b].recs) < FileSize
           /\ NextFrame(j, b) \in Blocks
<1>1. HeaderAt(b, j[b])
  BY DEF Formed, WellFormed, IsFrame
<1>2. j[b].recs \in Seq(Volume) /\ Len(j[b].recs) \in Nat /\ b + Len(j[b].recs) < FileSize
  BY <1>1, LenProperties DEF HeaderAt
<1>3. \A l \in Nat : b + l < FileSize =>
         (IF b + 1 + l >= FileSize THEN 1 ELSE b + 1 + l) \in Blocks
  BY RingAssumption DEF Blocks
<1>4. NextFrame(j, b) \in Blocks
  BY <1>2, <1>3 DEF NextFrame
<1> QED
  BY <1>1, <1>2, <1>4

LEMMA CursorRange ==
    ASSUME NEW cur \in 2 .. FileSize, NEW b \in Blocks
    PROVE  /\ RingDistance(cur, b) \in 0 .. FileSize - 2
           /\ \A c \in Blocks : RingDistance(cur, b) = RingDistance(cur, c) => b = c
  BY RingAssumption DEF RingDistance, Blocks

\* No two frames have the same number.
LEMMA SeqOnce ==
    ASSUME NEW j, NEW m, NEW e \in Nat, NEW cur \in 2 .. FileSize, InSequence(j, m, e, cur),
           NEW b \in Blocks, NEW c \in Blocks, IsFrame(j, m, b), IsFrame(j, m, c),
           j[b].seq = j[c].seq
    PROVE  b = c
<1>1. j[b].seq \in Nat /\ j[c].seq \in Nat
  BY DEF InSequence
<1>2. RingDistance(cur, b) <= RingDistance(cur, c) /\ RingDistance(cur, c) <= RingDistance(cur, b)
  BY <1>1 DEF InSequence
<1> QED
  BY <1>2, CursorRange

-----------------------------------------------------------------------------
(* The frames a mount follows *)

LEMMA WalkIs ==
    ASSUME NEW next, NEW start
    PROVE  /\ Walk(next, start)[1] = start
           /\ \A n \in 2 .. FileSize : Walk(next, start)[n] = next[Walk(next, start)[n - 1]]
<1> USE RingAssumption
<1> DEFINE Steps(n, g) == g = [k \in 1 .. n |-> IF k = 1 THEN start ELSE next[g[k - 1]]]
           S == {n \in 1 .. FileSize : ~\E g : Steps(n, g)}
<1>1. S = {}
  <2>1. SUFFICES ASSUME S # {} PROVE FALSE
    OBVIOUS
  <2>2. PICK n \in S : \A k \in S : n <= k
    <3>1. S \in SUBSET Nat
      <4>1. 1 .. FileSize \in SUBSET Nat
        OBVIOUS
      <4> QED
        BY <4>1, Zenon
    <3> HIDE DEF S
    <3> QED
      BY <2>1, <3>1, Least
  <2>3. CASE n = 1
    <3>1. Steps(1, [k \in 1 .. 1 |-> start])
      OBVIOUS
    <3> QED
      BY <2>3, <3>1
  <2>4. CASE n # 1
    <3>1. n - 1 \in 1 .. FileSize /\ n - 1 \notin S
      BY <2>2, <2>4
    <3>2. PICK g : Steps(n - 1, g)
      BY <3>1
    <3> DEFINE h == [k \in 1 .. n |-> IF k < n THEN g[k] ELSE next[g[n - 1]]]
    <3>3. ASSUME NEW k \in 1 .. n
          PROVE  h[k] = IF k = 1 THEN start ELSE next[h[k - 1]]
      <4>1. CASE k < n
        <5>1. g[k] = IF k = 1 THEN start ELSE next[g[k - 1]]
          BY <3>2, <4>1
        <5> QED
          BY <5>1, <4>1
      <4>2. CASE k = n
        BY <2>4, <4>2
      <4> QED
        BY <4>1, <4>2
    <3>4. Steps(n, h)
      BY <3>3
    <3> QED
      BY <3>4
  <2> QED
    BY <2>3, <2>4
<1>2. PICK g : Steps(FileSize, g)
  BY SMTT(20), <1>1
<1>3. Walk(next, start) =
         CHOOSE f : f = [n \in 1 .. FileSize |-> IF n = 1 THEN start ELSE next[f[n - 1]]]
  BY DEF Walk
<1>4. Steps(FileSize, Walk(next, start))
  BY <1>2, <1>3
<1>5. \A n \in 1 .. FileSize :
         Walk(next, start)[n] = IF n = 1 THEN start ELSE next[Walk(next, start)[n - 1]]
  BY <1>4, Zenon
<1> QED
  BY <1>5

LEMMA ChainFollows ==
    ASSUME NEW j, NEW m, m.start \in Blocks
    PROVE  /\ Len(Chain(j, m)) \in 0 .. FileSize
           /\ \A i \in 1 .. Len(Chain(j, m)) : Continues(j, m, Chain(j, m)[i], i)
           /\ Len(Chain(j, m)) # 0 => Chain(j, m)[1] = m.start
           /\ \A i \in 2 .. Len(Chain(j, m)) : Chain(j, m)[i] = NextFrame(j, Chain(j, m)[i - 1])
           /\ Len(Chain(j, m)) = 0 => ~Continues(j, m, m.start, 1)
           /\ Len(Chain(j, m)) \in 1 .. FileSize - 1 =>
                 ~Continues(j, m, NextFrame(j, Chain(j, m)[Len(Chain(j, m))]), Len(Chain(j, m)) + 1)
<1> USE RingAssumption
<1> DEFINE w == Walk(Following(j), m.start)
           s == [i \in 1 .. FileSize |-> w[i]]
<1>1. PICK n \in 0 .. FileSize : IsLength(j, m, n) /\ Chain(j, m) = SubSeq(s, 1, n)
  BY ChainLength
<1>2. PICK c : c = Chain(j, m)
  OBVIOUS
<1>3. \A k \in 1 .. n : Continues(j, m, w[k], k)
  <2>1. \A k \in 1 .. n : GoesOn(j, m, k)
    BY <1>1, Zenon DEF IsLength
  <2> QED
    BY <2>1, Zenon DEF GoesOn
<1>4. Len(c) = n /\ \A i \in 1 .. n : c[i] = w[i]
  <2>1. \A i \in 1 .. n : s[i] \in Blocks /\ s[i] = w[i]
    BY <1>3 DEF Continues
  <2> HIDE DEF s
  <2>2. Len(SubSeq(s, 1, n)) = n /\ \A i \in 1 .. n : SubSeq(s, 1, n)[i] = s[i]
    BY <2>1, SubSeqProperties
  <2> QED
    BY <1>1, <1>2, <2>1, <2>2
<1>5. w[1] = m.start /\ \A i \in 2 .. FileSize : w[i] = Following(j)[w[i - 1]]
  BY WalkIs
<1> HIDE DEF w
<1>6. ASSUME NEW i \in 1 .. n PROVE Following(j)[w[i]] = NextFrame(j, w[i])
  <2>1. w[i] \in Blocks /\ j[w[i]].type # "data"
    BY <1>3 DEF Continues, IsFrame
  <2>2. w[i] \in 0 .. FileSize - 1 /\ w[i] # 0
    BY <2>1 DEF Blocks
  <2>3. Following(j)[w[i]] = IF w[i] = 0 \/ j[w[i]].type = "data" THEN 0 ELSE NextFrame(j, w[i])
    BY <2>2, Zenon DEF Following
  <2> QED
    BY <2>1, <2>2, <2>3
<1>7. n # FileSize => ~Continues(j, m, w[n + 1], n + 1)
  BY <1>1, Zenon DEF IsLength, GoesOn, w
<1>8. n # 0 => c[1] = m.start
  BY <1>4, <1>5
<1>9. \A i \in 2 .. n : c[i] = NextFrame(j, c[i - 1])
  BY <1>4, <1>5, <1>6
<1>10. n = 0 => ~Continues(j, m, m.start, 1)
  BY <1>5, <1>7
<1>11. n \in 1 .. FileSize - 1 => ~Continues(j, m, NextFrame(j, c[n]), n + 1)
  <2> HAVE n \in 1 .. FileSize - 1
  <2>1. n + 1 \in 2 .. FileSize /\ (n + 1) - 1 = n /\ n \in 1 .. n
    OBVIOUS
  <2>2. w[n + 1] = NextFrame(j, c[n])
    BY <1>4, <1>5, <1>6, <2>1
  <2> QED
    BY <1>7, <2>2
<1> QED
  BY <1>2, <1>3, <1>4, <1>8, <1>9, <1>10, <1>11

\* A mount comes to every frame from the start record on that is closed and
\* comes before all open ones.
LEMMA ChainReaches ==
    ASSUME NEW j, NEW m, NEW e \in Nat, NEW cur \in 2 .. FileSize,
           Formed(j), InSequence(j, m, e, cur), m.start \in Blocks, IsFrame(j, m, m.start),
           NEW s \in j[m.start].seq .. e,
           \A b \in Blocks : IsFrame(j, m, b) /\ j[b].seq <= s => j[b].type # "open"
    PROVE  s - j[m.start].seq + 1 <= Len(Chain(j, m))
<1> USE RingAssumption
<1> DEFINE p == j[m.start].seq
<1>1. PICK c : c = Chain(j, m)
  OBVIOUS
<1>2. PICK n \in 0 .. FileSize : n = Len(c)
  BY <1>1, ChainFollows
<1>3. /\ \A i \in 1 .. n : Continues(j, m, c[i], i)
      /\ n # 0 => c[1] = m.start
      /\ \A i \in 2 .. n : c[i] = NextFrame(j, c[i - 1])
      /\ n = 0 => ~Continues(j, m, m.start, 1)
      /\ n \in 1 .. FileSize - 1 => ~Continues(j, m, NextFrame(j, c[n]), n + 1)
  BY <1>1, <1>2, ChainFollows
<1>4. p \in 1 .. e
  BY DEF InSequence
<1>5. ASSUME NEW i \in 1 .. n PROVE c[i] \in Blocks /\ IsFrame(j, m, c[i]) /\ j[c[i]].seq = p + i - 1
  BY <1>3 DEF Continues
<1> HIDE DEF p
\* They come one behind the other round the ring, so they are not too many.
<1>6. n < FileSize
  <2> DEFINE S == {i \in 1 .. n : RingDistance(cur, c[i]) < i - 1}
  <2>1. S = {}
    <3>1. SUFFICES ASSUME S # {} PROVE FALSE
      OBVIOUS
    <3>2. S \in SUBSET Nat
      OBVIOUS
    <3>3. PICK i \in S : \A k \in S : i <= k
      <4> HIDE DEF S
      <4> QED
        BY <3>1, <3>2, Least
    <3>4. i # 1
      BY <1>5, CursorRange
    <3>5. i - 1 \in 1 .. n /\ i - 1 \notin S
      BY <3>3, <3>4
    <3>6. c[i - 1] \in Blocks /\ c[i] \in Blocks /\ c[i - 1] # c[i]
          /\ RingDistance(cur, c[i - 1]) <= RingDistance(cur, c[i])
      <4>1. /\ c[i - 1] \in Blocks /\ IsFrame(j, m, c[i - 1]) /\ j[c[i - 1]].seq = p + (i - 1) - 1
            /\ c[i] \in Blocks /\ IsFrame(j, m, c[i]) /\ j[c[i]].seq = p + i - 1
        BY <1>5, <3>3, <3>5
      <4>2. j[c[i - 1]].seq # j[c[i]].seq
        BY <1>4, <3>3, <4>1
      <4>3. \A a, b \in Blocks : IsFrame(j, m, a) /\ IsFrame(j, m, b) /\ j[a].seq <= j[b].seq =>
               RingDistance(cur, a) <= RingDistance(cur, b)
        BY DEF InSequence
      <4>4. j[c[i - 1]].seq <= j[c[i]].seq
        BY <1>4, <3>3, <4>1
      <4> QED
        BY <4>1, <4>2, <4>3, <4>4
    <3>7. RingDistance(cur, c[i - 1]) \in Int /\ RingDistance(cur, c[i]) \in Int
          /\ RingDistance(cur, c[i - 1]) # RingDistance(cur, c[i])
      BY <3>6, CursorRange
    <3>8. ~(RingDistance(cur, c[i - 1]) < (i - 1) - 1)
      BY <3>5
    <3> QED
      BY <3>6, <3>7, <3>8
  <2>2. ASSUME n = FileSize PROVE FALSE
    <3>1. n \in 1 .. n /\ n \notin S
      BY <2>1, <2>2
    <3>2. RingDistance(cur, c[n]) \in 0 .. FileSize - 2
      BY <1>5, <3>1, CursorRange
    <3> QED
      BY <2>2, <3>1, <3>2
  <2> QED
    BY <2>2
<1>7. SUFFICES ASSUME n < s - p + 1 PROVE FALSE
  BY <1>1, <1>2, <1>4 DEF p
<1>8. CASE n = 0
  <2>1. j[m.start].type # "open"
    BY <1>4 DEF p
  <2>2. Continues(j, m, m.start, 1)
    BY <1>4, <2>1 DEF Continues, p
  <2> QED
    BY <1>3, <1>8, <2>2
<1>9. CASE n # 0
  <2>1. c[n] \in Blocks /\ IsFrame(j, m, c[n]) /\ j[c[n]].seq = p + n - 1 /\ p + n - 1 < s
    BY <1>4, <1>5, <1>7, <1>9
  <2>2. /\ NextFrame(j, c[n]) \in Blocks
        /\ IsFrame(j, m, NextFrame(j, c[n])) /\ j[NextFrame(j, c[n])].seq = p + n
    <3>1. j[c[n]].seq < e
      BY <1>4, <2>1 DEF p
    <3>2. /\ IsFrame(j, m, NextFrame(j, c[n]))
          /\ j[NextFrame(j, c[n])].seq = j[c[n]].seq + 1
      BY <2>1, <3>1 DEF InSequence
    <3> QED
      BY <1>4, <2>1, <3>2, FormedFrame
  <2>3. j[NextFrame(j, c[n])].type # "open"
    BY <1>4, <2>1, <2>2
  <2>4. Continues(j, m, NextFrame(j, c[n]), n + 1)
    BY <1>4, <2>2, <2>3 DEF Continues, p
  <2> QED
    BY <1>3, <1>6, <1>9, <2>4
<1> QED
  BY <1>8, <1>9

-----------------------------------------------------------------------------
(* The ranges a mount restores *)

\* What a mount comes to is frames in the order of their numbers.
LEMMA OnChain ==
    ASSUME NEW j, NEW m, NEW e, NEW cur, NEW r, NEW f, NEW mark, NEW sp, NEW fm,
           InOrder(j, m, e, cur, r, f, mark, sp, fm), NEW i \in 1 .. Len(Chain(j, m))
    PROVE  /\ Chain(j, m)[i] \in Blocks /\ IsFrame(j, m, Chain(j, m)[i])
           /\ IsFrame(j, m, m.start) /\ j[m.start].seq \in 1 .. e
           /\ j[Chain(j, m)[i]].seq = j[m.start].seq + i - 1
           /\ j[Chain(j, m)[i]].type # "open"
           /\ j[Chain(j, m)[i]].seq \in 1 .. e
<1> USE RingAssumption
<1>1. m.start \in Blocks
  BY DEF InOrder
<1>2. /\ \A k \in 1 .. Len(Chain(j, m)) : Continues(j, m, Chain(j, m)[k], k)
      /\ Len(Chain(j, m)) \in Nat /\ Len(Chain(j, m)) # 0 => Chain(j, m)[1] = m.start
  BY <1>1, ChainFollows
<1>3. Continues(j, m, Chain(j, m)[i], i) /\ Continues(j, m, m.start, 1)
  <2>1. 1 \in 1 .. Len(Chain(j, m)) /\ Len(Chain(j, m)) # 0
    BY <1>2
  <2> QED
    BY <1>2, <2>1
<1>4. /\ Chain(j, m)[i] \in Blocks /\ IsFrame(j, m, Chain(j, m)[i])
      /\ IsFrame(j, m, m.start)
      /\ j[Chain(j, m)[i]].seq = j[m.start].seq + i - 1
      /\ j[Chain(j, m)[i]].type # "open"
  BY <1>3, Zenon DEF Continues
<1>5. \A b \in Blocks : IsFrame(j, m, b) => j[b].seq \in 1 .. e
  BY Zenon DEF InOrder, InSequence
<1> QED
  BY <1>1, <1>4, <1>5

\* The frame numbered s, if it is not open and none before it is, and if the
\* start record does not come after it, is one of them.
LEMMA ChainHas ==
    ASSUME NEW j, NEW m, NEW e, NEW cur, NEW r, NEW f, NEW mark, NEW sp, NEW fm,
           InOrder(j, m, e, cur, r, f, mark, sp, fm), IsFrame(j, m, m.start),
           NEW s \in {r, f}, j[m.start].seq <= s
    PROVE  s - j[m.start].seq + 1 \in 1 .. Len(Chain(j, m))
<1> USE RingAssumption
<1>1. /\ m.start \in Blocks /\ e \in Nat /\ cur \in 2 .. FileSize /\ r \in 0 .. e /\ f \in r .. e
      /\ Formed(j) /\ InSequence(j, m, e, cur) /\ Marked(j, m, r, f, mark)
      /\ mark \in {"flushed", "restoring"}
  BY Zenon DEF InOrder
<1>2. j[m.start].seq \in 1 .. e
  BY <1>1 DEF InSequence
<1>3. s \in j[m.start].seq .. e
  BY <1>1, <1>2
<1>4. ASSUME NEW b \in Blocks, IsFrame(j, m, b), j[b].seq <= s PROVE j[b].type # "open"
  <2>1. j[b].seq \in 1 .. e
    BY <1>1, <1>4 DEF InSequence
  <2>2. j[b].seq < r \/ j[b].seq = r \/ (r < j[b].seq /\ j[b].seq < f) \/ (r < f /\ j[b].seq = f)
    BY <1>1, <1>4, <2>1
  <2> QED
    BY <1>1, <1>4, <2>1, <2>2 DEF Marked, MarkFits
<1>5. s - j[m.start].seq + 1 <= Len(Chain(j, m))
  BY <1>1, <1>3, <1>4, ChainReaches
<1>6. Len(Chain(j, m)) \in Nat
  BY ChainIs
<1> QED
  BY SMTT(20), <1>2, <1>3, <1>5, <1>6

\* No journal in order is taken for a damaged one.
LEMMA NotInvalid ==
    ASSUME NEW j, NEW m, NEW e, NEW cur, NEW r, NEW f, NEW mark, NEW sp, NEW fm,
           InOrder(j, m, e, cur, r, f, mark, sp, fm)
    PROVE  ~Invalid(j, Chain(j, m))
<1>1. PICK c : c = Chain(j, m)
  OBVIOUS
<1>2. c \in Seq(Blocks) /\ Len(c) \in Nat
  BY <1>1, ChainIs
<1>3. ASSUME NEW i \in 2 .. Len(c), ~EndsSegment(j, c[i - 1]) PROVE j[c[i - 1]].space = j[c[i]].space
  <2>1. i \in 1 .. Len(c) /\ i - 1 \in 1 .. Len(c)
    BY <1>2
  <2>2. /\ c[i] \in Blocks /\ IsFrame(j, m, c[i]) /\ j[c[i]].seq = j[m.start].seq + i - 1
        /\ c[i - 1] \in Blocks /\ IsFrame(j, m, c[i - 1])
        /\ j[c[i - 1]].seq = j[m.start].seq + (i - 1) - 1 /\ j[m.start].seq \in Int
    BY <1>1, <2>1, OnChain
  <2>3. j[c[i]].seq = j[c[i - 1]].seq + 1
    BY <2>2
  <2> QED
    BY <1>3, <2>2, <2>3 DEF InOrder, Signed
<1>4. ASSUME NEW i \in LastOf(j, c, {"restoring"}) .. Len(c), LastOf(j, c, {"restoring"}) # 0,
             j[c[i]].type = "restored"
      PROVE  FALSE
  <2>1. PICK l \in 1 .. Len(c) : l = LastOf(j, c, {"restoring"}) /\ j[c[l]].type = "restoring"
    BY <1>2, <1>4, LastOfIs
  <2>2. i \in 1 .. Len(c)
    BY <1>2, <2>1
  <2>3. /\ c[i] \in Blocks /\ IsFrame(j, m, c[i]) /\ j[c[i]].seq = j[m.start].seq + i - 1
        /\ c[l] \in Blocks /\ IsFrame(j, m, c[l]) /\ j[c[l]].seq = j[m.start].seq + l - 1
        /\ j[m.start].seq \in 1 .. e
    BY <1>1, <2>1, <2>2, OnChain
  <2>4. j[c[l]].seq <= j[c[i]].seq /\ j[c[l]].seq \in Int /\ j[c[i]].seq \in Int
    BY <2>1, <2>3
  <2>5. r \in Nat /\ f \in Nat /\ r <= f /\ Marked(j, m, r, f, mark)
    BY DEF InOrder
  <2>6. MarkFits(j[c[i]], r, f, mark) /\ MarkFits(j[c[l]], r, f, mark)
    BY <2>3, <2>5, Zenon DEF Marked
  <2>7. j[c[l]].seq > r
    BY <2>1, <2>4, <2>5, <2>6 DEF MarkFits
  <2>8. j[c[i]].seq > r
    BY <2>4, <2>5, <2>7
  <2>9. mark # "restored"
    BY DEF InOrder
  <2> QED
    BY <1>4, <2>4, <2>5, <2>6, <2>8, <2>9 DEF MarkFits
<1>5. ~Invalid(j, c)
  BY <1>3, <1>4 DEF Invalid
<1> QED
  BY <1>1, <1>5

\* The place of the last frame restored, and of the last one flushed.
RestoredTo(j, m, r) == IF j[m.start].seq <= r THEN r - j[m.start].seq + 1 ELSE 0
Left(j, m, r, f) == SubSeq(Chain(j, m), RestoredTo(j, m, r) + 1, f - j[m.start].seq + 1)

\* The marks along the chain.
LEMMA ChainMarks ==
    ASSUME NEW j, NEW m, NEW e, NEW cur, NEW r, NEW f, NEW mark, NEW sp, NEW fm,
           InOrder(j, m, e, cur, r, f, mark, sp, fm), NEW i \in 1 .. Len(Chain(j, m))
    PROVE  LET x == j[Chain(j, m)[i]] IN
           /\ i < RestoredTo(j, m, r) => x.type \in {"closed", "flushed", "restored"}
           /\ i = RestoredTo(j, m, r) => x.type = "restored"
           /\ RestoredTo(j, m, r) < i /\ i < f - j[m.start].seq + 1 => x.type \in {"closed", "flushed"}
           /\ r < f /\ i = f - j[m.start].seq + 1 => x.type = mark
           /\ f - j[m.start].seq + 1 < i /\ RestoredTo(j, m, r) < i => x.type = "closed"
           /\ RestoredTo(j, m, r) < i => x.space = sp
<1> DEFINE c == Chain(j, m)
           x == j[c[i]]
           p == j[m.start].seq
<1>1. /\ c[i] \in Blocks /\ IsFrame(j, m, c[i])
      /\ p \in 1 .. e /\ x.seq = p + i - 1 /\ x.type # "open" /\ i \in Nat
  BY OnChain, ChainIs
<1>2. /\ r \in Nat /\ f \in Nat /\ r <= f /\ e \in Nat
      /\ Marked(j, m, r, f, mark) /\ Signed(j, m, r, sp)
  BY DEF InOrder
<1>3. MarkFits(x, r, f, mark) /\ (r < x.seq => x.space = sp)
  BY <1>1, <1>2, Zenon DEF Marked, Signed
<1> HIDE DEF x, p
<1>4. RestoredTo(j, m, r) = IF p <= r THEN r - p + 1 ELSE 0
  BY DEF RestoredTo, p
<1>5. /\ i < RestoredTo(j, m, r) => x.type \in {"closed", "flushed", "restored"}
      /\ i = RestoredTo(j, m, r) => x.type = "restored"
      /\ RestoredTo(j, m, r) < i /\ i < f - p + 1 => x.type \in {"closed", "flushed"}
      /\ r < f /\ i = f - p + 1 => x.type = mark
      /\ f - p + 1 < i /\ RestoredTo(j, m, r) < i => x.type = "closed"
      /\ RestoredTo(j, m, r) < i => x.space = sp
  BY <1>1, <1>2, <1>3, <1>4 DEF MarkFits
<1> QED
  BY <1>5 DEF x, p

\* The last frame of a kind.
IsLast(j, c, types, n) ==
    /\ n \in 0 .. Len(c)
    /\ n # 0 => j[c[n]].type \in types
    /\ \A i \in 1 .. Len(c) : n < i => j[c[i]].type \notin types

LEMMA LastOfAt ==
    ASSUME NEW j, NEW c \in Seq(Blocks), NEW types, NEW n, IsLast(j, c, types, n)
    PROVE  LastOf(j, c, types) = n
<1>0. /\ n \in 0 .. Len(c)
      /\ n # 0 => j[c[n]].type \in types
      /\ \A i \in 1 .. Len(c) : n < i => j[c[i]].type \notin types
  BY DEF IsLast
<1>1. Len(c) \in Nat
  BY LenProperties
<1>2. LastOf(j, c, types) \in 0 .. Len(c)
  BY LastOfIs
<1>3. ~(n < LastOf(j, c, types))
  <2>1. LastOf(j, c, types) # 0 => j[c[LastOf(j, c, types)]].type \in types
    BY LastOfIs
  <2> QED
    BY <1>0, <1>1, <1>2, <2>1
<1>4. n # 0 => n <= LastOf(j, c, types)
  <2>1. \A i \in 1 .. Len(c) : j[c[i]].type \in types => i <= LastOf(j, c, types)
    BY LastOfIs
  <2> QED
    BY <1>0, <1>1, <2>1
<1> QED
  BY <1>0, <1>1, <1>2, <1>3, <1>4

\* There is something a mount may restore.
Restorable(r, f, mark, sp, h, v) ==
    r < f /\ JournalFound(h) /\ ~(mark = "flushed" /\ sp # v["fat"])

\* A mount restores the frames that were flushed and not restored, or nothing.
LEMMA RangesInOrder ==
    ASSUME NEW j, NEW m, NEW e, NEW cur, NEW r, NEW f, NEW mark, NEW sp, NEW fm,
           InOrder(j, m, e, cur, r, f, mark, sp, fm), NEW h, NEW v
    PROVE  RangesOf(j, m, h, v) =
              IF Restorable(r, f, mark, sp, h, v) THEN <<Left(j, m, r, f)>> ELSE <<>>
<1> DEFINE p == j[m.start].seq
           L == RestoredTo(j, m, r)
           F == f - p + 1
<1>1. PICK c : c = Chain(j, m)
  OBVIOUS
<1>2. c \in Seq(Blocks) /\ Len(c) \in Nat
  BY <1>1, ChainIs
<1>3. /\ r \in Nat /\ f \in Nat /\ r <= f /\ e \in Nat /\ f <= e
      /\ mark \in {"flushed", "restoring"}
  BY DEF InOrder
<1>4. ~Invalid(j, c)
  BY <1>1, NotInvalid
<1>5. RangesOf(j, m, h, v) =
          IF ~JournalFound(h) \/ Invalid(j, c) \/ OutOfDate(j, c, v) THEN <<>>
          ELSE IF Restoring(j, c) = <<>>
               THEN IF Flushed(j, c) = <<>> THEN <<>> ELSE <<Flushed(j, c)>>
               ELSE IF Flushed(j, c) = <<>> THEN <<Restoring(j, c)>>
                    ELSE <<Restoring(j, c), Flushed(j, c)>>
  BY <1>1 DEF RangesOf
<1>6. ASSUME NEW i \in 1 .. Len(c)
      PROVE  /\ i < L => j[c[i]].type \in {"closed", "flushed", "restored"}
             /\ i = L => j[c[i]].type = "restored"
             /\ L < i /\ i < F => j[c[i]].type \in {"closed", "flushed"}
             /\ r < f /\ i = F => j[c[i]].type = mark
             /\ F < i /\ L < i => j[c[i]].type = "closed"
             /\ L < i => j[c[i]].space = sp
             /\ p \in 1 .. e
  BY <1>1, ChainMarks, OnChain
<1>7. L = IF p <= r THEN r - p + 1 ELSE 0
  BY DEF RestoredTo
<1>8. Left(j, m, r, f) = SubSeq(c, L + 1, F)
  BY <1>1 DEF Left
<1>9. IsFrame(j, m, m.start) => p \in 1 .. e
  BY DEF InOrder, InSequence
<1>10. \A s \in {r, f} : IsFrame(j, m, m.start) /\ p <= s => s - p + 1 \in 1 .. Len(c)
  BY <1>1, ChainHas
<1>11. Len(c) # 0 => IsFrame(j, m, m.start)
  <2> HAVE Len(c) # 0
  <2>1. 1 \in 1 .. Len(Chain(j, m))
    BY <1>1, <1>2
  <2> QED
    BY <2>1, OnChain
<1>12. r < f => IsFrame(j, m, m.start) /\ p <= f
  BY DEF InOrder, StartFound
<1> HIDE DEF p, L, F
<1>13. IsFrame(j, m, m.start) => L \in 0 .. Len(c)
  BY <1>2, <1>3, <1>7, <1>9, <1>10
<1>14. CASE r = f
  <2>1. RangesOf(j, m, h, v) = <<>>
    <3>1. CASE Len(c) = 0
      <4>1. \A i \in 1 .. Len(c) : j[c[i]].type \notin {"restoring", "flushed"}
        BY <1>2, <3>1
      <4>2. Restoring(j, c) = <<>> /\ Flushed(j, c) = <<>>
        BY <1>2, <4>1, EmptyChain
      <4> QED
        BY <1>5, <4>2
    <3>2. CASE Len(c) # 0
      <4>1. L \in 0 .. Len(c) /\ p \in 1 .. e /\ (F <= L \/ F <= 0) /\ F \in Int
        BY <1>3, <1>7, <1>9, <1>11, <1>13, <1>14, <3>2 DEF F
      <4>2. \A i \in 1 .. Len(c) : j[c[i]].type # "restoring"
        BY <1>2, <1>6, <4>1
      <4>3. LastOf(j, c, {"restoring"}) = 0
        <5>1. IsLast(j, c, {"restoring"}, 0)
          BY <1>2, <4>2 DEF IsLast
        <5> QED
          BY <1>2, <5>1, LastOfAt
      <4>4. Restoring(j, c) = <<>>
        <5>1. LastOf(j, c, {"restored"}) \in 0 .. Len(c)
          BY <1>2, LastOfIs, Zenon
        <5> QED
          BY <1>2, <4>3, <5>1, RestoringIs
      <4>5. \A i \in 1 .. Len(c) : L < i => j[c[i]].type = "closed"
        BY <1>2, <1>6, <4>1
      <4>6. LastOf(j, c, {"restored", "restoring"}) = L
        <5>1. IsLast(j, c, {"restored", "restoring"}, L)
          BY <1>2, <1>6, <4>1, <4>5 DEF IsLast
        <5> QED
          BY <1>2, <5>1, LastOfAt
      <4>7. LastOf(j, c, {"flushed"}) <= L
        <5>1. PICK n : n = LastOf(j, c, {"flushed"})
          OBVIOUS
        <5>2. n \in 0 .. Len(c) /\ (n # 0 => j[c[n]].type \in {"flushed"})
          BY <1>2, <5>1, LastOfIs
        <5> QED
          BY <1>2, <4>1, <4>5, <5>1, <5>2
      <4>8. Flushed(j, c) = <<>>
        <5>1. LastOf(j, c, {"flushed"}) \in 0 .. Len(c)
          BY <1>2, LastOfIs
        <5>2. ~(LastOf(j, c, {"restored", "restoring"}) < LastOf(j, c, {"flushed"}))
          BY <1>2, <4>1, <4>6, <4>7, <5>1
        <5> QED
          BY <1>2, <5>2, FlushedIs
      <4> QED
        BY <1>5, <4>4, <4>8
    <3> QED
      BY <3>1, <3>2
  <2> QED
    BY <1>3, <1>14, <2>1 DEF Restorable
<1>15. CASE r < f
  <2>1. /\ IsFrame(j, m, m.start) /\ p \in 1 .. e /\ L \in 0 .. Len(c)
        /\ F \in 1 .. Len(c) /\ L < F
    BY <1>2, <1>3, <1>7, <1>9, <1>10, <1>12, <1>13, <1>15 DEF F
  <2>2. \A i \in 1 .. Len(c) :
           /\ L < i /\ i # F => j[c[i]].type \in {"closed", "flushed"}
           /\ F < i => j[c[i]].type = "closed"
    BY <1>2, <1>6, <2>1
  <2>3. j[c[F]].type = mark /\ (L # 0 => j[c[L]].type = "restored")
    BY <1>2, <1>6, <1>15, <2>1
  <2>4. LastOf(j, c, {"restored"}) = L
    <3>1. IsLast(j, c, {"restored"}, L)
      BY <1>2, <1>3, <2>1, <2>2, <2>3 DEF IsLast
    <3> QED
      BY <1>2, <3>1, LastOfAt
  <2>5. CASE mark = "restoring"
    <3>1. LastOf(j, c, {"restoring"}) = F /\ LastOf(j, c, {"restored", "restoring"}) = F
      <4>1. IsLast(j, c, {"restoring"}, F) /\ IsLast(j, c, {"restored", "restoring"}, F)
        BY <1>2, <2>1, <2>2, <2>3, <2>5 DEF IsLast
      <4> QED
        BY <1>2, <4>1, LastOfAt
    <3>2. LastOf(j, c, {"flushed"}) < F
      <4>1. PICK n : n = LastOf(j, c, {"flushed"})
        OBVIOUS
      <4>2. n \in 0 .. Len(c) /\ (n # 0 => j[c[n]].type \in {"flushed"})
        BY <1>2, <4>1, LastOfIs
      <4> QED
        BY <1>2, <2>1, <2>2, <2>3, <2>5, <4>1, <4>2
    <3>3. Flushed(j, c) = <<>>
      <4>1. LastOf(j, c, {"flushed"}) \in 0 .. Len(c)
        BY <1>2, LastOfIs
      <4>2. ~(LastOf(j, c, {"restored", "restoring"}) < LastOf(j, c, {"flushed"}))
        BY <1>2, <2>1, <3>1, <3>2, <4>1
      <4> QED
        BY <1>2, <4>2, FlushedIs
    <3>4. Restoring(j, c) = Left(j, m, r, f) /\ Restoring(j, c) # <<>>
      BY <1>2, <1>8, <2>1, <2>4, <3>1, RestoringIs DEF Restoring
    <3>5. ~OutOfDate(j, c, v)
      BY <3>4 DEF OutOfDate
    <3> QED
      BY <1>4, <1>5, <1>15, <2>5, <3>3, <3>4, <3>5 DEF Restorable
  <2>6. CASE mark = "flushed"
    <3>1. LastOf(j, c, {"flushed"}) = F
      <4>1. IsLast(j, c, {"flushed"}, F)
        BY <1>2, <2>1, <2>2, <2>3, <2>6 DEF IsLast
      <4> QED
        BY <1>2, <4>1, LastOfAt
    <3>2. LastOf(j, c, {"restored", "restoring"}) = L
      <4>1. IsLast(j, c, {"restored", "restoring"}, L)
        BY <1>2, <2>1, <2>2, <2>3, <2>6 DEF IsLast
      <4> QED
        BY <1>2, <4>1, LastOfAt
    <3>3. Restoring(j, c) = <<>>
      <4>1. LastOf(j, c, {"restoring"}) <= L /\ LastOf(j, c, {"restoring"}) \in Nat
        <5>1. PICK n : n = LastOf(j, c, {"restoring"})
          OBVIOUS
        <5>2. n \in 0 .. Len(c) /\ (n # 0 => j[c[n]].type \in {"restoring"})
          BY <1>2, <5>1, LastOfIs
        <5> QED
          BY <1>2, <2>1, <2>2, <2>3, <2>6, <5>1, <5>2
      <4> QED
        BY <1>2, <2>1, <2>4, <4>1, RestoringIs
    <3>4. Flushed(j, c) = Left(j, m, r, f) /\ Flushed(j, c) # <<>>
      BY <1>2, <1>8, <2>1, <3>1, <3>2, FlushedIs DEF Flushed
    <3>5. j[Flushed(j, c)[1]].space = sp
      <4>1. SubSeq(c, L + 1, F)[1] = c[L + 1]
        <5>1. \A i \in L + 1 .. F : c[i] \in Blocks
          BY <1>2, <2>1, ElementOfSeq
        <5> QED
          BY <1>2, <2>1, <5>1, SubSeqProperties
      <4>2. j[c[L + 1]].space = sp
        BY <1>2, <1>6, <2>1
      <4> QED
        BY <1>8, <3>4, <4>1, <4>2
    <3>6. OutOfDate(j, c, v) <=> sp # v["fat"]
      BY <3>3, <3>4, <3>5 DEF OutOfDate
    <3> QED
      BY <1>4, <1>5, <1>15, <2>6, <3>3, <3>4, <3>6 DEF Restorable
  <2> QED
    BY <1>3, <2>5, <2>6
<1> QED
  BY <1>3, <1>14, <1>15

\* Those frames, and no others.
LEMMA LeftIs ==
    ASSUME NEW j, NEW m, NEW e, NEW cur, NEW r, NEW f, NEW mark, NEW sp, NEW fm,
           InOrder(j, m, e, cur, r, f, mark, sp, fm), r < f
    PROVE  LET s == Left(j, m, r, f)
               p == j[m.start].seq
               L == RestoredTo(j, m, r)
           IN  /\ s \in Seq(Blocks) /\ s # <<>> /\ Len(s) \in Nat
               /\ IsFrame(j, m, LastBlock(s)) /\ j[LastBlock(s)].seq = f /\ LastBlock(s) \in Blocks
               /\ \A i \in 1 .. Len(s) :
                     /\ s[i] \in Blocks /\ IsFrame(j, m, s[i])
                     /\ j[s[i]].seq = p + L + i - 1 /\ j[s[i]].seq \in r + 1 .. f
               /\ \A b \in Blocks :
                     IsFrame(j, m, b) /\ r < j[b].seq /\ j[b].seq <= f /\ j[b].recs # <<>> =>
                        \E i \in 1 .. Len(s) : s[i] = b
<1> DEFINE s == Left(j, m, r, f)
           p == j[m.start].seq
           L == RestoredTo(j, m, r)
           F == f - p + 1
<1>1. PICK c : c = Chain(j, m)
  OBVIOUS
<1>2. c \in Seq(Blocks) /\ Len(c) \in Nat
  BY <1>1, ChainIs
<1>3. /\ r \in Nat /\ f \in Nat /\ r <= f /\ e \in Nat /\ f <= e /\ cur \in 2 .. FileSize
      /\ InSequence(j, m, e, cur)
      /\ IsFrame(j, m, m.start) /\ p <= f
      /\ \A b \in Blocks : IsFrame(j, m, b) /\ r < j[b].seq /\ j[b].seq < p => j[b].recs = <<>>
  BY DEF InOrder, StartFound
<1>4. \A i \in 1 .. Len(c) :
         /\ c[i] \in Blocks /\ IsFrame(j, m, c[i]) /\ j[c[i]].seq = p + i - 1
  BY <1>1, OnChain
<1>5. \A b \in Blocks : IsFrame(j, m, b) => j[b].seq \in 1 .. e
  BY <1>3 DEF InSequence
<1>6. p \in 1 .. e
  BY <1>3, <1>5 DEF InOrder
<1>7. \A k \in {r, f} : p <= k => k - p + 1 \in 1 .. Len(c)
  BY <1>1, <1>3, ChainHas
<1>8. L = IF p <= r THEN r - p + 1 ELSE 0
  BY DEF RestoredTo
<1>9. s = SubSeq(c, L + 1, F)
  BY <1>1 DEF Left
<1> HIDE DEF p, L
<1>10. /\ L \in 0 .. Len(c) /\ F \in 1 .. Len(c) /\ L < F /\ r < p + L
       /\ r = p + L - 1 \/ L = 0
  BY <1>2, <1>3, <1>6, <1>7, <1>8
<1>11. /\ s \in Seq(Blocks) /\ Len(s) = F - L
       /\ \A i \in 1 .. F - L : s[i] = c[L + i]
  <2>1. \A i \in L + 1 .. F : c[i] \in Blocks
    BY <1>2, <1>10, ElementOfSeq
  <2>2. L + 1 \in Int /\ F \in Int
    BY <1>2, <1>10
  <2>3. /\ SubSeq(c, L + 1, F) \in Seq(Blocks)
        /\ Len(SubSeq(c, L + 1, F)) = IF L + 1 <= F THEN F - (L + 1) + 1 ELSE 0
        /\ \A i \in 1 .. F - (L + 1) + 1 : SubSeq(c, L + 1, F)[i] = c[L + 1 + i - 1]
    BY <2>1, <2>2, SubSeqProperties
  <2>4. F - (L + 1) + 1 = F - L /\ L + 1 <= F
    BY <1>2, <1>10
  <2>5. \A i \in 1 .. F - L : L + 1 + i - 1 = L + i
    BY <1>2, <1>10
  <2> QED
    BY <1>9, <2>3, <2>4, <2>5
<1> HIDE DEF s
<1>12. ASSUME NEW i \in 1 .. Len(s)
       PROVE  /\ s[i] \in Blocks /\ IsFrame(j, m, s[i])
              /\ j[s[i]].seq = p + L + i - 1 /\ j[s[i]].seq \in r + 1 .. f
  <2>1. i \in 1 .. F - L /\ L + i \in 1 .. Len(c) /\ s[i] = c[L + i]
    BY <1>2, <1>10, <1>11
  <2>2. /\ s[i] \in Blocks /\ IsFrame(j, m, s[i]) /\ j[s[i]].seq = p + (L + i) - 1
    BY <1>4, <2>1
  <2>3. p + (L + i) - 1 = p + L + i - 1 /\ p + (L + i) - 1 \in r + 1 .. f
    BY <1>2, <1>3, <1>6, <1>10, <2>1
  <2> QED
    BY <2>2, <2>3
<1>13. Len(s) \in 1 .. Len(s) /\ j[s[Len(s)]].seq = f /\ s # <<>> /\ Len(s) \in Nat
  <2>1. Len(s) \in 1 .. Len(s) /\ Len(s) \in Nat /\ Len(s) = F - L
    BY <1>2, <1>10, <1>11
  <2>2. j[s[Len(s)]].seq = p + L + Len(s) - 1
    BY <1>12, <2>1
  <2>3. s # <<>>
    BY <2>1
  <2>4. p + L + (F - L) - 1 = f
    BY SMTT(20), <1>2, <1>3, <1>6, <1>10
  <2> QED
    BY <2>1, <2>2, <2>3, <2>4
<1>14. ASSUME NEW b \in Blocks, IsFrame(j, m, b), r < j[b].seq, j[b].seq <= f, j[b].recs # <<>>
       PROVE  \E i \in 1 .. Len(s) : s[i] = b
  <2>1. j[b].seq \in 1 .. e /\ p <= j[b].seq
    BY <1>3, <1>5, <1>6, <1>14
  <2> DEFINE i == j[b].seq - p + 1 - L
  <2>2. i \in 1 .. Len(s) /\ p + L + i - 1 = j[b].seq
    <3>1. PICK n \in 1 .. e : n = j[b].seq
      BY <2>1
    <3>2. /\ L \in Int /\ p \in Int /\ f \in Int /\ r \in Int /\ n \in Int
          /\ r < n /\ n <= f /\ p <= n /\ (r = p + L - 1 \/ L = 0)
      BY <1>2, <1>3, <1>6, <1>10, <1>14, <2>1, <3>1
    <3>3. /\ n - p + 1 - L \in 1 .. (f - p + 1) - L
          /\ p + L + (n - p + 1 - L) - 1 = n
      BY <3>2
    <3> QED
      BY <1>11, <3>1, <3>3
  <2> HIDE DEF i
  <2>3. s[i] \in Blocks /\ IsFrame(j, m, s[i]) /\ j[s[i]].seq = j[b].seq
    BY <1>12, <2>2
  <2>4. s[i] = b
    BY <1>3, <1>14, <2>3, SeqOnce
  <2> QED
    BY <2>2, <2>4
<1> QED
  BY <1>11, <1>12, <1>13, <1>14 DEF LastBlock, s, p, L

\* The copies that count are the ones the journal's own map points to.
LEMMA LeftReplaces ==
    ASSUME NEW j, NEW m, NEW e, NEW cur, NEW r, NEW f, NEW mark, NEW sp, NEW fm,
           InOrder(j, m, e, cur, r, f, mark, sp, fm), r < f, NEW v \in Volume
    PROVE  /\ v \in Replaced(j, Left(j, m, r, f)) <=> fm[v] # 0
           /\ fm[v] # 0 => Replacement(j, Left(j, m, r, f), v) = ValueAt(j, fm[v])
<1> USE RingAssumption
<1>1. PICK s : s = Left(j, m, r, f)
  OBVIOUS
<1>2. PICK q \in Int : q = j[m.start].seq + RestoredTo(j, m, r)
  <2>1. j[m.start].seq \in Int /\ r \in Int
    BY DEF InOrder, StartFound, InSequence
  <2> QED
    BY <2>1 DEF RestoredTo
<1>3. /\ s \in Seq(Blocks) /\ Len(s) \in Nat
      /\ \A i \in 1 .. Len(s) :
            /\ s[i] \in Blocks /\ IsFrame(j, m, s[i])
            /\ j[s[i]].seq = q + i - 1 /\ j[s[i]].seq \in r + 1 .. f
      /\ \A b \in Blocks :
            IsFrame(j, m, b) /\ r < j[b].seq /\ j[b].seq <= f /\ j[b].recs # <<>> =>
               \E i \in 1 .. Len(s) : s[i] = b
  BY SMTT(20), <1>1, <1>2, LeftIs
<1>4. /\ r \in Nat /\ f \in Nat
      /\ fm[v] # 0 => \E b \in Blocks, i \in 1 .. FrameMax :
                          RecordIn(j, m, r, f, b, i, v) /\ fm[v] = b + i
      /\ \A b \in Blocks, i \in 1 .. FrameMax : RecordIn(j, m, r, f, b, i, v) =>
            \E c \in Blocks, k \in 1 .. FrameMax :
               /\ RecordIn(j, m, r, f, c, k, v) /\ fm[v] = c + k
               /\ j[b].seq < j[c].seq \/ (b = c /\ i <= k)
  BY DEF InOrder, MapOf
\* A record of one of the frames is one of the range, and the other way round.
<1>5. ASSUME NEW b \in Blocks, NEW i \in 1 .. FrameMax, RecordIn(j, m, r, f, b, i, v)
      PROVE  \E a \in 1 .. Len(s) :
                s[a] = b /\ <<a, i>> \in Records(j, s) /\ j[s[a]].recs[i] = v
  <2>1. j[b].recs # <<>>
    <3>1. i <= Len(j[b].recs) /\ Len(<<>>) = 0
      BY <1>5 DEF RecordIn
    <3> QED
      BY <3>1
  <2>2. PICK a \in 1 .. Len(s) : s[a] = b
    BY <1>3, <1>5, <2>1 DEF RecordIn
  <2> QED
    BY <1>5, <2>2 DEF RecordIn, Records
<1>6. ASSUME NEW x \in Records(j, s), j[s[x[1]]].recs[x[2]] = v
      PROVE  /\ x[1] \in 1 .. Len(s) /\ x[2] \in 1 .. FrameMax /\ s[x[1]] \in Blocks
             /\ RecordIn(j, m, r, f, s[x[1]], x[2], v)
  <2>1. x[1] \in 1 .. Len(s) /\ x[2] \in 1 .. FrameMax /\ x[2] <= Len(j[s[x[1]]].recs)
    BY DEF Records
  <2> QED
    BY SMTT(20), <1>3, <1>4, <1>6, <2>1 DEF RecordIn
<1>7. ASSUME fm[v] # 0 PROVE v \in Replaced(j, s)
  <2>1. PICK b \in Blocks, i \in 1 .. FrameMax : RecordIn(j, m, r, f, b, i, v)
    BY <1>4, <1>7
  <2>2. PICK a \in 1 .. Len(s) : <<a, i>> \in Records(j, s) /\ j[s[a]].recs[i] = v
    BY <1>5, <2>1
  <2>3. <<a, i>>[1] = a /\ <<a, i>>[2] = i
    OBVIOUS
  <2> QED
    BY <2>2, <2>3, Zenon DEF Replaced
<1>8. ASSUME v \in Replaced(j, s) PROVE fm[v] # 0 /\ Replacement(j, s, v) = ValueAt(j, fm[v])
  <2>1. PICK x : x = LatestRecord(j, s, v)
    OBVIOUS
  <2>2. /\ x \in Records(j, s) /\ j[s[x[1]]].recs[x[2]] = v
        /\ \A y \in Records(j, s) : j[s[y[1]]].recs[y[2]] = v =>
              y[1] < x[1] \/ (y[1] = x[1] /\ y[2] <= x[2])
    BY <1>3, <1>8, <2>1, LatestIs
  <2>3. /\ x[1] \in 1 .. Len(s) /\ x[2] \in 1 .. FrameMax /\ s[x[1]] \in Blocks
        /\ RecordIn(j, m, r, f, s[x[1]], x[2], v)
    BY <1>6, <2>2
  <2>4. PICK c \in Blocks, k \in 1 .. FrameMax :
           /\ RecordIn(j, m, r, f, c, k, v) /\ fm[v] = c + k
           /\ j[s[x[1]]].seq < j[c].seq \/ (s[x[1]] = c /\ x[2] <= k)
    BY <1>4, <2>3
  <2>5. PICK a \in 1 .. Len(s) : s[a] = c /\ <<a, k>> \in Records(j, s) /\ j[s[a]].recs[k] = v
    BY <1>5, <2>4
  <2>6. a < x[1] \/ (a = x[1] /\ k <= x[2])
    <3>1. <<a, k>>[1] = a /\ <<a, k>>[2] = k
      OBVIOUS
    <3> QED
      BY <2>2, <2>5, <3>1
  <2>7. PICK n1 \in Int : n1 = x[1] /\ n1 \in 1 .. Len(s)
    BY <1>3, <2>3
  <2>8. j[s[a]].seq = q + a - 1 /\ j[s[n1]].seq = q + n1 - 1 /\ a \in Int
    <3>1. \A i \in 1 .. Len(s) : j[s[i]].seq = q + i - 1
      BY <1>3, Zenon
    <3>2. Len(s) \in Nat /\ n1 \in 1 .. Len(s)
      BY <1>3, <2>7, Zenon
    <3> QED
      BY <3>1, <3>2
  <2>9. a = x[1] /\ k = x[2]
    <3>1. q + n1 - 1 < q + a - 1 \/ (s[x[1]] = c /\ x[2] <= k)
      BY <2>4, <2>5, <2>7, <2>8
    <3>2. ~(a < n1)
      <4>1. ASSUME a < n1 PROVE ~(q + n1 - 1 < q + a - 1) /\ q + n1 - 1 # q + a - 1
        BY <2>8, <4>1
      <4> QED
        BY <2>5, <2>7, <2>8, <3>1, <4>1
    <3>3. a = n1 /\ k <= x[2]
      BY <2>6, <2>7, <3>2
    <3>4. x[2] <= k
      BY <2>8, <3>1, <3>3
    <3> QED
      BY <2>3, <2>7, <3>3, <3>4
  <2>10. fm[v] = s[x[1]] + x[2]
    BY <2>4, <2>5, <2>9
  <2>11. Replacement(j, s, v) = ValueAt(j, s[x[1]] + x[2])
    BY <2>1 DEF Replacement
  <2>12. fm[v] # 0
    BY <2>3, <2>10 DEF Blocks
  <2> QED
    BY <2>10, <2>11, <2>12
<1> QED
  BY <1>1, <1>7, <1>8

\* What a mount after a power failure makes of the volume.
LEMMA RecoveredInOrder ==
    ASSUME NEW j, NEW m, NEW e, NEW cur, NEW r, NEW f, NEW mark, NEW sp, NEW fm,
           InOrder(j, m, e, cur, r, f, mark, sp, fm), NEW h, NEW vol
    PROVE  RecoveredFrom(j, m, h, vol) =
              [v \in Volume |-> IF Restorable(r, f, mark, sp, h, vol) /\ fm[v] # 0
                                THEN ValueAt(j, fm[v]) ELSE vol[v]]
<1>1. RecoveredFrom(j, m, h, vol) = Restored(j, RangesOf(j, m, h, vol), vol)
  BY DEF RecoveredFrom
<1>2. CASE Restorable(r, f, mark, sp, h, vol)
  <2>1. r < f
    BY <1>2 DEF Restorable
  <2>2. RecoveredFrom(j, m, h, vol) = Restored(j, <<Left(j, m, r, f)>>, vol)
    BY <1>1, <1>2, RangesInOrder
  <2>3. \A v \in Volume :
           Restored(j, <<Left(j, m, r, f)>>, vol)[v] = IF fm[v] # 0 THEN ValueAt(j, fm[v]) ELSE vol[v]
    BY <2>1, RestoredOne, LeftReplaces
  <2>4. Restored(j, <<Left(j, m, r, f)>>, vol)
          = [v \in Volume |-> Restored(j, <<Left(j, m, r, f)>>, vol)[v]]
    BY DEF Restored
  <2> QED
    BY <1>2, <2>2, <2>3, <2>4
<1>3. CASE ~Restorable(r, f, mark, sp, h, vol)
  <2>1. RecoveredFrom(j, m, h, vol) = Restored(j, <<>>, vol)
    BY <1>1, <1>3, RangesInOrder
  <2> QED
    BY <1>3, <2>1, RestoredNothing
<1> QED
  BY <1>2, <1>3

-----------------------------------------------------------------------------
(* Writes that leave a journal in order *)

\* One block is written.
Wrote(j, k, b, x) == b \in Blocks /\ \A a \in Blocks : k[a] = IF a = b THEN x ELSE j[a]

LEMMA WroteData ==
    ASSUME NEW j, NEW k, NEW m, NEW b, NEW x, Wrote(j, k, b, x), x.type = "data", Formed(j)
    PROVE  /\ Formed(k)
           /\ \A a \in Blocks : /\ IsFrame(k, m, a) => a # b /\ IsFrame(j, m, a)
                                /\ a # b /\ IsFrame(j, m, a) => IsFrame(k, m, a)
                                /\ a # b => k[a] = j[a]
  BY DEF Wrote, IsFrame, Formed, WellFormed

\* Data is written over the block at the cursor, which no frame needs, or over
\* a block that holds data.
LEMMA Forget ==
    ASSUME NEW j, NEW k, NEW m, NEW e, NEW cur, NEW r, NEW f, NEW mark, NEW sp, NEW fm,
           InOrder(j, m, e, cur, r, f, mark, sp, fm), NEW b, NEW x,
           Wrote(j, k, b, x), x.type = "data",
           IsFrame(j, m, b) => /\ b = At(cur)
                               /\ r < j[b].seq => j[b].recs = <<>>
                               /\ r < f => b # m.start
    PROVE  InOrder(k, m, e, cur, r, f, mark, sp, fm)
<1> USE RingAssumption
<1>0. b \in Blocks /\ Formed(j) /\ cur \in 2 .. FileSize /\ e \in Nat /\ InSequence(j, m, e, cur)
  BY DEF Wrote, InOrder
<1>1. /\ Formed(k)
      /\ \A a \in Blocks : /\ IsFrame(k, m, a) => a # b /\ IsFrame(j, m, a)
                           /\ a # b /\ IsFrame(j, m, a) => IsFrame(k, m, a)
                           /\ a # b => k[a] = j[a]
  BY <1>0, WroteData
<1>2. \A a \in Blocks : IsFrame(k, m, a) => NextFrame(k, a) = NextFrame(j, a) /\ NextFrame(j, a) \in Blocks
  BY <1>0, <1>1, FormedFrame DEF NextFrame
\* The block at the cursor is the oldest: no frame continues in it.
<1>3. ASSUME NEW a \in Blocks, IsFrame(k, m, a), j[a].seq < e PROVE NextFrame(j, a) # b
  <2>1. SUFFICES ASSUME NextFrame(j, a) = b PROVE FALSE
    OBVIOUS
  <2>2. IsFrame(j, m, a) /\ a # b /\ IsFrame(j, m, b) /\ j[b].seq = j[a].seq + 1 /\ j[a].seq \in Int
    BY <1>0, <1>1, <1>3, <2>1 DEF InSequence
  <2>3. RingDistance(cur, a) <= RingDistance(cur, b)
    BY <1>0, <2>2 DEF InSequence
  <2>4. RingDistance(cur, b) = 0
    BY <1>0, <2>2 DEF At, RingDistance, Blocks
  <2>5. RingDistance(cur, a) = RingDistance(cur, b)
    BY <1>0, <2>3, <2>4, CursorRange
  <2> QED
    BY <1>0, <2>2, <2>5, CursorRange
<1>4. InSequence(k, m, e, cur)
  <2>1. ASSUME NEW a \in Blocks, IsFrame(k, m, a)
        PROVE  /\ k[a].seq \in 1 .. e /\ Len(k[a].recs) <= FrameMax
               /\ k[a].type = "open" => k[a].seq = e
               /\ k[a].seq < e => /\ IsFrame(k, m, NextFrame(k, a))
                                  /\ k[NextFrame(k, a)].seq = k[a].seq + 1
               /\ k[a].seq = e => k[a].type = "open" \/ NextFrame(k, a) = At(cur)
    <3>1. IsFrame(j, m, a) /\ k[a] = j[a] /\ NextFrame(k, a) = NextFrame(j, a) /\ NextFrame(j, a) \in Blocks
      BY <1>1, <1>2, <2>1
    <3>2. j[a].seq < e => NextFrame(j, a) # b
      BY <1>3, <2>1
    <3> QED
      BY <1>0, <1>1, <3>1, <3>2 DEF InSequence
  <2>2. \A a, c \in Blocks :
           IsFrame(k, m, a) /\ IsFrame(k, m, c) /\ k[a].seq <= k[c].seq =>
              RingDistance(cur, a) <= RingDistance(cur, c)
    BY <1>0, <1>1 DEF InSequence
  <2> QED
    BY <2>1, <2>2 DEF InSequence
<1>5. Marked(k, m, r, f, mark) /\ Signed(k, m, r, sp)
  BY <1>1 DEF InOrder, Marked, MarkFits, Signed, EndsSegment
<1>6. StartFound(k, m, r, f)
  BY <1>1 DEF InOrder, StartFound
<1>7. \A a \in Blocks, i \in 1 .. FrameMax : \A v :
         RecordIn(k, m, r, f, a, i, v) <=> RecordIn(j, m, r, f, a, i, v)
  <2>1. ASSUME NEW a \in Blocks, NEW i \in 1 .. FrameMax, NEW v
        PROVE  RecordIn(k, m, r, f, a, i, v) <=> RecordIn(j, m, r, f, a, i, v)
    <3>1. CASE a # b
      BY <1>1, <3>1 DEF RecordIn
    <3>2. CASE a = b
      <4>1. ~IsFrame(k, m, b)
        BY <1>0, <1>1
      <4>2. Len(<<>>) = 0 /\ ~(i <= 0)
        OBVIOUS
      <4>3. RecordIn(j, m, r, f, b, i, v) => j[b].recs # <<>>
        BY <4>2 DEF RecordIn
      <4> QED
        BY <3>2, <4>1, <4>3 DEF RecordIn
    <3> QED
      BY <3>1, <3>2
  <2> QED
    BY <2>1
<1>8. MapOf(k, m, r, f, fm)
  <2>1. MapOf(j, m, r, f, fm)
    BY DEF InOrder
  <2>2. ASSUME NEW v \in Volume
        PROVE  fm[v] # 0 => \E a \in Blocks, i \in 1 .. FrameMax :
                               RecordIn(k, m, r, f, a, i, v) /\ fm[v] = a + i
    BY <1>7, <2>1 DEF MapOf
  <2>3. ASSUME NEW v \in Volume, NEW a \in Blocks, NEW i \in 1 .. FrameMax,
               RecordIn(k, m, r, f, a, i, v)
        PROVE  \E c \in Blocks, n \in 1 .. FrameMax :
                  /\ RecordIn(k, m, r, f, c, n, v) /\ fm[v] = c + n
                  /\ k[a].seq < k[c].seq \/ (a = c /\ i <= n)
    <3>1. PICK c \in Blocks, n \in 1 .. FrameMax :
             /\ RecordIn(j, m, r, f, c, n, v) /\ fm[v] = c + n
             /\ j[a].seq < j[c].seq \/ (a = c /\ i <= n)
      BY <1>7, <2>1, <2>3 DEF MapOf
    <3>2. RecordIn(k, m, r, f, c, n, v)
      BY <1>7, <3>1
    <3>3. k[a] = j[a] /\ k[c] = j[c]
      BY <1>1, <2>3, <3>2 DEF RecordIn
    <3> QED
      BY <3>1, <3>2, <3>3
  <2> QED
    BY <2>2, <2>3 DEF MapOf
<1> QED
  BY <1>1, <1>4, <1>5, <1>6, <1>8 DEF InOrder

\* The cursor passes a block that is no frame; the last frame is still open.
LEMMA Advance ==
    ASSUME NEW j, NEW m, NEW e, NEW cur, NEW r, NEW f, NEW mark, NEW sp, NEW fm,
           InOrder(j, m, e, cur, r, f, mark, sp, fm), ~IsFrame(j, m, At(cur)),
           \A b \in Blocks : IsFrame(j, m, b) /\ j[b].seq = e => j[b].type = "open"
    PROVE  InOrder(j, m, e, At(cur) + 1, r, f, mark, sp, fm)
<1> USE RingAssumption
<1>1. /\ cur \in 2 .. FileSize /\ InSequence(j, m, e, cur)
  BY DEF InOrder
<1>2. At(cur) + 1 \in 2 .. FileSize /\ At(cur) \in Blocks
  BY <1>1 DEF At, Blocks
<1>3. \A b \in Blocks : b # At(cur) =>
         /\ RingDistance(At(cur) + 1, b) = RingDistance(cur, b) - 1
         /\ RingDistance(cur, b) \in Int
  BY <1>1 DEF At, RingDistance, Blocks
<1>4. InSequence(j, m, e, At(cur) + 1)
  <2>1. \A b, c \in Blocks :
           IsFrame(j, m, b) /\ IsFrame(j, m, c) /\ j[b].seq <= j[c].seq =>
              RingDistance(At(cur) + 1, b) <= RingDistance(At(cur) + 1, c)
    BY <1>1, <1>3 DEF InSequence
  <2> QED
    BY <1>1, <2>1 DEF InSequence
<1> QED
  BY <1>2, <1>4 DEF InOrder

\* An empty frame is put down at the cursor.
LEMMA Place ==
    ASSUME NEW j, NEW k, NEW m, NEW e, NEW cur, NEW r, NEW f, NEW mark, NEW sp, NEW fm,
           InOrder(j, m, e, cur, r, f, mark, sp, fm), ~IsFrame(j, m, At(cur)),
           \A b \in Blocks : IsFrame(j, m, b) => j[b].type # "open",
           NEW x, Wrote(j, k, At(cur), x), HeaderAt(At(cur), x),
           x.type \in {"closed", "open"}, x.seq = e + 1, x.session = m.session, x.space = sp,
           x.recs = <<>>
    PROVE  InOrder(k, m, e + 1, At(cur) + 1, r, f, mark, sp, fm)
<1> USE RingAssumption
<1>0. /\ cur \in 2 .. FileSize /\ e \in Nat /\ r \in 0 .. e /\ f \in r .. e /\ Formed(j)
      /\ InSequence(j, m, e, cur) /\ Marked(j, m, r, f, mark) /\ Signed(j, m, r, sp)
      /\ MapOf(j, m, r, f, fm) /\ StartFound(j, m, r, f)
  BY DEF InOrder
<1>1. PICK b : b = At(cur)
  OBVIOUS
<1>2. b + 1 \in 2 .. FileSize /\ b \in Blocks
  BY <1>0, <1>1 DEF At, Blocks
<1>3. /\ \A a \in Blocks : IsFrame(k, m, a) => a = b \/ (a # b /\ IsFrame(j, m, a))
      /\ \A a \in Blocks : IsFrame(j, m, a) => IsFrame(k, m, a) /\ a # b
      /\ \A a \in Blocks : a # b => k[a] = j[a]
      /\ k[b] = x /\ IsFrame(k, m, b)
  BY <1>1, <1>2 DEF Wrote, IsFrame, HeaderAt
<1>4. Formed(k)
  BY <1>0, <1>1 DEF Wrote, Formed, WellFormed
<1>5. \A a \in Blocks : IsFrame(j, m, a) => /\ j[a].seq \in 1 .. e /\ j[a].type # "open"
                                            /\ NextFrame(k, a) = NextFrame(j, a)
                                            /\ NextFrame(j, a) \in Blocks
  BY <1>0, <1>3, FormedFrame DEF NextFrame, InSequence
<1>6. \A a \in Blocks : a # b =>
         /\ RingDistance(b + 1, a) = RingDistance(cur, a) - 1
         /\ RingDistance(cur, a) \in 0 .. FileSize - 2
  <2>1. CASE cur = FileSize
    <3>1. b = 1
      BY <1>1, <2>1 DEF At
    <3> QED
      BY <2>1, <3>1 DEF RingDistance, Blocks
  <2>2. CASE cur # FileSize
    <3>1. b = cur
      BY <1>1, <2>2 DEF At
    <3> QED
      BY <1>0, <2>2, <3>1 DEF RingDistance, Blocks
  <2> QED
    BY <2>1, <2>2
<1>7. RingDistance(b + 1, b) = FileSize - 2
  BY <1>2 DEF RingDistance, Blocks
<1>8. NextFrame(k, b) = At(b + 1)
  <2>1. Len(k[b].recs) = 0
    BY <1>3
  <2>2. NextFrame(k, b) = IF b + 1 + 0 >= FileSize THEN 1 ELSE b + 1 + 0
    BY <2>1 DEF NextFrame
  <2> QED
    BY <1>2, <2>2 DEF At, Blocks
<1>9. InSequence(k, m, e + 1, b + 1)
  <2>1. ASSUME NEW a \in Blocks, IsFrame(k, m, a)
        PROVE  /\ k[a].seq \in 1 .. e + 1 /\ Len(k[a].recs) <= FrameMax
               /\ k[a].type = "open" => k[a].seq = e + 1
               /\ k[a].seq < e + 1 => /\ IsFrame(k, m, NextFrame(k, a))
                                      /\ k[NextFrame(k, a)].seq = k[a].seq + 1
               /\ k[a].seq = e + 1 => k[a].type = "open" \/ NextFrame(k, a) = At(b + 1)
    <3>1. CASE a = b
      <4>1. Len(<<>>) = 0
        OBVIOUS
      <4> QED
        BY <1>0, <1>3, <1>8, <3>1, <4>1
    <3>2. CASE a # b
      <4>1. /\ IsFrame(j, m, a) /\ k[a] = j[a] /\ j[a].seq \in 1 .. e /\ j[a].type # "open"
            /\ NextFrame(k, a) = NextFrame(j, a) /\ NextFrame(j, a) \in Blocks
        BY <1>3, <1>5, <2>1, <3>2
      <4>2. /\ Len(j[a].recs) <= FrameMax
            /\ j[a].seq < e => /\ IsFrame(j, m, NextFrame(j, a))
                               /\ j[NextFrame(j, a)].seq = j[a].seq + 1
            /\ j[a].seq = e => NextFrame(j, a) = b
        BY <1>0, <1>1, <4>1 DEF InSequence
      <4>3. CASE j[a].seq < e
        BY <1>0, <1>3, <4>1, <4>2, <4>3
      <4>4. CASE j[a].seq = e
        BY <1>0, <1>3, <4>1, <4>2, <4>4
      <4> QED
        BY <1>0, <4>1, <4>3, <4>4
    <3> QED
      BY <3>1, <3>2
  <2>2. ASSUME NEW a \in Blocks, NEW c \in Blocks, IsFrame(k, m, a), IsFrame(k, m, c),
               k[a].seq <= k[c].seq
        PROVE  RingDistance(b + 1, a) <= RingDistance(b + 1, c)
    <3>1. CASE c = b
      BY <1>6, <1>7, <3>1
    <3>2. CASE c # b
      <4>1. IsFrame(j, m, c) /\ j[c].seq \in 1 .. e /\ k[c] = j[c]
        BY <1>3, <1>5, <2>2, <3>2
      <4>2. a # b
        BY <1>0, <1>3, <2>2, <4>1
      <4>3. IsFrame(j, m, a) /\ k[a] = j[a]
        BY <1>3, <2>2, <4>2
      <4>4. RingDistance(cur, a) <= RingDistance(cur, c)
        BY <1>0, <2>2, <4>1, <4>3 DEF InSequence
      <4> QED
        BY <1>6, <3>2, <4>2, <4>4
    <3> QED
      BY <3>1, <3>2
  <2> QED
    BY <2>1, <2>2 DEF InSequence
<1>10. Marked(k, m, r, f, mark)
  BY <1>0, <1>3 DEF Marked, MarkFits
<1>11. Signed(k, m, r, sp)
  <2>1. ASSUME NEW a \in Blocks, IsFrame(k, m, a)
        PROVE  r < k[a].seq => k[a].space = sp
    BY <1>0, <1>3, <2>1 DEF Signed
  <2>2. ASSUME NEW a \in Blocks, NEW c \in Blocks, IsFrame(k, m, a), IsFrame(k, m, c),
               k[c].seq = k[a].seq + 1, ~EndsSegment(k, a)
        PROVE  k[c].space = k[a].space
    <3>1. CASE c = b /\ a # b
      <4>1. IsFrame(j, m, a) /\ k[a] = j[a] /\ j[a].seq = e
        BY <1>0, <1>3, <1>5, <2>2, <3>1
      <4>2. r < e \/ (e = r /\ j[a].type = "restored")
        BY <1>0, <4>1 DEF Marked, MarkFits
      <4>3. r < e => j[a].space = sp
        BY <1>0, <4>1 DEF Signed
      <4> QED
        BY <1>3, <2>2, <3>1, <4>1, <4>2, <4>3 DEF EndsSegment
    <3>2. CASE a = b
      BY <1>0, <1>3, <1>5, <2>2, <3>2
    <3>3. CASE c # b /\ a # b
      <4>1. IsFrame(j, m, a) /\ k[a] = j[a] /\ IsFrame(j, m, c) /\ k[c] = j[c]
        BY <1>3, <2>2, <3>3
      <4> QED
        BY <1>0, <2>2, <4>1 DEF Signed, EndsSegment
    <3> QED
      BY <3>1, <3>2, <3>3
  <2> QED
    BY <2>1, <2>2 DEF Signed
<1>12. \A a \in Blocks, i \in 1 .. FrameMax : \A v :
          /\ RecordIn(k, m, r, f, a, i, v) => RecordIn(j, m, r, f, a, i, v)
          /\ RecordIn(j, m, r, f, a, i, v) => RecordIn(k, m, r, f, a, i, v) /\ k[a] = j[a]
  <2>1. ASSUME NEW a \in Blocks, NEW i \in 1 .. FrameMax, NEW v
        PROVE  /\ RecordIn(k, m, r, f, a, i, v) => RecordIn(j, m, r, f, a, i, v)
               /\ RecordIn(j, m, r, f, a, i, v) => RecordIn(k, m, r, f, a, i, v) /\ k[a] = j[a]
    <3>1. CASE a # b
      BY <1>3, <3>1 DEF RecordIn
    <3>2. CASE a = b
      <4>1. ~IsFrame(j, m, b) /\ ~(e + 1 <= f)
        BY <1>0, <1>1
      <4> QED
        BY <1>3, <3>2, <4>1 DEF RecordIn
    <3> QED
      BY <3>1, <3>2
  <2> QED
    BY <2>1
<1>13. MapOf(k, m, r, f, fm)
  <2>1. ASSUME NEW v \in Volume
        PROVE  fm[v] # 0 => \E a \in Blocks, i \in 1 .. FrameMax :
                               RecordIn(k, m, r, f, a, i, v) /\ fm[v] = a + i
    BY <1>0, <1>12 DEF MapOf
  <2>2. ASSUME NEW v \in Volume, NEW a \in Blocks, NEW i \in 1 .. FrameMax,
               RecordIn(k, m, r, f, a, i, v)
        PROVE  \E c \in Blocks, n \in 1 .. FrameMax :
                  /\ RecordIn(k, m, r, f, c, n, v) /\ fm[v] = c + n
                  /\ k[a].seq < k[c].seq \/ (a = c /\ i <= n)
    <3>1. RecordIn(j, m, r, f, a, i, v) /\ k[a] = j[a]
      BY <1>12, <2>2
    <3>2. PICK c \in Blocks, n \in 1 .. FrameMax :
             /\ RecordIn(j, m, r, f, c, n, v) /\ fm[v] = c + n
             /\ j[a].seq < j[c].seq \/ (a = c /\ i <= n)
      BY <1>0, <3>1 DEF MapOf
    <3>3. RecordIn(k, m, r, f, c, n, v) /\ k[c] = j[c]
      BY <1>12, <3>2
    <3> QED
      BY <3>1, <3>2, <3>3
  <2> QED
    BY <2>1, <2>2 DEF MapOf
<1>14. StartFound(k, m, r, f)
  <2> SUFFICES ASSUME r < f PROVE StartFound(k, m, r, f)
    BY DEF StartFound
  <2>1. /\ IsFrame(j, m, m.start) /\ j[m.start].seq <= f /\ m.start \in Blocks
        /\ \A a \in Blocks :
              IsFrame(j, m, a) /\ r < j[a].seq /\ j[a].seq < j[m.start].seq => j[a].recs = <<>>
    BY <1>0 DEF StartFound, InOrder
  <2>2. IsFrame(k, m, m.start) /\ k[m.start] = j[m.start]
    BY <1>3, <2>1
  <2>3. ASSUME NEW a \in Blocks, IsFrame(k, m, a), r < k[a].seq, k[a].seq < k[m.start].seq
        PROVE  k[a].recs = <<>>
    BY <1>3, <2>1, <2>2, <2>3
  <2> QED
    BY <2>1, <2>2, <2>3 DEF StartFound
<1>15. e + 1 \in Nat /\ r \in 0 .. e + 1 /\ f \in r .. e + 1 /\ m.start \in Blocks
       /\ mark \in {"flushed", "restoring"}
  BY <1>0 DEF InOrder
<1> QED
  BY <1>1, <1>2, <1>4, <1>9, <1>10, <1>11, <1>13, <1>14, <1>15 DEF InOrder

\* Data goes to the block at the cursor; the last frame is still open.
LEMMA PutData ==
    ASSUME NEW j, NEW k, NEW m, NEW e, NEW cur, NEW r, NEW f, NEW mark, NEW sp, NEW fm,
           InOrder(j, m, e, cur, r, f, mark, sp, fm),
           \A b \in Blocks : IsFrame(j, m, b) /\ j[b].seq = e => j[b].type = "open",
           IsFrame(j, m, At(cur)) => /\ r < j[At(cur)].seq => j[At(cur)].recs = <<>>
                                     /\ r < f => At(cur) # m.start,
           NEW x, Wrote(j, k, At(cur), x), x.type = "data"
    PROVE  InOrder(k, m, e, At(cur) + 1, r, f, mark, sp, fm)
<1>1. PICK b \in Blocks : b = At(cur) /\ Wrote(j, k, b, x)
  BY DEF Wrote
<1>2. InOrder(k, m, e, cur, r, f, mark, sp, fm)
  BY <1>1, Forget
<1>3. k[b].type = "data"
  BY <1>1 DEF Wrote
<1>4. \A a \in Blocks : IsFrame(k, m, a) => a # b /\ IsFrame(j, m, a) /\ k[a] = j[a]
  BY <1>1, <1>3 DEF Wrote, IsFrame
<1>5. ~IsFrame(k, m, At(cur))
  BY <1>1, <1>4
<1>6. \A a \in Blocks : IsFrame(k, m, a) /\ k[a].seq = e => k[a].type = "open"
  BY <1>4
<1> QED
  BY <1>2, <1>5, <1>6, Advance

\* The same, over a block that no frame needs.
LEMMA PutFrame ==
    ASSUME NEW j, NEW k, NEW m, NEW e, NEW cur, NEW r, NEW f, NEW mark, NEW sp, NEW fm,
           InOrder(j, m, e, cur, r, f, mark, sp, fm),
           \A b \in Blocks : IsFrame(j, m, b) => j[b].type # "open",
           IsFrame(j, m, At(cur)) => /\ r < j[At(cur)].seq => j[At(cur)].recs = <<>>
                                     /\ r < f => At(cur) # m.start,
           NEW x, Wrote(j, k, At(cur), x), HeaderAt(At(cur), x),
           x.type \in {"closed", "open"}, x.seq = e + 1, x.session = m.session, x.space = sp,
           x.recs = <<>>
    PROVE  InOrder(k, m, e + 1, At(cur) + 1, r, f, mark, sp, fm)
<1>1. PICK b \in Blocks : b = At(cur)
  BY DEF Wrote
<1>2. PICK i : i = [a \in Blocks |-> IF a = b THEN Unwritten ELSE j[a]]
  OBVIOUS
<1>3. Wrote(j, i, b, Unwritten) /\ Unwritten.type = "data" /\ Wrote(i, k, b, x)
  BY <1>1, <1>2 DEF Wrote, Unwritten
<1>4. InOrder(i, m, e, cur, r, f, mark, sp, fm)
  BY <1>1, <1>3, Forget
<1>5. ~IsFrame(i, m, b) /\ \A a \in Blocks : IsFrame(i, m, a) => i[a].type # "open"
  BY <1>3 DEF Wrote, IsFrame
<1> QED
  BY <1>1, <1>3, <1>4, <1>5, Place

\* A header is written again, closed at last or with another mark.
WroteAgain(j, k, m, b, x) ==
    /\ Wrote(j, k, b, x) /\ IsFrame(j, m, b) /\ HeaderAt(b, x)
    /\ x.seq = j[b].seq /\ x.session = j[b].session /\ x.space = j[b].space
    /\ x.type # "open"
Ends(x, b, cur) == Len(x.recs) <= FrameMax /\ b + 1 + Len(x.recs) = cur

LEMMA FramesStay ==
    ASSUME NEW j, NEW k, NEW m, NEW b, NEW x, WroteAgain(j, k, m, b, x), Formed(j)
    PROVE  /\ Formed(k) /\ b \in Blocks /\ IsFrame(j, m, b) /\ k[b] = x
           /\ \A a \in Blocks : /\ IsFrame(k, m, a) <=> IsFrame(j, m, a)
                                /\ IsFrame(j, m, a) => /\ k[a].seq = j[a].seq
                                                       /\ k[a].space = j[a].space
                                /\ a # b => k[a] = j[a]
<1>1. /\ b \in Blocks /\ \A a \in Blocks : k[a] = IF a = b THEN x ELSE j[a]
      /\ IsFrame(j, m, b) /\ HeaderAt(b, x)
      /\ x.seq = j[b].seq /\ x.session = j[b].session /\ x.space = j[b].space
  BY DEF WroteAgain, Wrote
<1>2. x.type # "data"
  BY <1>1 DEF HeaderAt, HeaderTypes
<1>3. Formed(k)
  BY <1>1 DEF Formed, WellFormed
<1> QED
  BY <1>1, <1>2, <1>3 DEF IsFrame

LEMMA SequenceStays ==
    ASSUME NEW j, NEW k, NEW m, NEW e \in Nat, NEW cur \in 2 .. FileSize, NEW b, NEW x,
           WroteAgain(j, k, m, b, x), Formed(j), InSequence(j, m, e, cur),
           IF j[b].type = "open" THEN Ends(x, b, cur) ELSE x.recs = j[b].recs
    PROVE  InSequence(k, m, e, cur)
<1> USE RingAssumption
<1>1. /\ Formed(k) /\ b \in Blocks /\ IsFrame(j, m, b) /\ k[b] = x
      /\ \A a \in Blocks : /\ IsFrame(k, m, a) <=> IsFrame(j, m, a)
                           /\ IsFrame(j, m, a) => k[a].seq = j[a].seq
                           /\ a # b => k[a] = j[a]
  BY FramesStay
<1>2. ASSUME NEW a \in Blocks, IsFrame(k, m, a)
      PROVE  /\ k[a].seq \in 1 .. e /\ Len(k[a].recs) <= FrameMax
             /\ k[a].type = "open" => k[a].seq = e
             /\ k[a].seq < e => /\ IsFrame(k, m, NextFrame(k, a))
                                /\ k[NextFrame(k, a)].seq = k[a].seq + 1
             /\ k[a].seq = e => k[a].type = "open" \/ NextFrame(k, a) = At(cur)
  <2>1. IsFrame(j, m, a) /\ k[a].seq = j[a].seq
    BY <1>1, <1>2
  <2>2. /\ j[a].seq \in 1 .. e /\ Len(j[a].recs) <= FrameMax
        /\ j[a].type = "open" => j[a].seq = e
        /\ j[a].seq < e => /\ IsFrame(j, m, NextFrame(j, a))
                           /\ j[NextFrame(j, a)].seq = j[a].seq + 1
        /\ j[a].seq = e => j[a].type = "open" \/ NextFrame(j, a) = At(cur)
        /\ NextFrame(j, a) \in Blocks
    BY <2>1, FormedFrame DEF InSequence
  <2>3. CASE a # b
    <3>1. k[a] = j[a] /\ NextFrame(k, a) = NextFrame(j, a)
      BY <1>1, <2>3 DEF NextFrame
    <3> QED
      BY <1>1, <2>1, <2>2, <3>1
  <2>4. CASE a = b /\ j[b].type = "open"
    <3>1. k[a].type # "open" /\ j[a].seq = e
      BY <1>1, <2>2, <2>4 DEF WroteAgain
    <3>2. Len(k[a].recs) <= FrameMax /\ b + 1 + Len(k[a].recs) = cur
      BY <1>1, <2>4 DEF Ends
    <3>3. NextFrame(k, a) = At(cur)
      BY <2>4, <3>2 DEF NextFrame, At
    <3> QED
      BY <2>1, <2>2, <3>1, <3>2, <3>3
  <2>5. CASE a = b /\ j[b].type # "open"
    <3>1. k[a].type # "open" /\ k[a].recs = j[a].recs
      BY <1>1, <2>5 DEF WroteAgain
    <3>2. NextFrame(k, a) = NextFrame(j, a)
      BY <3>1 DEF NextFrame
    <3> QED
      BY <1>1, <2>1, <2>2, <2>5, <3>1, <3>2
  <2> QED
    BY <2>3, <2>4, <2>5
<1>3. \A a, c \in Blocks :
         IsFrame(k, m, a) /\ IsFrame(k, m, c) /\ k[a].seq <= k[c].seq =>
            RingDistance(cur, a) <= RingDistance(cur, c)
  BY <1>1 DEF InSequence
<1> QED
  BY <1>2, <1>3 DEF InSequence

\* The map is of the records, whatever else is in the frames.
LEMMA SameRecords ==
    ASSUME NEW j, NEW k, NEW m, NEW r, NEW f, NEW fm, MapOf(j, m, r, f, fm),
           \A a \in Blocks : IsFrame(j, m, a) => k[a].seq = j[a].seq,
           \A a \in Blocks, i \in 1 .. FrameMax : \A v :
              RecordIn(k, m, r, f, a, i, v) <=> RecordIn(j, m, r, f, a, i, v)
    PROVE  MapOf(k, m, r, f, fm)
<1>1. ASSUME NEW v \in Volume
      PROVE  fm[v] # 0 => \E a \in Blocks, i \in 1 .. FrameMax :
                             RecordIn(k, m, r, f, a, i, v) /\ fm[v] = a + i
  BY DEF MapOf
<1>2. ASSUME NEW v \in Volume, NEW a \in Blocks, NEW i \in 1 .. FrameMax,
             RecordIn(k, m, r, f, a, i, v)
      PROVE  \E c \in Blocks, n \in 1 .. FrameMax :
                /\ RecordIn(k, m, r, f, c, n, v) /\ fm[v] = c + n
                /\ k[a].seq < k[c].seq \/ (a = c /\ i <= n)
  <2>1. RecordIn(j, m, r, f, a, i, v)
    BY <1>2
  <2>2. PICK c \in Blocks, n \in 1 .. FrameMax :
           /\ RecordIn(j, m, r, f, c, n, v) /\ fm[v] = c + n
           /\ j[a].seq < j[c].seq \/ (a = c /\ i <= n)
    BY <2>1 DEF MapOf
  <2>3. RecordIn(k, m, r, f, c, n, v)
    BY <2>2
  <2>4. k[c].seq = j[c].seq /\ k[a].seq = j[a].seq
    BY <2>1, <2>2 DEF RecordIn
  <2>5. k[a].seq < k[c].seq \/ (a = c /\ i <= n)
    BY <2>2, <2>4
  <2> QED
    BY <2>2, <2>3, <2>5, Zenon
<1> QED
  BY <1>1, <1>2 DEF MapOf

\* The open frame is closed; it belongs to no transaction that was committed.
LEMMA Close ==
    ASSUME NEW j, NEW k, NEW m, NEW e, NEW cur, NEW r, NEW f, NEW mark, NEW sp, NEW fm,
           InOrder(j, m, e, cur, r, f, mark, sp, fm), f < e, NEW b, NEW x,
           WroteAgain(j, k, m, b, x), j[b].type = "open", Ends(x, b, cur), x.type = "closed"
    PROVE  InOrder(k, m, e, cur, r, f, mark, sp, fm)
<1>0. /\ cur \in 2 .. FileSize /\ e \in Nat /\ r \in 0 .. e /\ f \in r .. e /\ Formed(j)
      /\ InSequence(j, m, e, cur) /\ Marked(j, m, r, f, mark) /\ Signed(j, m, r, sp)
      /\ MapOf(j, m, r, f, fm) /\ StartFound(j, m, r, f)
  BY DEF InOrder
<1>1. /\ Formed(k) /\ b \in Blocks /\ IsFrame(j, m, b) /\ k[b] = x
      /\ \A a \in Blocks : /\ IsFrame(k, m, a) <=> IsFrame(j, m, a)
                           /\ IsFrame(j, m, a) => k[a].seq = j[a].seq /\ k[a].space = j[a].space
                           /\ a # b => k[a] = j[a]
  BY <1>0, FramesStay
<1>2. InSequence(k, m, e, cur)
  BY <1>0, SequenceStays
<1>3. j[b].seq = e
  BY <1>0, <1>1 DEF InSequence
<1>4. Marked(k, m, r, f, mark)
  <2>1. ASSUME NEW a \in Blocks, IsFrame(k, m, a) PROVE MarkFits(k[a], r, f, mark)
    <3>1. CASE a = b
      <4>1. k[a].seq = e /\ k[a].type = "closed"
        BY <1>1, <1>3, <3>1
      <4> QED
        BY <1>0, <4>1 DEF MarkFits
    <3>2. CASE a # b
      BY <1>0, <1>1, <2>1, <3>2 DEF Marked
    <3> QED
      BY <3>1, <3>2
  <2> QED
    BY <2>1 DEF Marked
<1>5. Signed(k, m, r, sp)
  <2>1. j[b].type = "open" /\ ~EndsSegment(j, b)
    BY DEF EndsSegment
  <2> QED
    BY <1>0, <1>1, <2>1 DEF Signed, EndsSegment
<1>6. \A a \in Blocks, i \in 1 .. FrameMax : \A v :
         RecordIn(k, m, r, f, a, i, v) <=> RecordIn(j, m, r, f, a, i, v)
  <2>1. ~(j[b].seq <= f)
    BY <1>0, <1>3
  <2> QED
    BY <1>1, <2>1 DEF RecordIn
<1>7. MapOf(k, m, r, f, fm)
  BY <1>0, <1>1, <1>6, SameRecords
<1>8. StartFound(k, m, r, f)
  <2>1. SUFFICES ASSUME r < f
                 PROVE  /\ IsFrame(k, m, m.start) /\ k[m.start].seq <= f
                        /\ \A a \in Blocks :
                              IsFrame(k, m, a) /\ r < k[a].seq /\ k[a].seq < k[m.start].seq =>
                                 k[a].recs = <<>>
    BY DEF StartFound
  <2>2. /\ IsFrame(j, m, m.start) /\ j[m.start].seq <= f /\ m.start \in Blocks
        /\ \A a \in Blocks :
              IsFrame(j, m, a) /\ r < j[a].seq /\ j[a].seq < j[m.start].seq => j[a].recs = <<>>
    BY <1>0, <2>1 DEF StartFound, InOrder
  <2>3. IsFrame(k, m, m.start) /\ k[m.start].seq = j[m.start].seq /\ j[m.start].seq \in 1 .. e
    BY <1>0, <1>1, <2>2 DEF InSequence
  <2>4. ~(j[b].seq < j[m.start].seq)
    BY <1>0, <1>3, <2>3
  <2> QED
    BY <1>1, <2>2, <2>3, <2>4
<1> QED
  BY <1>1, <1>2, <1>4, <1>5, <1>7, <1>8 DEF InOrder

\* The open frame becomes the last frame of a committed transaction.
LEMMA CommitFrame ==
    ASSUME NEW j, NEW k, NEW m, NEW e, NEW cur, NEW r, NEW f, NEW mark, NEW sp, NEW fm,
           InOrder(j, m, e, cur, r, f, mark, sp, fm), r < f => mark = "flushed", NEW b, NEW x,
           WroteAgain(j, k, m, b, x), j[b].type = "open", Ends(x, b, cur), x.type = "flushed",
           NEW gm, MapOf(k, m, r, e, gm), r < e,
           IsFrame(j, m, m.start),
           \A a \in Blocks : IsFrame(j, m, a) /\ r < j[a].seq /\ j[a].seq < j[m.start].seq =>
                                j[a].recs = <<>>
    PROVE  InOrder(k, m, e, cur, r, e, "flushed", sp, gm)
<1>0. /\ cur \in 2 .. FileSize /\ e \in Nat /\ r \in 0 .. e /\ f \in r .. e /\ Formed(j)
      /\ InSequence(j, m, e, cur) /\ Marked(j, m, r, f, mark) /\ Signed(j, m, r, sp)
      /\ m.start \in Blocks
  BY DEF InOrder
<1>1. /\ Formed(k) /\ b \in Blocks /\ IsFrame(j, m, b) /\ k[b] = x
      /\ \A a \in Blocks : /\ IsFrame(k, m, a) <=> IsFrame(j, m, a)
                           /\ IsFrame(j, m, a) => k[a].seq = j[a].seq /\ k[a].space = j[a].space
                           /\ a # b => k[a] = j[a]
  BY <1>0, FramesStay
<1>2. InSequence(k, m, e, cur)
  BY <1>0, SequenceStays
<1>3. j[b].seq = e
  BY <1>0, <1>1 DEF InSequence
<1>4. Marked(k, m, r, e, "flushed")
  <2>1. ASSUME NEW a \in Blocks, IsFrame(k, m, a) PROVE MarkFits(k[a], r, e, "flushed")
    <3>1. CASE a = b
      <4>1. k[a].seq = e /\ k[a].type = "flushed"
        BY <1>1, <1>3, <3>1
      <4> QED
        BY <1>0, <4>1 DEF MarkFits
    <3>2. CASE a # b
      <4>1. IsFrame(j, m, a) /\ k[a] = j[a]
        BY <1>1, <2>1, <3>2
      <4>2. j[a].seq \in 1 .. e
        BY <1>0, <4>1 DEF InSequence
      <4>3. j[a].seq # e
        BY <1>0, <1>1, <1>3, <3>2, <4>1, SeqOnce
      <4>4. j[a].type # "open"
        BY <1>0, <4>1, <4>3 DEF InSequence
      <4>5. MarkFits(j[a], r, f, mark)
        BY <1>0, <4>1 DEF Marked
      <4> QED
        BY <1>0, <4>1, <4>2, <4>3, <4>4, <4>5 DEF MarkFits
    <3> QED
      BY <3>1, <3>2
  <2> QED
    BY <2>1 DEF Marked
<1>5. Signed(k, m, r, sp)
  <2>1. j[b].type = "open" /\ ~EndsSegment(j, b)
    BY DEF EndsSegment
  <2> QED
    BY <1>0, <1>1, <2>1 DEF Signed, EndsSegment
<1>6. StartFound(k, m, r, e)
  <2>1. IsFrame(k, m, m.start) /\ k[m.start].seq = j[m.start].seq /\ j[m.start].seq \in 1 .. e
    BY <1>0, <1>1 DEF InSequence
  <2>2. ~(j[b].seq < j[m.start].seq)
    BY <1>0, <1>3, <2>1
  <2>3. ASSUME NEW a \in Blocks, IsFrame(k, m, a), r < k[a].seq, k[a].seq < k[m.start].seq
        PROVE  k[a].recs = <<>>
    BY <1>1, <2>1, <2>2, <2>3
  <2>4. k[m.start].seq <= e
    BY <1>0, <2>1
  <2> QED
    BY <2>1, <2>3, <2>4 DEF StartFound
<1> QED
  BY <1>0, <1>1, <1>2, <1>4, <1>5, <1>6 DEF InOrder

\* The last committed frame is marked: its blocks are being copied to the volume.
LEMMA MarkRestoring ==
    ASSUME NEW j, NEW k, NEW m, NEW e, NEW cur, NEW r, NEW f, NEW mark, NEW sp, NEW fm,
           InOrder(j, m, e, cur, r, f, mark, sp, fm), r < f, NEW b, NEW x,
           WroteAgain(j, k, m, b, x), j[b].seq = f, x.recs = j[b].recs, x.type = "restoring"
    PROVE  InOrder(k, m, e, cur, r, f, "restoring", sp, fm)
<1>0. /\ cur \in 2 .. FileSize /\ e \in Nat /\ r \in 0 .. e /\ f \in r .. e /\ Formed(j)
      /\ InSequence(j, m, e, cur) /\ Marked(j, m, r, f, mark) /\ Signed(j, m, r, sp)
      /\ MapOf(j, m, r, f, fm) /\ StartFound(j, m, r, f)
      /\ mark \in {"flushed", "restoring"} /\ m.start \in Blocks
  BY DEF InOrder
<1>1. /\ Formed(k) /\ b \in Blocks /\ IsFrame(j, m, b) /\ k[b] = x
      /\ \A a \in Blocks : /\ IsFrame(k, m, a) <=> IsFrame(j, m, a)
                           /\ IsFrame(j, m, a) => k[a].seq = j[a].seq /\ k[a].space = j[a].space
                           /\ a # b => k[a] = j[a]
  BY <1>0, FramesStay
<1>2. j[b].type = mark
  BY <1>0, <1>1 DEF Marked, MarkFits
<1>3. InSequence(k, m, e, cur)
  BY <1>0, <1>2, SequenceStays
<1>4. \A a \in Blocks : IsFrame(j, m, a) => k[a].recs = j[a].recs
  BY <1>1
<1>5. Marked(k, m, r, f, "restoring")
  <2>1. ASSUME NEW a \in Blocks, IsFrame(k, m, a) PROVE MarkFits(k[a], r, f, "restoring")
    <3>1. CASE a = b
      <4>1. k[a].seq = f /\ k[a].type = "restoring"
        BY <1>1, <3>1
      <4> QED
        BY <1>0, <4>1 DEF MarkFits
    <3>2. CASE a # b
      <4>1. IsFrame(j, m, a) /\ k[a] = j[a]
        BY <1>1, <2>1, <3>2
      <4>2. j[a].seq # f
        BY <1>0, <1>1, <3>2, <4>1, SeqOnce
      <4>3. MarkFits(j[a], r, f, mark)
        BY <1>0, <4>1 DEF Marked
      <4> QED
        BY <4>1, <4>2, <4>3 DEF MarkFits
    <3> QED
      BY <3>1, <3>2
  <2> QED
    BY <2>1 DEF Marked
<1>6. Signed(k, m, r, sp)
  <2>1. \A a \in Blocks : IsFrame(j, m, a) => (~EndsSegment(k, a) => ~EndsSegment(j, a))
    BY <1>1 DEF EndsSegment
  <2> QED
    BY <1>0, <1>1, <2>1 DEF Signed
<1>7. MapOf(k, m, r, f, fm)
  <2>1. \A a \in Blocks, i \in 1 .. FrameMax : \A v :
           RecordIn(k, m, r, f, a, i, v) <=> RecordIn(j, m, r, f, a, i, v)
    BY <1>1, <1>4 DEF RecordIn
  <2> QED
    BY <1>0, <1>1, <2>1, SameRecords
<1>8. StartFound(k, m, r, f)
  BY <1>0, <1>1, <1>4 DEF StartFound
<1> QED
  BY <1>0, <1>1, <1>3, <1>5, <1>6, <1>7, <1>8 DEF InOrder

\* It is marked again when all of them are there: nothing is left to restore.
LEMMA MarkRestored ==
    ASSUME NEW j, NEW k, NEW m, NEW e, NEW cur, NEW r, NEW f, NEW mark, NEW sp, NEW fm,
           InOrder(j, m, e, cur, r, f, mark, sp, fm), r < f, NEW b, NEW x,
           WroteAgain(j, k, m, b, x), j[b].seq = f, x.recs = j[b].recs, x.type = "restored"
    PROVE  InOrder(k, m, e, cur, f, f, "flushed", sp, NoMap)
<1>0. /\ cur \in 2 .. FileSize /\ e \in Nat /\ r \in 0 .. e /\ f \in r .. e /\ Formed(j)
      /\ InSequence(j, m, e, cur) /\ Marked(j, m, r, f, mark) /\ Signed(j, m, r, sp)
      /\ mark \in {"flushed", "restoring"} /\ m.start \in Blocks
  BY DEF InOrder
<1>1. /\ Formed(k) /\ b \in Blocks /\ IsFrame(j, m, b) /\ k[b] = x
      /\ \A a \in Blocks : /\ IsFrame(k, m, a) <=> IsFrame(j, m, a)
                           /\ IsFrame(j, m, a) => k[a].seq = j[a].seq /\ k[a].space = j[a].space
                           /\ a # b => k[a] = j[a]
  BY <1>0, FramesStay
<1>2. j[b].type = mark
  BY <1>0, <1>1 DEF Marked, MarkFits
<1>3. InSequence(k, m, e, cur)
  BY <1>0, <1>2, SequenceStays
<1>4. Marked(k, m, f, f, "flushed")
  <2>1. ASSUME NEW a \in Blocks, IsFrame(k, m, a) PROVE MarkFits(k[a], f, f, "flushed")
    <3>1. CASE a = b
      <4>1. k[a].seq = f /\ k[a].type = "restored"
        BY <1>1, <3>1
      <4> QED
        BY <1>0, <4>1 DEF MarkFits
    <3>2. CASE a # b
      <4>1. IsFrame(j, m, a) /\ k[a] = j[a]
        BY <1>1, <2>1, <3>2
      <4>2. j[a].seq # f
        BY <1>0, <1>1, <3>2, <4>1, SeqOnce
      <4>3. MarkFits(j[a], r, f, mark) /\ j[a].seq \in 1 .. e
        BY <1>0, <4>1 DEF Marked, InSequence
      <4> QED
        BY <1>0, <4>1, <4>2, <4>3 DEF MarkFits
    <3> QED
      BY <3>1, <3>2
  <2> QED
    BY <2>1 DEF Marked
<1>5. Signed(k, m, f, sp)
  <2>1. \A a \in Blocks : IsFrame(j, m, a) => (~EndsSegment(k, a) => ~EndsSegment(j, a))
    BY <1>1 DEF EndsSegment
  <2>2. \A a \in Blocks : IsFrame(j, m, a) => (f < j[a].seq => r < j[a].seq)
    BY <1>0 DEF InSequence
  <2> QED
    BY <1>0, <1>1, <2>1, <2>2 DEF Signed
<1>6. MapOf(k, m, f, f, NoMap)
  <2>1. \A a \in Blocks : IsFrame(k, m, a) => ~(f < k[a].seq /\ k[a].seq <= f)
    BY <1>0, <1>1 DEF InSequence
  <2> QED
    BY <2>1 DEF MapOf, RecordIn, NoMap
<1>7. StartFound(k, m, f, f)
  BY <1>0 DEF StartFound
<1> QED
  BY <1>0, <1>1, <1>3, <1>4, <1>5, <1>6, <1>7 DEF InOrder

\* The start record moves to another frame that is early enough.
LEMMA StartMoves ==
    ASSUME NEW j, NEW m, NEW n, NEW e, NEW cur, NEW r, NEW f, NEW mark, NEW sp, NEW fm,
           InOrder(j, m, e, cur, r, f, mark, sp, fm),
           n.session = m.session, n.start \in Blocks, StartFound(j, n, r, f)
    PROVE  InOrder(j, n, e, cur, r, f, mark, sp, fm)
<1>1. \A b : IsFrame(j, n, b) <=> IsFrame(j, m, b)
  BY DEF IsFrame
<1>2. InSequence(j, n, e, cur)
  BY <1>1 DEF InSequence, InOrder
<1>3. Marked(j, n, r, f, mark) /\ Signed(j, n, r, sp)
  BY <1>1 DEF Marked, Signed, InOrder
<1>4. MapOf(j, n, r, f, fm)
  <2>1. \A b, i, v : RecordIn(j, n, r, f, b, i, v) <=> RecordIn(j, m, r, f, b, i, v)
    BY <1>1 DEF RecordIn
  <2>2. MapOf(j, m, r, f, fm)
    BY DEF InOrder
  <2> QED
    BY <2>1, <2>2 DEF MapOf
<1> QED
  BY <1>2, <1>3, <1>4 DEF InOrder

\* A session that has no frames yet.
LEMMA NoFrames ==
    ASSUME NEW j, NEW m, NEW sp, Formed(j), m.start \in Blocks,
           \A b \in Blocks : ~IsFrame(j, m, b)
    PROVE  InOrder(j, m, 0, FileSize, 0, 0, "flushed", sp, NoMap)
<1>1. FileSize \in 2 .. FileSize /\ 0 \in Nat /\ 0 \in 0 .. 0 /\ ~(0 < 0)
  BY RingAssumption
<1>2. InSequence(j, m, 0, FileSize) /\ Marked(j, m, 0, 0, "flushed") /\ Signed(j, m, 0, sp)
  BY DEF InSequence, Marked, Signed
<1>3. MapOf(j, m, 0, 0, NoMap)
  BY DEF MapOf, RecordIn, NoMap
<1>4. StartFound(j, m, 0, 0)
  BY <1>1 DEF StartFound
<1> QED
  BY <1>1, <1>2, <1>3, <1>4 DEF InOrder

\* When everything is restored a new segment begins, with its own signature.
LEMMA NewSegment ==
    ASSUME NEW j, NEW m, NEW e, NEW cur, NEW f, NEW mark, NEW sp, NEW fm,
           InOrder(j, m, e, cur, e, f, mark, sp, fm), NEW sp2
    PROVE  InOrder(j, m, e, cur, e, f, mark, sp2, fm)
<1>1. \A b \in Blocks : IsFrame(j, m, b) => ~(e < j[b].seq)
  BY DEF InOrder, InSequence
<1> QED
  BY <1>1 DEF InOrder, Signed

\* With nothing left to restore neither the mark nor the map matters.
LEMMA NothingCommitted ==
    ASSUME NEW j, NEW m, NEW e, NEW cur, NEW r, NEW mark, NEW sp, NEW fm,
           InOrder(j, m, e, cur, r, r, mark, sp, fm), NEW mark2 \in {"flushed", "restoring"}
    PROVE  /\ InOrder(j, m, e, cur, r, r, mark2, sp, fm)
           /\ \A v \in Volume : fm[v] = 0
<1>1. r \in Int /\ ~(r < r)
  BY DEF InOrder
<1>2. \A b \in Blocks : IsFrame(j, m, b) => j[b].seq \in Int /\ ~(r < j[b].seq /\ j[b].seq <= r)
  BY <1>1 DEF InOrder, InSequence
<1>3. \A v \in Volume : fm[v] = 0
  BY <1>2 DEF InOrder, MapOf, RecordIn
<1>4. Marked(j, m, r, r, mark2)
  BY <1>1 DEF InOrder, Marked, MarkFits
<1> QED
  BY <1>3, <1>4 DEF InOrder
=============================================================================
