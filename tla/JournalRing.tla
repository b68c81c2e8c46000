----------------------------- MODULE JournalRing -----------------------------
(***************************************************************************)
(* Space management of the Failsafe journal file                           *)
(* (rtfsfailsafe/prfsjournal.c, rtfsfailsafe/prfsrestore.c).               *)
(*                                                                         *)
(* Block 0 of the file is the master block; blocks 1 .. FileSize-1 are     *)
(* used as a ring.  A frame is one header block followed by replacement    *)
(* blocks.  A session is filled (open), committed (flushed), copied to the *)
(* volume (restoring) and its blocks then go back to the free count.       *)
(* Nothing in the code marks a block free or used: it only keeps the       *)
(* cursor next_free_frame and the counter frames_free, and a block is safe *)
(* from being overwritten only as long as those two are right.             *)
(*                                                                         *)
(* Block contents are the business of module FsJournal, which extends      *)
(* this one.                                                               *)
(***************************************************************************)
EXTENDS Integers

CONSTANTS
    FileSize,     \* pfscntxt->journal_file_size, in blocks
    FrameMax,     \* pfscntxt->fs_frame_max_records
    BufSectors,   \* pfscntxt->user_index_buffer_size_sectors
    AsyncRestore  \* INCLUDE_ASYNCRONOUS_API: writes may come between the
                  \* passes of a restore; otherwise a commit runs them all

\* A journal holds at least a master, a header and a block; a buffered
\* journal (more than two sectors) has room for the master, a header and data.
ASSUME RingAssumption ==
    /\ FileSize \in Nat /\ FileSize >= 3
    /\ FrameMax \in Nat /\ FrameMax >= 1
    /\ BufSectors \in Nat /\ BufSectors >= 1
    /\ AsyncRestore \in BOOLEAN

VARIABLES
    next_free_frame,        \* where the next header or block will go
    frames_free,            \* how many blocks may still be taken
    wrapped,                \* wrap_counter # 0
    session_start_record,   \* copy of the start record kept in the master
    open_start_record,      \* first frame of the session being filled, 0: none
    open_current_frame,     \* header of the frame being filled, 0: none
    open_current_used,
    open_current_free,
    open_remapped,          \* open_remapped_blocks # 0
    flushed_start_record,   \* first and last frame and last block of what is
    flushed_terminal_record,\* committed and waits for a restore, 0: none
    flushed_last_block,
    restoring_start_record, \* the same for what is being restored
    restoring_terminal_record,
    restoring_last_block,
    \* Auxiliary: which part of the session each block belongs to, and the
    \* blocks the last step started to use.  The code keeps neither.
    holds,
    written

cursors == <<next_free_frame, frames_free, wrapped, session_start_record>>
openVars == <<open_start_record, open_current_frame, open_current_used,
              open_current_free, open_remapped>>
flushedVars == <<flushed_start_record, flushed_terminal_record, flushed_last_block>>
restoringVars == <<restoring_start_record, restoring_terminal_record,
                   restoring_last_block>>
ringVars == <<cursors, openVars, flushedVars, restoringVars, holds, written>>

Blocks == 1 .. FileSize - 1

\* "null": the empty frame that fills the last block of the file.
\* "lost": blocks that stay charged to the session but belong to no region.
Labels == {"free", "open", "flushed", "restoring", "null", "lost"}
Live == {"open", "flushed", "restoring"}

-----------------------------------------------------------------------------
(* fs_file_open_new_frame, fs_journal_alloc_replacement_blocks: arithmetic *)

BlocksToEnd == IF next_free_frame >= FileSize THEN 0 ELSE FileSize - next_free_frame

\* The last block of the file cannot hold a frame: it gets an empty one.
NeedsNullFrame == BlocksToEnd = 1
FreeAfterNull == IF NeedsNullFrame THEN frames_free - 1 ELSE frames_free
NullBlocks == IF NeedsNullFrame THEN {next_free_frame} ELSE {}

Wraps == BlocksToEnd <= 1
NewFrame == IF Wraps THEN 1 ELSE next_free_frame
Room == IF Wraps THEN FreeAfterNull ELSE BlocksToEnd

\* In buffered mode a frame is also limited by the buffer, which the first
\* frame shares with the master block.
FrameLimit(first) ==
    IF BufSectors > 2
    THEN LET fits == BufSectors - (IF first THEN 2 ELSE 1)
         IN  IF fits > FrameMax THEN FrameMax ELSE fits
    ELSE FrameMax

\* Variant: the header does not take a block of the room.
FreeInNewFrameNoHeader(room, first) ==
    IF room > FrameLimit(first) THEN FrameLimit(first) ELSE room

FreeInNewFrame(room, first) ==
    IF room > FrameLimit(first) THEN FrameLimit(first) ELSE room - 1

OpenFrameFails == frames_free < 2 \/ FreeAfterNull < 2

RoomInNewFrame == FreeInNewFrame(Room, FALSE)
StartWithNewFrame == IF open_start_record = 0 THEN NewFrame ELSE open_start_record

\* Variant: a frame that ends on the start record is thought to miss it.
ReachesSessionStartStrictly ==
    NewFrame <= session_start_record /\ NewFrame + RoomInNewFrame > session_start_record

\* The new frame may reach the frame the master points at: the start record
\* moves on to the oldest frame that is still needed.
ReachesSessionStart ==
    NewFrame <= session_start_record /\ NewFrame + RoomInNewFrame >= session_start_record

SessionStartNow ==
    IF restoring_start_record # 0 THEN restoring_start_record
    ELSE IF flushed_start_record # 0 THEN flushed_start_record
    ELSE StartWithNewFrame

\* Variant: the master block is counted in a region that wraps.
RegionSizeWithMaster(first, last) ==
    IF last >= first THEN 1 + last - first ELSE (FileSize - first) + last + 1

\* fs_restore_from_session_complete: blocks from frame first to block last.
RegionSize(first, last) ==
    IF last >= first THEN 1 + last - first ELSE (FileSize - first) + last

-----------------------------------------------------------------------------

(* fs_failsafe_start_journaling: also what a restart leads to.  The first  *)
(* frame is opened right away.                                             *)
FirstFree == FreeInNewFrame(FileSize - 1, TRUE)

RingInit ==
    /\ next_free_frame = 2 /\ frames_free = FileSize - 2
    /\ wrapped = FALSE
    /\ session_start_record = 1
    /\ open_start_record = 1 /\ open_current_frame = 1
    /\ open_current_used = 0 /\ open_current_free = FirstFree
    /\ open_remapped = FALSE
    /\ flushed_start_record = 0 /\ flushed_terminal_record = 0
    /\ flushed_last_block = 0
    /\ restoring_start_record = 0 /\ restoring_terminal_record = 0
    /\ restoring_last_block = 0
    /\ holds = [b \in Blocks |-> IF b = 1 THEN "open" ELSE "free"]
    /\ written = {}

StartJournaling ==
    /\ next_free_frame' = 2 /\ frames_free' = FileSize - 2
    /\ wrapped' = FALSE
    /\ session_start_record' = 1
    /\ open_start_record' = 1 /\ open_current_frame' = 1
    /\ open_current_used' = 0 /\ open_current_free' = FirstFree
    /\ open_remapped' = FALSE
    /\ flushed_start_record' = 0 /\ flushed_terminal_record' = 0
    /\ flushed_last_block' = 0
    /\ restoring_start_record' = 0 /\ restoring_terminal_record' = 0
    /\ restoring_last_block' = 0
    /\ holds' = [b \in Blocks |-> IF b = 1 THEN "open" ELSE "free"]
    /\ written' = {}

\* fs_journal_alloc_replacement_blocks, in the frame that is open.  A request
\* that frames_free cannot meet fails and changes nothing.
AllocInFrame(n) ==
    /\ n \in 1 .. open_current_free
    /\ n <= frames_free
    /\ open_current_used' = open_current_used + n
    /\ open_current_free' = open_current_free - n
    /\ open_remapped' = TRUE
    /\ frames_free' = frames_free - n
    /\ next_free_frame' = next_free_frame + n
    /\ written' = next_free_frame .. next_free_frame + n - 1
    /\ holds' = [b \in Blocks |-> IF b \in written' THEN "open" ELSE holds[b]]
    /\ UNCHANGED <<wrapped, session_start_record, open_start_record, open_current_frame,
                   flushedVars, restoringVars>>

\* The frame is full: close it, open the next one and take n blocks of it.
\* n = 0 is the request that finds its new frame but not enough free blocks:
\* it fails and leaves the frame open and empty.
AllocInNewFrame(n) ==
    /\ open_current_free = 0
    /\ ~OpenFrameFails
    /\ n \in 0 .. RoomInNewFrame
    /\ IF n = 0 THEN FreeAfterNull - 1 < RoomInNewFrame ELSE n <= FreeAfterNull - 1
    /\ open_start_record' = StartWithNewFrame
    /\ wrapped' = (wrapped \/ Wraps)
    /\ session_start_record' = IF wrapped' /\ ReachesSessionStart
                               THEN SessionStartNow ELSE session_start_record
    /\ open_current_frame' = NewFrame
    /\ open_current_used' = n
    /\ open_current_free' = RoomInNewFrame - n
    /\ open_remapped' = (open_remapped \/ n > 0)
    /\ next_free_frame' = NewFrame + 1 + n
    /\ frames_free' = FreeAfterNull - 1 - n
    /\ written' = NullBlocks \union (NewFrame .. NewFrame + n)
    /\ holds' = [b \in Blocks |-> IF b \in NullBlocks THEN "null"
                                  ELSE IF b \in written' THEN "open" ELSE holds[b]]
    /\ UNCHANGED <<flushedVars, restoringVars>>

\* PEFSJOURNALFULL out of fs_file_open_new_frame, label full_journal.  The
\* empty frame at the end of the file may already have been charged.
JournalFull ==
    /\ open_current_free = 0
    /\ OpenFrameFails
    /\ open_current_frame' = 0
    /\ open_remapped' = FALSE
    /\ IF frames_free >= 2
       THEN /\ frames_free' = FreeAfterNull
            /\ written' = NullBlocks
            /\ holds' = [b \in Blocks |-> IF b \in written' THEN "null" ELSE holds[b]]
       ELSE /\ written' = {}
            /\ UNCHANGED <<frames_free, holds>>
    /\ UNCHANGED <<next_free_frame, wrapped, session_start_record, open_start_record,
                   open_current_used, open_current_free, flushedVars, restoringVars>>

\* A synchronous commit holds the drive until its restore is over.
MayWrite == AsyncRestore \/ restoring_start_record = 0

Alloc ==
    /\ MayWrite
    /\ \/ \E n \in 0 .. FileSize : AllocInFrame(n) \/ AllocInNewFrame(n)
       \/ JournalFull

-----------------------------------------------------------------------------
(* fs_flush_current_session *)

FlushStart == IF flushed_start_record = 0 THEN open_start_record ELSE flushed_start_record

Flush ==
    /\ open_remapped
    /\ flushed_start_record' = FlushStart
    /\ flushed_terminal_record' = open_current_frame
    /\ flushed_last_block' = open_current_frame + open_current_used
    /\ open_current_frame' = 0 /\ open_current_used' = 0 /\ open_current_free' = 0
    /\ open_remapped' = FALSE
    /\ holds' = [b \in Blocks |-> IF holds[b] = "open" THEN "flushed" ELSE holds[b]]
    /\ written' = {}
    /\ UNCHANGED <<cursors, open_start_record, restoringVars>>

-----------------------------------------------------------------------------
(* fs_restore_from_session_start and its end.  A restore is started by a   *)
(* commit, which flushes first (_fs_api_async_commit_continue,             *)
(* fs_flush_internal) and first runs a restore that is under way to its    *)
(* end.                                                                    *)

RestoreStart ==
    /\ restoring_start_record = 0
    /\ IF open_remapped
       THEN /\ restoring_start_record' = FlushStart
            /\ restoring_terminal_record' = open_current_frame
            /\ restoring_last_block' = open_current_frame + open_current_used
       ELSE /\ flushed_start_record # 0 /\ flushed_terminal_record # 0
            /\ restoring_start_record' = flushed_start_record
            /\ restoring_terminal_record' = flushed_terminal_record
            /\ restoring_last_block' = flushed_last_block
    \* fs_clear_session_vars
    /\ open_start_record' = 0 /\ open_current_frame' = 0
    /\ open_current_used' = 0 /\ open_current_free' = 0
    /\ open_remapped' = FALSE
    /\ flushed_start_record' = 0 /\ flushed_terminal_record' = 0
    /\ flushed_last_block' = 0
    /\ holds' = [b \in Blocks |->
                   CASE holds[b] = "flushed" -> "restoring"
                     [] holds[b] = "open" -> IF open_remapped THEN "restoring" ELSE "lost"
                     [] OTHER -> holds[b]]
    /\ written' = {}
    /\ UNCHANGED cursors

\* Variant: the restoring session is not forgotten.
RestoreCompleteKeepsStart ==
    /\ restoring_start_record # 0
    /\ frames_free' = frames_free + RegionSize(restoring_start_record, restoring_last_block)
    /\ holds' = [b \in Blocks |-> IF holds[b] = "restoring" THEN "free" ELSE holds[b]]
    /\ written' = {}
    /\ UNCHANGED <<next_free_frame, wrapped, session_start_record, restoringVars,
                   openVars, flushedVars>>

\* fs_restore_from_session_complete, then the clean-up of ..._continue.
RestoreComplete ==
    /\ restoring_start_record # 0
    /\ frames_free' = frames_free + RegionSize(restoring_start_record, restoring_last_block)
    /\ restoring_start_record' = 0 /\ restoring_terminal_record' = 0
    /\ holds' = [b \in Blocks |-> IF holds[b] = "restoring" THEN "free" ELSE holds[b]]
    /\ written' = {}
    /\ UNCHANGED <<next_free_frame, wrapped, session_start_record, restoring_last_block,
                   openVars, flushedVars>>

\* fs_restore_from_session_continue after an I/O error.
RestoreFails ==
    /\ restoring_start_record # 0
    /\ restoring_start_record' = 0 /\ restoring_terminal_record' = 0
    /\ holds' = [b \in Blocks |-> IF holds[b] = "restoring" THEN "lost" ELSE holds[b]]
    /\ written' = {}
    /\ UNCHANGED <<cursors, restoring_last_block, openVars, flushedVars>>

RingNext ==
    \/ StartJournaling
    \/ Alloc
    \/ Flush
    \/ RestoreStart \/ RestoreComplete \/ RestoreFails

RingSpec == RingInit /\ [][RingNext]_ringVars

-----------------------------------------------------------------------------
(* Properties *)

CountersOK ==
    /\ next_free_frame \in 2 .. FileSize
    /\ frames_free \in 0 .. FileSize - 1
    /\ session_start_record \in 1 .. FileSize - 1
    /\ open_start_record \in 0 .. FileSize - 1
    /\ open_current_frame \in 0 .. FileSize - 1
    /\ open_current_used \in 0 .. FileSize - 2
    /\ open_current_free \in 0 .. FileSize - 2
    /\ flushed_start_record \in 0 .. FileSize - 1
    /\ flushed_terminal_record \in 0 .. FileSize - 1
    /\ flushed_last_block \in 0 .. FileSize - 1
    /\ restoring_start_record \in 0 .. FileSize - 1
    /\ restoring_terminal_record \in 0 .. FileSize - 1
    /\ restoring_last_block \in 0 .. FileSize - 1

\* Every counter stays in the file: dword arithmetic never goes below zero,
\* and no record number leaves the file.
RingTypeOK ==
    /\ CountersOK
    /\ wrapped \in BOOLEAN /\ open_remapped \in BOOLEAN
    /\ holds \in [Blocks -> Labels] /\ written \in SUBSET Blocks

\* How far a cursor has to go, around the ring, to reach block b.
RingDistance(cursor, b) == IF b >= cursor THEN b - cursor ELSE (FileSize - cursor) + (b - 1)
Distance(b) == RingDistance(next_free_frame, b)

\* No allocation ever lands on a block of a session that is still being
\* filled, waits for its restore or is being restored: whatever sequence of
\* writes, commits, restores, failed restores and journal-full errors went
\* before, fs_journal_alloc_replacement_blocks and fs_file_open_new_frame
\* hand out dead blocks only.
NoLiveOverwrite == [][\A b \in written' : holds[b] \notin Live]_ringVars

\* The counter never promises more than there is: the next frames_free blocks
\* the cursor will run over are all dead.  (A counter that is too large, for
\* instance after a restore that returns the wrong number of blocks, shows as
\* damage only a whole turn of the ring later.)
FreeRunIsDead == \A b \in Blocks : Distance(b) < frames_free => holds[b] \notin Live

\* What makes the two properties above inductive.  Going round the ring from
\* the cursor one meets frames_free blocks, then the region being restored,
\* then everything filled since (FilledFrom on); what the restore will give
\* back fits in front of that.
FilledFrom == IF flushed_start_record # 0 THEN flushed_start_record ELSE open_start_record
Held == IF restoring_start_record = 0 THEN 0
        ELSE RegionSize(restoring_start_record, restoring_last_block)

OpenFrameFits ==
    /\ IF open_current_frame = 0 THEN open_current_free = 0 /\ ~open_remapped
       ELSE /\ open_start_record # 0
            /\ next_free_frame = open_current_frame + 1 + open_current_used
            /\ next_free_frame + open_current_free <= FileSize
    /\ restoring_start_record # 0 => restoring_last_block # 0

Accounting ==
    /\ FilledFrom = 0 => frames_free + Held <= FileSize - 1
    /\ FilledFrom # 0 => frames_free + Held <= Distance(FilledFrom)

RegionsInOrder ==
    /\ \A b \in Blocks : holds[b] \in {"open", "flushed"} =>
           FilledFrom # 0 /\ Distance(b) >= Distance(FilledFrom)
    /\ \A b \in Blocks : holds[b] = "restoring" =>
           restoring_start_record # 0 /\ Distance(b) >= frames_free
    /\ flushed_start_record # 0 =>
           flushed_last_block # 0 /\ Distance(flushed_last_block) >= Distance(flushed_start_record)

\* The blocks that are in use come, in ring order, after the blocks that are
\* free: the inductive invariant behind FreeRunIsDead and NoLiveOverwrite.
RingInv == RingTypeOK /\ OpenFrameFits /\ Accounting /\ RegionsInOrder

\* The frame of the session a mount has to start reading from, oldest first.
OldestFrame ==
    IF restoring_start_record # 0 THEN restoring_start_record
    ELSE IF flushed_start_record # 0 THEN flushed_start_record
    ELSE open_start_record

\* The start record in the master stays usable: going round the ring from the
\* cursor it comes no later than the oldest live frame, so that a mount that
\* starts reading there meets every live frame.
SessionStartBeforeLive ==
    OldestFrame # 0 => Distance(session_start_record) <= Distance(OldestFrame)

\* What the comment in fs_file_open_new_frame says of the change of 10/01/2009
\* ("this was causing a drop in the apparent file size by one sector each time
\* the condition occured") and what the journal-wrap test relies on: a journal
\* with nothing in it has all its blocks back.  (It has not: the README has the
\* counterexample.)
IdleJournalIsEmpty ==
    (/\ \A b \in Blocks : holds[b] \notin Live \union {"lost"}
     /\ open_start_record = 0) => frames_free = FileSize - 1
=============================================================================
