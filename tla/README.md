# TLA+ models and proofs for RTFS

RTFS is a FAT and exFAT file system for embedded devices. This directory models, in
TLA+, the parts of it in which the order of events decides: the *Failsafe* journal
that keeps the FAT and the directories consistent over power failures, the
asynchronous engine that does the work of the calls in passes, the free manager and
the FAT buffers, extended files, the flash translation layer, and the mounting and
removal of media. TLC checks the models on small instances; TLAPS proves what matters
most of the journal, the block maps, the engine, the FAT buffers and the media for every size.

Abbreviations for the sources: J is `rtfsfailsafe/prfsjournal.c`, R
`rtfsfailsafe/prfsrestore.c`, N `rtfsfailsafe/prfsnvio.c`, E
`rtfspackages/rtfsproplus/prasyintrd.c`, L `rtfsdrivers/norflash/drflsftl.c`, D
`rtfscommon/source/drdynamic.c`, F `rtfspackages/rtfsproplus/prefinodewr.c`.

## 1. The system

| Component | State | Operations | Correct when |
|---|---|---|---|
| Journal file space (J, R) | `next_free_frame`, `frames_free`, `session_start_record`, first and last block of the open, flushed and restoring sessions | open, fill, close a frame; wrap; flush; start, complete, fail a restore | no allocation lands on a block that is still needed; the start record in the master leads a mount to every frame that is |
| Journal contents, commit, restore, recovery (J, R, N) | frames and replacement blocks on disk, master block, handle in FAT copy 2, FAT copies, maps in memory, free-space signature | write through, commit, restore in passes, mount and recover, crash | commits are atomic and lasting at every point of every sequence of disk writes |
| Block maps (J) | three sorted lists of extents, pool of map records, index buffer | multi-block write and read, flush of one list over another | the lists mean what the frames on file say; reads return the newest block |
| Freed clusters (J, `rtfscommon/source/rtfatdrv*.c`) | three lists of fragments, journal reservation, count of free clusters | allocate, free, commit, restore, fall back to a FAT search, shrink the journal | a cluster a crash may still need is not reused; none is lost or counted twice |
| Free manager (`rtfspro/rtfreemanager.c`) | fragments of free clusters hashed by cluster range, pool of fragments | claim, release, search, close when fragments run out | equals the free entries of the FAT, less what is reserved; a search answers as if there were no slots |
| FAT buffers (`rtfscommon/source/rtfblock*.c`, `rtfatdrv*.c`) | pages of FAT sectors, dirty bits, flags of the drive | map, change, swap out, flush at once or in passes, stream past the pool | the pool over the disk is the FAT; a flush that says complete has written everything |
| Asynchronous engine (E, `prapiasyrd.c`) | one state per drive, queue of files, needs and triggers | passes of mount, file flush, FAT flush, journal flush, restore; the calls that queue work | a flush never overtakes a restore; a commit leaves nothing behind; what was promised is done |
| Extended files (F, `prapiefi*.c`, `preficom*.c`) | list of fragments, reserved fragments, fragments to delete, file size | open, truncate, write, change size, reserve, flush, close, unlink | every cluster has one owner; what is flushed can be opened again; contents are kept |
| NOR flash translation layer (L) | sector map, counts, erase blocks with their states | write, collect a block, wear levelling, format, mount | a write is kept over a power failure; the map tells the flash |
| Mount, devices and media changes (D, `rtfscommon/source/apigfrst.c`, `rtdrobj*.c`) | media slots, drive structures, letters, mount status, semaphores, open files and searches | insert, eject, claim, mount, release, close | whoever uses a volume keeps it; a handle never goes on with another volume |
| Restore queue (R) | replacement records, transfer buffer | load in batches, sort, write FAT copies | every block is copied once, the newest version last |
| Failsafe API and mount strategy (`prfsapi.c`, `prfscb.c`, J) | context, enabled or not, user's answers | enable, disable, restore, status, auto-restore | no mount goes on over a journal it should have restored |
| Transaction files (`prfstrio.c`), circular files, block buffers, directory objects, file API, exFAT, drivers | see PROJECT.json | | |

How they interact. An application call first claims its drive (`MediaAccess`): it finds
the device and the structure behind a letter, takes the semaphore of the medium, looks
again, and mounts the volume if it is not mounted. Inside the call, block buffers and
FAT buffers (`FatPool`) read and write through `fsblock_devio_*` and `fsfat_devio_*`,
which ask the block maps where a block lives and the journal space for new blocks.
Clusters come from the free manager and go back to it, by way of the lists of freed
clusters while a journal is enabled. A commit (`fs_api_commit`, the auto-commit of a
call, or the engine) flushes the files and the buffers, closes the open frame as FLUSHED
and writes the handle, then starts a restore if the volume is to be synchronized. The
restore ends by returning journal blocks to `frames_free`, map records to the pool and
freed clusters to the free manager. A mount counts the free clusters, looks for the
journal, restores what it finds and mounts again. A removal frees the structures of a
medium, its mounts and the handles under them.

What is hard: a power failure between any two disk writes, also during recovery; calls
between the passes of an engine that keeps its place in flags; a ring without a marker in
its blocks, where one wrong count shows a whole turn later; signatures and start records
that are copied at one moment and compared at another; a medium that goes between the
look at a letter and the wait for its semaphore; requests that fail half way; lists taken
to be sorted. The list with lines is in PROJECT.json under `hazards`.

## 2. Modules

| Module | Role |
|---|---|
| `JournalRing`, `JournalRingProofs` | space management of the journal file, block contents left out; its theorems |
| `FsTxn` | abstract: what Failsafe promises an application |
| `FsJournal` | extends `JournalRing` with everything on disk and the maps; implements `FsTxn` |
| `FsJournalProofs` | its theorems about the ring and the maps in memory, and about what lies on the disk and a mount reads there |
| `FsCommitProofs` | its theorems about crashes: every disk write leaves a mount what was promised |
| `FsPromiseProofs` | that it implements `FsTxn` |
| `MapLayers` | abstract: the block maps as three functions |
| `BlockMap`, `BlockMapProofs` | the sorted lists of extents, multi-block requests, index buffer; implements `MapLayers`; its theorems |
| `FragmentLists` | sorted lists of cluster fragments, used by the next three |
| `FreeManager` | the slots of the free manager as operators |
| `FreedClusters` | freed clusters and reservation over the free manager, the search that replaces it |
| `FileContents` | abstract: what the files of a volume hold |
| `ExtendedFiles` | extended files over clusters, FAT and directory entries; implements `FileContents` |
| `FatPool`, `FatPoolProofs` | the pool of FAT pages over two FAT copies; its theorems |
| `AsyncEngine`, `AsyncEngineProofs` | the asynchronous engine and the calls between its passes; its theorems |
| `SectorDisk` | abstract: a disk of sectors whose writes are interrupted sector by sector |
| `FlashFtl` | the flash translation layer; implements `SectorDisk` |
| `MediaAccess`, `MediaAccessProofs` | devices, letters, semaphores, claims and handles; its theorems |
| `MC*` | the same modules for TLC |

### JournalRing

Variables have the names of the code's fields. Two are auxiliary: `holds` says to
which session each block belongs, `written` the blocks the last step began to
use; the code keeps neither, which is the point of the properties.

`AllocInFrame` and `AllocInNewFrame` are `fs_journal_alloc_replacement_blocks`
without and with a call of `fs_file_open_new_frame`; `JournalFull` is the error
path through the label `full_journal`, with the empty frame that may have been
written before it. `Flush` is `fs_flush_current_session`; `RestoreStart`,
`RestoreComplete` and `RestoreFails` are the ends of a restore;
`StartJournaling` is what a restart or a remount leads to.
`AsyncRestore` says whether writes may come between the passes of a restore (a
build with the asynchronous API) or a commit runs them all. `wrapped` stands for
`wrap_counter # 0`, the only use the code makes of that counter.

### FsJournal

A call changes memory at once and leaves its disk writes, one block each and in
the order of the code, in `io`. `DiskWrite` takes one to the medium; `Crash` may
come between any two. The medium is `journal`, `master`, `handle`, `volume` and
`fat2`. One block of the volume is the FAT; its contents is reduced to the number
of free clusters, because that is all a mount compares. Other blocks hold a bit.

A mount is a function of the disk first: `Chain`, `Restoring`, `Flushed`, `OutOfDate` and
`RangesOf` are what `fs_file_segment_info`, `fs_file_session_info` and
`fs_failsafe_autorestore` make of it, and `Recovered` is the volume that
comes out. Then it is a sequence of actions (`Mount`, `Recover`, `Remount`,
`BeginSession`) with disk writes of their own, which can be interrupted. The user
is taken to answer FS_CB_RESTORE, and to go on when the journal is out of date.

The refinement mapping to `FsTxn`: `visible` is what has been written (`view`),
`durable` is `Recovered`, the volume a mount would leave if the power failed now.
A single disk write has to change `Recovered` either not at all or from one
committed state to the next, and a crash during a recovery must not change it.

### BlockMap

A request is cut into steps as the loop of `fs_devio_write` cuts it: by the
extents of the open map, the room in the frame, the room in the buffer. `Insert`,
`Scan`, `Overlaps` and `Keepers` are the list operations of the code on a
sequence of extents; `MakeRoom` is one call of the recursion in
`fs_invalidate_flushed_blocks`, and `MoveExtent` follows when there is room for all. `index` is what the frames on file say of each
journal block, and `FileAgreesWithMaps` compares it with the flushed map, for blocks whose last write
succeeded and that have not been written since the flush.
`OpenLayer` and `FlushedLayer` are the mapping to `MapLayers`; during a flush the
open list counts as flushed, because nothing can look between its steps.

### FreeManager and FreedClusters

`FreeManager` keeps, per slot of the hash, a sorted list of fragments, and edits them as
`free_manager_claim_clusters` and `free_manager_release_clusters` do: a stretch of free
clusters that crosses a slot is two fragments, a release may need a fragment of the
pool, and the manager closes when there is none. Its pool is what the files leave;
`Revert` is a file that needs a fragment when the pool is empty. In `FreedClusters`,
`FindFirstFree`, `ExcludeFirstOccupied` and `FallbackFind` are the search of the FAT that
replaces the closed manager; the FAT is the set `in_use`. `on_volume`, `being_restored` and
`committed` are auxiliary: the clusters of the states a crash may bring back.

`FreeManagerAssumption` leaves out two kinds of volume on which the code is wrong
(section 6). The code has 32 slots (`RTFS_FREE_MANAGER_HASHSIZE`), the model `NSlots`.

### FatPool

The contents of a FAT sector is abstracted to which copies of it are not the latest: `stale`
for the two FATs on the disk, a field of that name in each buffer. `StreamStart`, `PutStart`
and `FlushStart` begin a job, whose steps are `MapHit`, `MapLoad`, `SwapOut`, `WriteRun`,
`AltRead`, `AltWrite` and those of the flush; the next job begins when it is over, and a flush
in passes is several jobs. `lru_counter` is kept as the order `older` it puts on the pages.
`failed` and `handed` are auxiliary: the sectors whose last write failed, and those the last
mapping gave to a reader although they were not the latest.

### AsyncEngine

`state` is `drive_async_state`, `once` and `needs` are the bits of the drive that start a
stage, `queue` is the list of files. `Begin` and `Reached` choose the next stage and end a
call; `FileStep`, `VolumeStep` and `MountPass` are one pass of a stage; `Request` is a call
of the application: the starts of an operation, `Commit`, `DiskFlush`, `Continue`,
`DiskClose`, `Mount`. What a pass does to the disk is reduced to counters of passes left
(`fat`, `work`, `restoring`, `scan`) and to what is open and flushed in the journal. An error
may come in every kind of pass (`Faults`, `MaxErrors`). `due` is auxiliary: where the changes
are that an asynchronous commit has promised.

### ExtendedFiles

A file is the list of fragments in memory, of which a part is reserved
(`PCE_` minimum allocations and `pc_efilio_setalloc`); clusters are taken at once, but links
in the FAT and the directory entry are written by a flush. Clusters a change of size cuts
off wait in `tofree`. `Seen` is the view of the run: it forgets the directory entry of a
dirty open file, which nothing reads before the flush writes it. The mapping to
`FileContents` says that a file may only lose a suffix, and only when asked to or for want
of space; what `KeepsContents` detects is thus a cluster that is misplaced, shared or lost.

### FlashFtl

An erase block has a header (state and erase count) and sectors with a number and
contents; `FlashStep` is one operation on the flash, so that a power failure may come
between any two. `kind` says up to which number erases are counted and whether the power fails. A write is the sequence of copies and collections the code makes. A mount
is the operator that scans the blocks and repairs what was interrupted, followed by its
flash operations. `recopied` is auxiliary: the mount that fails in section 6.

### MediaAccess

The driver's process inserts and ejects; each thread makes calls (`Calls`) on letters
(`Letters`), with the files it has opened and one directory search. `pc` of a process is its
place in the functions that claim a drive by name, by search or by file, and release it
again, in the eject, or in an insertion: `Insert` takes a slot, `Reserve` publishes the letters
of structures that have been cleared (D 1148-1193), `Attach` gives the first one the slot, through
which the partition table is read (D 271-281), `Bind` gives each partition its letter (D 315-323),
and `ReleaseExcess` takes the letters back that are left, all of them after an error. `installing`
are the letters that are published and not bound. An insertion owns no semaphore of its slot, so
calls fall between its steps; `early` is auxiliary and remembers that one has gone on with a letter
in `installing`. The waits are those for the semaphore of a medium and for
`rtfs_exclusive_semaphore`. `mounted` numbers the mounts. A search remembers
`drive_opencounter`, which is set at another moment of the mount and is how the code tells
one mount from the next; a file is told by its `pobj`, which the release of a volume clears.
`file_mount` and `search_mount` are auxiliary: the mount each was begun in.

## 3. Runs

| Run | Instance | Shows |
|---|---|---|
| `fs_sync` | synchronous restores; 5 journal blocks in free space, so with a handle, frames of 2; files created, two free clusters (154,106 states) | `CommitGuarantee`, `CommitsAtomically` (`FsTxn`), `FlushedIsRead`, `SessionStartBeforeLive`, `NoLiveOverwrite`, `FatCopiesAgree` with crashes anywhere; `RestoreEnds` and `MountEnds` under fairness |
| `fs_async` | writes during a restore; 5 journal blocks in reserved sectors, frames of 2; files created and deleted, journal full (742,632) | `ReadsLatest`, `FreeSpaceIsSafe`, `NothingLeftToRestore`, `RingInv` |
| `block_lists` | 4 volume blocks, 8 journal blocks, 4 map records, with and without a buffer, 3 requests (128,585) | `ListsInOrder`, `BlockReadsLatest`, `FileAgreesWithMaps`, `ImplementsLayers`, also when requests fail half way |
| `freed` | 5 clusters in 4 slots, 3 fragments, journal in 2 clusters (228,487) | `FreeSpaceAccounted`, `SearchIgnoresSlots`, `ManagerReusesSynchronizedOnly`, `JournalSpaceIsSafe` |
| `fat_pool` | 9 FAT sectors in pages of 4, 2 buffers, one error (104,220) | `PoolOverDiskIsTheFat`, `ReadersGetTheLatest`, `CompleteMeansWritten`, `DirtyIsAccounted` |
| `efile` | 2 files with different policies, 3 clusters of 2 bytes, one cluster a pass (324,235) | `ClustersAccounted`, `CleanFileIsOnVolume`, `KeepsContents` (`FileContents`) |
| `engine` | 2 files, 2 passes each, 3 requests, one error of any kind (104,813) | `QueueIsTheAsyncFiles`, `NoFlushBesideRestore`, `CommitLeavesNothing`; `PromisesAreKept`, `QueuedFilesFinish`, `EngineReturns` under fairness |
| `flash` | 3 erase blocks of 2 sectors, with equal erase counts and power failures, or with counts up to 3 and none (149,320) | `MapTellsTheFlash`, `AvailCountIsRight`, `IsADevice` (`SectorDisk`); `WriteEnds` under fairness |
| `media` | a card with one or two volumes, 2 slots, letters and structures, 2 threads, 2 mounts, each step of an insertion (438,218) | `VolumeStaysWhileUsed`, `HandlesStayOnTheirVolume`; `RemovalsEnd` under fairness |
| `fs_delete` | violation of `CommitGuarantee` | see section 6 |
| `flash_recovery` | violation of `IsADeviceAfterRecovery` | see section 6 |
| `efile_chain` | violation of `ClosedFilesAreNotFree` | see section 6 |

Bounds. `FsJournal` is small because every order of disk writes is explored: with 4 usable
blocks a third frame wraps, and sequence numbers up to `MaxSeq` and two sessions are enough
for old frames of the same and of an earlier session to stand behind new ones. What a
longer ring adds is proved (section 4). The two runs are told apart by what holds where: most
promises of `fs_sync` fail with asynchronous restores, journal-full errors or deletions
(section 6); what `fs_async` checks needs no such restriction. `BlockMap` needs four adjacent blocks for an extent to lie
strictly inside another with one block to spare, and three requests: one to commit, one to
overlap it and one to rewrite. `FreedClusters` has two clusters per request so that fragments
join at either end, and fewer fragments than the free space can need. `FatPool` has a page
more than buffers, so that pages are swapped out, and a last page that is not full. In `efile`
both files together ask for more than the volume has, so writes fail and
reservations are cut. `flash` has one block more than its sectors need, as the code
reserves, and two kinds of it. With erases counted up to 1 all counts are alike, the choice of a block is
free among those that win most, and the power fails between any two operations. With erases
counted up to 3 (and an `EraseThreshold` of 2) blocks differ, wear is levelled, also with a block that wins no
sector, and `WriteEnds` says that the levelling does not go on for ever; the power does not fail, which keeps
the instance small. Counts only grow, so a collection without end comes to counts at their
limit, which both kinds reach. `media` has two mounts so that a handle can outlive its own. Larger instances of
`block_lists` (4 requests, 1.64 million states), `freed` (575 thousand) and `media` (a card
of two partitions and a fixed disk, 3 letters, buffers not shared: `VolumeStaysWhileUsed` and
`HandlesStayOnTheirVolume`, 3.47 million) hold as well. Deadlock is not checked where a bound ends the
behaviour (`MaxSession`, `MaxSeq`, `MaxWrites`, `MaxMounts`) or the volume may simply be full; in
`engine`, `flash` and `fat_pool` it is.

The instance of `flash` follows a behaviour until a mount has copied a block
again (`NotRecopied`): from there on the device is wrong, which is what `flash_recovery` shows. That of `media` follows
one until a call goes on with a letter that an insertion is setting up (`NotEarly`): what the
program does then is in section 6, and the three properties of `media` say nothing about it.

Fairness. `fs_sync`: disk writes, the actions of a mount and the passes of a restore go on;
all are loops of one call (`_fs_api_sync_commit`, `fs_restore_from_file`, `pc_i_dskopen`) that
nobody has to ask. Nothing is assumed of writes and commits, and `MountEnds` has the premise
that crashes stop. `engine`: a pass that is under way ends, and an application calls
`pc_async_continue` again and again, which the loop in the documentation
(`prapiasyrd.c` 58-62) asks for; strong fairness, as other calls may hold the drive in between.
`flash`: a write call goes on; `WriteEnds` then also says that `RTF_DISK_FULL` never arises.
`media`: the eject and the threads go on (an insertion need not), and a thread that waits for the exclusive semaphore,
which is taken in turns with others, gets it at last (strong fairness on that step only).

Every property of a passing run has a mutant: a variant of one definition, named
after the mistake (`RegionSizeWithMaster`, `RecheckedNever`, ...), with which the
run finds the property violated.

## 4. Proofs

TLAPS checks every proof to its leaves. The theorems hold for all values of the constants
that satisfy the assumptions of the modules, which TLC evaluates on every run.

| Theorem | States | From |
|---|---|---|
| `RingInvariant`, `RingTypeCorrect`, `FreeRunCorrect`, `NoLiveBlockOverwritten` | `RingInv`; every counter in its range (no unsigned subtraction wraps); the free run is dead; `NoLiveOverwrite` | `RingAssumption` |
| `StartRecordLeads` | `SessionStartBeforeLive` | and `AsyncRestore = FALSE` |
| `JournalIsRing`, `JournalSpaceCorrect`, `JournalKeepsLive`, `JournalStartLeads` | `FsSpec => RingSpec`, and with it the same of `FsJournal` | the same |
| `ReadsCorrect` | `ReadsLatest` | `RingAssumption`, `FsAssumption` |
| `NothingLeft` | `NothingLeftToRestore` | the same |
| `FlushedFramesRead`, `FreedClustersSafe`, `CopiesAgree` | `FlushedIsRead`; `FreeSpaceIsSafe`; `FatCopiesAgree` | and `AsyncRestore = FALSE`, `"full" \notin Allowed` |
| `CommitsAreKept` | `CommitGuarantee` | and `AsyncRestore = FALSE`, `Allowed \subseteq {"create"}` |
| `CommitsAreAtomic` | `CommitsAtomically`: `FsJournal` implements `FsTxn` | the same |
| `ExtentsInOrder`, `ListsImplementLayers`, `FramesTellTheMap` | `ListsInOrder`; `ImplementsLayers`: `BlockMap` implements `MapLayers`; `FileAgreesWithMaps` | `BlockMapAssumption` |
| `ReadsGiveTheLatest` | `BlockReadsLatest`, in the behaviours where `buffer_size <= 2` or `MapRecords >= JournalSize - 2` | the same |
| `PoolIsTheFat`, `ReadersNeverGetOld`, `CompleteIsWritten`, `DirtyIsCounted` | `PoolOverDiskIsTheFat`; `ReadersGetTheLatest`; `CompleteMeansWritten`; `DirtyIsAccounted` | `FatGeometry` |
| `EngineTypeCorrect`, `QueueCorrect`, `RestoreIsExclusive`, `CommitCorrect` | types; `QueueIsTheAsyncFiles`; `NoFlushBesideRestore`; `CommitLeavesNothing` | `"close" \notin Faults` |
| `MediaTypeCorrect`, `VolumeStays`, `HandlesStay` | types, until `early`; `VolumeStaysWhileUsed`; `HandlesStayOnTheirVolume` (both hold trivially after `early`) | `MediaAccessAssumption`, `OneCard` |

### The ring (`JournalRingProofs`)

`NoLiveOverwrite` says nothing of the order of the blocks, so it is far from inductive. `RingInv`
describes the ring as it is seen from the cursor: `frames_free` blocks that are dead, then what a
restore still holds, whose size and `frames_free` together do not reach the first block filled since
(`Accounting`, an inequality: blocks do get lost at the wrap), then the flushed blocks and
the open ones, in this order (`RegionsInOrder`), with the open frame inside the file
(`OpenFrameFits`). There is a lemma for each action; the long ones are `AllocInNewFrameInv`, where a
frame may skip the end of the file and write an empty frame there, and `RestoreEndInv`, where blocks
go back. For `StartRecordLeads` the invariant also says that a start record the cursor has not
passed keeps its place in the order: a new frame misses it, or moves it to the oldest frame, which
`frames_free` never reaches. With asynchronous restores the argument fails at J 2311, and so does
the property (section 6).

### The journal on the disk (`FsJournalProofs`)

`JournalIsRing` goes through the steps of `FsJournal`: each is one of `JournalRing` or leaves the
ring's variables alone, crashes and mounts included. `MapsInv` then says where the mapped blocks lie:
behind the free run, each of the open session mapped once, no header among them. A
block that a journal-full error has taken out of its session (J 2240) is still mapped and read, and
`MapsInv` keeps it out of reach too; `RingInv` alone knows nothing of it.

`DiskInv` speaks of the disk as it will be when the writes under way are done (`JournalHolds`,
`VolumeHolds`, `MarkedAt`). As a call changes memory at once and the disk write by write, that is
what a write leaves as it is. It has three parts.

- `InUse`, while the volume is mounted: every block is in the journal where a read looks, or on the
  volume if no map has it, or if the restore that is running has copied it. New frames are no
  danger to it, as `MapsInv` keeps them away from mapped blocks.
- `InRecovery`, while a mount restores: the ranges of frames that are left, over the volume, are
  what the mount found. The disk changes under the mount while it does so. A mark changes the type
  of a header and neither its records nor its place in the sequence (`Alike`), so the chain and the
  replacements stay what they were (`AlikeChain`, `AlikeRange`).
- `AfterRecovery`: no frame behind the last one restored bears a mark that the next mount would
  follow (`Disposed`), or the handle is gone.

What a mount reads is given by functions of the disk, `Chain` above all. Where the chain
ends is a `CHOOSE`; `LengthExists` and `LengthUnique` show that it chooses something and only
one thing, `LastOfIs`, `LatestIs` and `Cut` do the same for the marks, the newest record and
the ranges. `ReadsCorrect` and `NothingLeft` follow. They hold for any number of blocks,
frames, sessions and crashes, with and without a fixed journal, asynchronous restores and
journal-full errors included.

### Crashes (`FsCommitProofs`, `FsPromiseProofs`)

`FlushedIsRead`, `CommitGuarantee` and `FreeSpaceIsSafe` are about the volume a mount would make of
the disk if the power failed now (`Recovered`), so they need to know what `Chain` and `Restoring`
are, not only that they stay. `InOrder` describes a disk whose frames have consecutive numbers from
the start record in the master to a last one, of which a first part bears one mark and the rest is
flushed, and behind which no block continues the sequence. `RecoveredInOrder`, at the end of
`FsJournalProofs`, computes from this what a
mount finds: the ranges, their replacements, the volume. A frame that ends the file early and the
empty frame behind it are part of the order, so that the wrap is covered.

`CrashInv` gives the witnesses of `InOrder` for each stage of a call: an open frame that is
appended and not written to its end (`AppendPending`), a session that is flushed (`Committed`), a
restore that has marked some frames (`Restores`, `Passes`), a mount that is
restoring, the master and the handle written or not. The lemmas go through the disk writes one by
one: for each, the same witnesses or the next ones. `Untouched` says that no
write reaches a frame of the order before it is restored, and rests on `StartAhead` and so on
`RingInv`. From `CrashInv` and `DiskInv` (`CommitInv`) follows `FlushedFramesRead`.

For `CommitsAreKept` a mount must also take the frames to be up to date: the count of free clusters
in a frame is compared with the FAT on the volume. `UpToDate` says that while nothing is freed the open session
has the count of the volume, and a session that is being restored has it until its first mark.
For `FreedClustersSafe`, `FreeKept` accounts for the free clusters: those that may be allocated and those
in the three lists of freed clusters make up what is written, and the first are no more than
what the volume, the copies on their way to it and the committed FAT block have free.
`Returning` is the end of a restore, where a list goes back to the free manager.

`CopiesAgree` is about the two copies of the FAT, which differ whenever one is written and the other is
not yet. `CopiesInv` says why this never lasts. With the journal in reserved sectors the copies are
alike, or the second one is on its way (`FatOnItsWay`), or a crash fell between the two and the
FAT block is in a frame the next mount restores (`FatWaits`); that the mount does find it there
is taken from `CrashInv`. With the handle in the second copy they are alike or the handle is
set, and it is cleared only after the second copy has been written (`HandleGoes`).

`CommitsAreAtomic` is the refinement: `durable` is mapped to `Recovered`, so every disk write has to
leave the volume of the next mount as it is, or be the one that makes a transaction permanent. It is
shown from the old and the new witnesses of `CrashInv` (`DiskWriteKept`). While a session
is being flushed the mount sees the committed state until the last block that it waits for is on the disk, and from
then on what the user sees (`Persisted`); a restore (`RestoreRecovered`) and a mount (`RecoverKept`)
change nothing that the next mount would make. `FlushedThere` says that nothing is
flushed outside of a commit, so that a write cannot become permanent by itself.

The hypotheses are not for convenience, the models without them have counterexamples:
with `AsyncRestore = TRUE` the start record may be overwritten, with
`"full"` the sequence gets a gap, with `"delete"` the signatures of two sessions differ (all in section 6).

### The block maps (`BlockMapProofs`)

The lists are not enough for an invariant: a request that is half done has an extent in no list
(`pbm`), so `MapInv` speaks of `Current`, the open map with that extent. Its parts are that the
lists are sorted and inside the volume and the extent fits between theirs (`ListInv`), that a flush
has yet to make room only where it will map (`FlushInv`), and that no journal block replaces two
blocks (`JournalInv`). `ScanIs`, `InsertIs` and `KeepersAre` say once what the three list
operations do to a sorted list and to the function it stands for; every action is then a
change of functions, and `ListsImplementLayers` follows from the same lemmas.

`IndexInv` relates the index records to the maps: the last record of a block in the frames
of the open session is where the open map sends it (`OpenIndexInv`), the last of the flushed frames
where the flushed map does (`FlushedIndexInv`), and what a failed request has left names only blocks
nobody counts on (`WrittenInv`). That records behind the cursor are empty (`RecordsInv`) and an open
frame never has more room than the buffer (`RoomInv`) is needed for it.

`ReadsInv` says of every block, a request under way included, that `Current`, the flushed and the
restoring map in this order lead to what was written last. With an index buffer this rests on
`BufferInv`: the buffer ends at the next free block, so every open block is in it or before it.
A request that finds no map record breaks this (section 6), and the hypothesis of
`ReadsGiveTheLatest` excludes just that: with a record for each block of the journal, or without a
buffer, there is nothing to run out of or to shift. `block_lists` has both kinds of
behaviour, without a buffer (the theorem applies) and with one and few records (it does not).

### The FAT pool (`FatPoolProofs`)

The four invariants of the run are proved together (`PoolInv`). What they lack is the
arithmetic of a mapping and the state between two steps of a call. `AltIs` says that a stream
which bypasses the pool is cut to whole sectors none of which is mapped; this rests on
clusters 0 and 1 being no part of a stream, as `pc_find_first_fat_blk` returns 0 both for sector 0
and for none. `WholePage` says that a page written without being read is filled to its end.
`AfterRunOK` says that the runs handed out of a bitmap are dirty and leave exactly the rest.
`Counted` is what `num_dirty` counts while a page is being written: the page counts until it is done,
also when its last bit is already clear. `NoneBehind` says that a flush has no dirty page before the
place it has come to. `CompleteMeansWritten` follows from the invariant only because a complete
flush leaves nothing counted, which `Accounts` keeps up to the next change. I/O errors
are included, and the count is exact only until the first. The order of use (`older`) plays no
part: whichever page is swapped out, the invariants hold.

### The engine (`AsyncEngineProofs`)

`QueueInv` relates the queue to the files; `JournalInv` says what lies in the journal is
announced by a need of the drive and that a restore takes all that is flushed.
`CommitLeavesNothing` is about the end of a commit and not inductive: `CommitUnderWay` records
for each stage what a commit that has come so far has left clean.

### Media (`MediaAccessProofs`)

What is proved is `[](early \/ MediaInv)`: as long as no call goes on with a letter that an insertion
is setting up, and from there nothing. `MediaInv` has a part for each kind of state. The letters of a device form
a run; only the card is removed, and comes back to the least slot no fixed device has (`CardSlot`).
`InstallInv` describes a half finished insertion: its letters are not mounted, their structures have
no slot or that of the device that comes, and this device has no other letters; fixed devices are there
before any call is (`ActiveInv`). What a thread found before it waited for a semaphore is still
what its letter leads to, or belongs to the card, and then the letter leads to the card or to a
structure without slot (`FoundInv`, `LeadsToCard`). The owners of a
semaphore are apart (`SemaphoreInv`). Mounts are numbered: the number of a search is never below
that of its own mount, and an open file always has a mounted volume. Each step is summarised once by
what it does to its own process (`StepDoes`) and what it leaves to the others (`OthersStay`). A
consequence: the branch of the release that unmounts through `saved_media_info` is never taken.

### What is only model-checked

- Liveness (`RestoreEnds`, `MountEnds`, `PromisesAreKept`, `QueuedFilesFinish`, `EngineReturns`,
  `WriteEnds`, `RemovalsEnd`): TLAPS has no rule for ENABLED and so none for fairness.
- What a recursive function computes for every input needs induction over an operator, which the
  installed provers cannot instantiate. This is why the proofs about `Chain` are about two disks
  with the same chain.
- `FreeSpaceIsSafe` and `FatCopiesAgree` with asynchronous restores, where their theorems do not
  apply. `fs_async` checks the first, with journal-full errors; the second holds on larger instances than
  those of the runs (`FileSize = 5`, files created and deleted, 1.84 million states). The other properties
  of `FsJournal` with a hypothesis in their theorem have counterexamples without it (section 6),
  and `fs_sync` keeps to the hypotheses.
- `BlockReadsLatest` of `BlockMap` with an index buffer and fewer map records than journal blocks.
- Everything of `FreedClusters`, `FreeManager`, `ExtendedFiles` and `FlashFtl`. Their
  invariants are about lists that are computed by folds (the slots of the free manager, the
  chain of a file, the copies a mount makes), which is induction over data.

## 5. Abstractions and limits

- A disk write of one block is atomic; `io` is in the order of the code and is not
  reordered. The torn write of a multi-block frame in buffered mode is not modelled.
- `FsJournal` writes one block per request and its blocks are not adjacent, so an
  extent has one block. Longer ones are `BlockMap`.
- Checksums are left out: the only corruption is that of a crash, and a frame is
  recognised by session, sequence number and type, as in the code.
- A commit never overtakes a restore that is running, which is `NoFlushBesideRestore` of
  `AsyncEngine`. The branch of `FsJournal` that keeps the handle (`KeepHandle`) is kept although
  it is not reached this way.
- I/O errors are modelled in `JournalRing` (a restore), `FatPool` and `AsyncEngine`.
- The guards against endless loops (32768 turns) are not modelled.
- exFAT keeps its free space in a bitmap and has no FAT copy; the models are of FAT. `FatPool`
  is of FAT16 and FAT32; FAT12, the hash of buffers, FSInfo and the pool that NAND drivers
  force are left out.
- `FreedClusters`: what closing the manager does to open files
  (`pc_release_all_prealloc`) and `fs_failsafe_disable`, which drops the lists of freed clusters, are
  left out.
- `ExtendedFiles`: no file buffer, several handles, `PCE_LOAD_AS_NEEDED`, temporary, transaction
  and remapped files; the position of a call is chosen and not kept; no journal.
- `AsyncEngine`: one drive; an error in a close with work queued is left out of the proofs and of
  the run ("close" in `Faults`).
- `FlashFtl`: the build with `INCLUDE_SECTOR_MAP`; number and contents of a sector
  are programmed at once; deleted sectors have no contents; no I/O errors.
- `MediaAccess`: the driver is one process that inserts or ejects one device at a time. In
  the code an insertion may also run in a calling thread, from a poll handler (D 898-907), and two
  insertions at once may be given the same slot; neither is modelled. The clearing of a slot hides its
  semaphore for three statements (D 125-127), which no step shows. What a call does once it has
  gone on with a letter that is being set up is not followed. Threads use only the descriptors they have opened; v1.0 devices,
  asynchronous mounts, `pc_rtfs_media_remount` and write protection are left out.
  `VolumeStaysWhileUsed` is proved for **one device that may be removed**. With two it does not
  hold: see section 6.

## 6. Where the code and what is said of it differ

Three disagreements have a run; PROJECT.json quotes the lines.

- `fs_delete`. The free-space signature of a session is taken before the restore
  returns the freed clusters. After a delete, commit and restore, the next commit
  is thrown away by a mount as out of date.
- `flash_recovery`. A mount that finds an interrupted copy of a block makes the copy again and
  then takes the sectors it has just written for duplicates of themselves.
- `efile_chain`. The last cluster of a closed file may keep a link to a reserved cluster that the
  close has given back: the file cannot be opened again as an extended file, and removing it
  frees what another file has put there.

Others were met on the way. They have no run; the model that shows each is named.

Journal:

- `IdleJournalIsEmpty` of `JournalRing` does not hold: the empty frame at the end of the file is in no
  region, so its block never comes back (J 2210, where a comment describes a condition the
  code does not test).
- With `AsyncRestore = TRUE` a frame is opened in front of the session that is being restored
  and names it as the start record; when the restore is over the open frame may be filled
  over that block (J 2311). `SessionStartBeforeLive` is about the frames that are still live.
  `CommitGuarantee` and `FlushedIsRead` fail as well (`FileSize = 7`, `FrameMax = 2`, three blocks):
  after the next commit a mount starts at a block that is no frame.
- A frame that does not fit writes an empty frame at the end of the file and then finds the journal
  full (J 2195-2245): the empty frame is counted in `frame_sequence` and `frames_free`, but the
  cursor stays. After a restore the next frame writes the empty frame once more, in the same block and
  with the next number, and the number before is nowhere. A mount does not follow
  the sequence beyond the gap: `FlushedIsRead` and `CommitGuarantee` fail with `Allowed = {"full"}`,
  `FileSize = 6`, `FrameMax = 1`, one block.
- `CommitGuarantee` with `Allowed = {"full"}`: a journal-full error zeroes
  `open_remapped_blocks`, and the next commit returns success without a write (J 2240). The blocks of
  the frame it gives up stay mapped: a later restore copies its FAT block, which no mount would
  look for, and a crash between the two copies of the FAT leaves them different (`FatCopiesAgree` with
  `FixedJournal = TRUE`, `Allowed = {"create", "delete", "full"}`, `FileSize = 5`, `FrameMax = 2`).
- `CommitsAtomically` with `AsyncRestore = TRUE` and `Allowed = {"create"}`: between
  the start of a restore and its first mark a write may open a frame with another
  signature; a mount takes both for an invalid segment (R 677, R 1430). With synchronous
  restores it holds (`CommitsAreAtomic`).
- A flush of an extent strictly inside a flushed one recurses without end (J 2520): the model
  makes such a flush wait. Two requests are enough: commit blocks 1 to 4, rewrite block 2 or 3, flush.
- A read of several blocks that starts with a flushed block takes the flushed copy for all of
  them, also for those the open session has rewritten (J 1915). `BlockReadsLatest` is about one block.
- A rewrite in a buffer that is exactly full is clipped to no blocks, and the loop turns until its
  guard ends it (J 1646).
- A request that fails for want of a map record leaves its index records in the frame, and a
  commit keeps them (J 1599). With an index buffer it has also moved `next_free_frame` (J 2042) but
  not `replacement_sectors_dirty` (J 1661): when a restore gives records back before the
  frame is closed, the blocks written next lie past what the buffer counts as its own, reads of
  them return what the file holds there, and closing the frame does not write them.
  `BlockReadsLatest` fails with `Width = 3`, `JournalSize = 14`, `FrameMax = 3`, `BufferSizes = {5}`,
  `MapRecords = 2`, `MaxWrites = 4`.
- The search that steps over freed clusters takes unsorted lists for sorted ones, and
  hands out clusters of a transaction that is not synchronized (J 251): free a cluster, then one
  before it that does not touch it, close the free manager and allocate.

Engine:

- `fs_restore_from_session_start` hands the flushed session over before its first pass (R 568). If
  that pass fails, `DRVOP_FS_NEEDS_RESTORE` stays set with nothing to restore, and with
  `DRVPOL_ASYNC_RESTORE` `pc_async_continue(drive, DRV_ASYNC_IDLE, 0)` never returns (`EngineReturns`
  with `Policy = {"NoAutoFlush", "Restore"}` and `Faults = {"restoreStart"}`).
- A stage that ends at the target asked for returns complete although files were queued while it
  was running (E 122, 143, 171; the comment at E 50-53 says otherwise). `CommitLeavesNothing` shows
  that a synchronous commit, which asks for the files first, is not misled.
- The success of an asynchronous unlink is announced before `pc_rmnode` has run (E 313-323).
- A restore that fails clears `DRVOP_FS_NEEDS_RESTORE`, so the next commit returns without
  synchronizing; an asynchronous mount does not call `fs_failsafe_dskopen`; `pc_diskclose` leaves
  the queue as it is; triggers meant for one run stay set after an error.

Free space, FAT and files:

- A volume whose `maxfindex` is a power of two puts its last cluster in a slot past the table,
  and a slot of one cluster reads as closed (`rtfreemanager.c` 69).
- `pc_write_fat_block_buffer_page` clears the dirty bits before the write, so a sector whose write
  failed is not written by the next flush, which returns complete (`rtfblockwr.c` 129: the properties
  of `FatPool` except `failed`). When the last dirty page is swapped out
  `DRVOP_FAT_IS_DIRTY` is cleared (`rtfblockrd.c` 882), and the flush that follows leaves FSInfo alone.
- A write of zero bytes puts a start cluster in the entry of an empty file; the close gives the
  cluster back, and a later `pc_unlink` frees what it has become part of (`rtdrobjwr.c` 415).
  `pc_efilio_setalloc` with a reserve count, on an empty file, has the same effect (`prapiefiwr.c`
  389-448): `CleanFileIsOnVolume` fails. For this reason neither is in the run `efile`, where
  `SetAllocation` only sets the hint.
- With `PCE_FORCE_CONTIGUOUS` a write into reserved space fails with `PENOSPC` on a full volume,
  as the search before it asks for no clusters (against `prapiefird.c` 222-226).
- A change of size after a failed pass of deletions does not count `clusters_to_delete` again, and
  those clusters stay taken.

Media:

- An insertion publishes its letters before there is a medium behind them, and goes on without the
  semaphore of the slot (D 1123-1205, 257-334). With `MediaAccess`, TLC finds `~early` violated in
  two ways. A call that looks up the letter between `Reserve` and `Attach` finds a structure
  whose `pmedia_info` is still 0 from the `memset` (D 1158), and claims the semaphore through the null pointer (D 934-936). A
  call that looks it up after `Attach` gets the semaphore and passes the second look at the letter (D 936-945):
  it works on a drive whose partition is not the final one, while `Bind` sets it without the semaphore
  (D 315-323), and if the partition table cannot be read the letter is taken away under it (D 336-372).
- The second look at the letter compares structures and not media (D 938-950). With two devices that may be
  removed a call can go on with a slot whose semaphore it does not own, also without `early`: it
  finds the structure of a card whose insertion then fails; a second card comes and is given the letter, with
  another structure; the first comes again, to another slot and letter, and is given the structure the
  call holds; the call claims the semaphore of the first card and goes on with the letter of the second.
  Or both cards are ejected and come back to each other's slots.

Flash: a format that is interrupted leaves a data block with an invalid erase count (L 620, 1171);
`RTFS_IOCTL_FORMAT` on a mounted flash leaves the map as it was.

## 7. Plan

Modules still to write: `MountStrategy` (enable, disable, the user's answers, failing restores at
a mount: R 406, R 440, J 617); `RestoreQueue` (loading in batches, FAT copies, the transfer buffer,
two drives that share it: J 1358); torn writes of buffered frames, `BlockMap` with the crash of
`FsJournal`; transaction files; circular files; block buffers with few buffers.

Not planned: device drivers, names and directory layout, shells and demonstrations.
They are input and output or data layout, without the interleavings or failures a
model checker is for.
