\* What a synchronous build promises: files are created, the journal wraps, and
\* a mount is not interrupted for ever.  The handle is in the second FAT.
CONSTANTS
    FileSize = 5
    FrameMax = 2
    BufSectors = 1
    AsyncRestore = FALSE
    Data = {"a"}
    InitFree = 2
    FixedJournal = FALSE
    Allowed = {"create"}
    MaxSeq = 5
    MaxSession = 2
CHECK_DEADLOCK FALSE
SPECIFICATION FairSpec
INVARIANTS FatCopiesAgree FlushedIsRead SessionStartBeforeLive CommitGuarantee
PROPERTIES NoLiveOverwrite CommitsAtomically RestoreEnds MountEnds
