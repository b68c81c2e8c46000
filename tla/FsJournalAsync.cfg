\* What holds in every build: writes go on while a restore runs, files come and
\* go, and the journal, in reserved sectors, fills up.
CONSTANTS
    FileSize = 5
    FrameMax = 2
    BufSectors = 1
    AsyncRestore = TRUE
    Data = {"a"}
    InitFree = 0
    FixedJournal = TRUE
    Allowed = {"create", "delete", "full"}
    MaxSeq = 4
    MaxSession = 2
CHECK_DEADLOCK FALSE
SPECIFICATION FsSpec
INVARIANTS FreeSpaceIsSafe ReadsLatest NothingLeftToRestore RingInv
