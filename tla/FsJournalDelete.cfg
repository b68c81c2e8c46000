\* A transaction that frees clusters.
CONSTANTS
    FileSize = 6
    FrameMax = 2
    BufSectors = 1
    AsyncRestore = FALSE
    Data = {"a"}
    InitFree = 1
    FixedJournal = FALSE
    Allowed = {"create", "delete"}
    MaxSeq = 5
    MaxSession = 2
CHECK_DEADLOCK FALSE
SPECIFICATION FsSpec
INVARIANT CommitGuarantee
