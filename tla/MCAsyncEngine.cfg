SPECIFICATION FairSpec
CONSTANTS
    f1 = f1
    f2 = f2
    Files <- MCFiles
    OpenFiles <- MCOpenFiles
    Policy = {"NoAutoFlush"}
    FatPasses = 2
    FilePasses = 2
    RestorePasses = 2
    Faults = {"open", "flush", "fat", "journal", "restore", "mount", "unlink", "restoreStart"}
    AskedFor = {"Idle", "DoneMount", "DoneFiles", "FatFlush", "DoneRestore"}
    MaxErrors = 1
    MaxRequests = 3
INVARIANTS QueueIsTheAsyncFiles NoFlushBesideRestore CommitLeavesNothing
PROPERTIES PromisesAreKept QueuedFilesFinish EngineReturns
