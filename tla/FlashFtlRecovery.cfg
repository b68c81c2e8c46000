SPECIFICATION FlashSpec
CONSTANTS
    TotalBlocks = 3
    SectorsPerBlock = 2
    ContentsOf <- MCContentsOf
    MaxRequest = 2
    EraseThreshold = 2
    Kinds <- MCCrashing
    CrashInFormat = FALSE
PROPERTY IsADeviceAfterRecovery
