SPECIFICATION FairFlashSpec
CONSTANTS
    TotalBlocks = 3
    SectorsPerBlock = 2
    ContentsOf <- MCFull
    MaxRequest = 2
    EraseThreshold = 2
    Kinds <- MCKinds
    CrashInFormat = FALSE
CONSTRAINT NotRecopied
INVARIANTS MapTellsTheFlash AvailCountIsRight
PROPERTIES IsADevice WriteEnds
