SPECIFICATION Spec
CONSTANTS
    SecPerFat = 9
    PageSize = 4
    PerSector = 2
    NumBuffers = 2
    AltSize = 4
    Frags <- MCFrags
    MaxErrors = 1
INVARIANTS PoolOverDiskIsTheFat ReadersGetTheLatest CompleteMeansWritten DirtyIsAccounted
