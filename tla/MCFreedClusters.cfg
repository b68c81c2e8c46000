\* Three slots of two clusters; the pool of fragments is soon empty.
CONSTANTS
    LastCluster = 6
    NSlots = 4
    NRegions = 3
    JournalStart = 4
    JournalClusters = 2
    MaxRequest = 2
CHECK_DEADLOCK FALSE
SPECIFICATION Spec
INVARIANTS FreeSpaceAccounted SearchIgnoresSlots
PROPERTIES ManagerReusesSynchronizedOnly JournalSpaceIsSafe
