CONSTANTS
    f1 = f1
    f2 = f2
    Files = {f1, f2}
    LastCluster = 4
    BytesPerCluster = 2
    MaxSize = 3
    Options <- MCOptions
    WriteSizes = {2}
    Reservations <- MCReservations
    PassClusters = 1
CHECK_DEADLOCK FALSE
SPECIFICATION Spec
VIEW Seen
INVARIANTS ClustersAccounted CleanFileIsOnVolume
PROPERTIES KeepsContents
