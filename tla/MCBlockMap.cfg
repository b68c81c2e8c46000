\* Few map records and a short journal, with and without an index buffer.
CONSTANTS
    Width = 4
    JournalSize = 9
    FrameMax = 3
    BufferSizes = {1, 4}
    MapRecords = 4
    MaxWrites = 3
CHECK_DEADLOCK FALSE
SPECIFICATION BlockMapSpec
INVARIANTS ListsInOrder BlockReadsLatest FileAgreesWithMaps
PROPERTY ImplementsLayers
