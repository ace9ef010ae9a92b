SPECIFICATION FairSpec
CONSTANTS
    Sizes = {1, 2, 3}
    MaxTables = 3
    Jobs = 2
    SoloBytes = 3
    BatchBytes = 3
    BatchMaxCount = 2
    Chunks = 2
    ChunkCount = 1
    MaxFaults = 2
    RestoreJobs = 2
INVARIANTS EveryTableOnce CompleteAtEnd NoDumpLeftBehind RestoredWhole
PROPERTIES DumpsEnd RestoreEnds
CHECK_DEADLOCK FALSE
