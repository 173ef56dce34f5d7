CONSTANTS
    d1 = d1
    d2 = d2
    Units <- Both
    Sizes <- FourAnchors
    Files <- FourChunks
    Cuts <- CutAfter2
    MaxBuf = 2
    NThreads = 2
    PerQueue <- OneOrTwo
    QueueSize = 1
    MaxPerFetch = 2
    PerFetch = 2
    PerInsert = 2
    AnchorsMax = 1
    BucketOf <- OneBucket
SPECIFICATION UnitLiveSpec
INVARIANTS RefsCountHolders WrittenInOrder
PROPERTIES EncodeEnds ImplementsSerial
CHECK_DEADLOCK FALSE
