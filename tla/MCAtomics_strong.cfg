SPECIFICATION UnitSpec
CONSTANTS
    Units <- JustCounter
    t1 = t1  t2 = t2  r1 = r1  r2 = r2
    Counters <- OneCounter
    Readers <- OneReader
    Kinds <- Strong
    Integral <- Small
    Amounts <- Ones
    Resets <- Zero
    MaxCounts = 1
    NoThread = NoThread
    Producers <- TwoCounters
    Consumers <- TwoReaders
    cardinality_ = 2
    MaxTail = 3
    Ops <- MoveOps
    CopyThrows = TRUE
    ReorderLoads = FALSE
    WeakFails = FALSE
    NoIndex = NoIndex
INVARIANT ExtractedOnce
