SPECIFICATION UnitSpec
CONSTANTS
    Units <- Both
    t1 = t1  t2 = t2  r1 = r1  r2 = r2
    Counters <- TwoCounters
    Readers <- TwoReaders
    Kinds <- AllKinds
    Integral <- Small
    Amounts <- Ones
    Resets <- Ones
    MaxCounts = 2
    NoThread = NoThread
    Producers <- TwoCounters
    Consumers <- TwoReaders
    cardinality_ = 2
    MaxTail = 3
    Ops <- MoveOps
    CopyThrows = TRUE
    ReorderLoads = FALSE
    WeakFails = FALSE
    NoIndex = NoIndex
CHECK_DEADLOCK FALSE
SYMMETRY Symmetry
INVARIANTS Conservation PopsGetTheirElement
PROPERTIES LoadInBounds 
