SPECIFICATION UnitSpec
CONSTANTS
    Units <- AllUnits
    c1 = c1  c2 = c2  t1 = t1  t2 = t2  t3 = t3
    Clients <- TwoClients
    Tasks <- ThreeTasks
    Worker = Worker
    NoTask = NoTask
    NoThread = NoThread
    Jobs <- ThreeTasks
    NoJob = NoJob
    Users <- TwoClients
    Objects <- ThreeObjects
    min_threads_ = 1
    max_threads_ = 2
    LateCalls = FALSE
    Elems <- FourElems
    MaxElems = 4
    CopyThrows = TRUE
    Streams <- OneStream
    Guards <- TwoGuards
    stm_ <- BothOnCout
    cout = cout  g1 = g1  g2 = g2
    MaxDepth = 2
    MaxItems = 4
    MaxTurns = 2
    Throws = TRUE
INVARIANTS RunningUndisturbed OneOwner 
PROPERTIES JoinReturns  RunnerAwake HighestFirst
CHECK_DEADLOCK FALSE
