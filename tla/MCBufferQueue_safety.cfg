SPECIFICATION Spec
CONSTANTS
    p1 = p1  p2 = p2  c1 = c1  v1 = v1  v2 = v2
    Producers <- TwoProducers
    Consumers <- OneConsumer
    Values <- TwoValues
    MaxElems = 2
    Ops <- SafetyOps
    CopyThrows = TRUE
    MaxWaiting = 2
    NoThread = NoThread
    NoValue = NoValue
SYMMETRY Symmetry
INVARIANTS CountersCoverWaiters NoLostWakeup ClosedWakesAll
PROPERTY ImplementsBoundedQueue
