SPECIFICATION LiveSpec
CONSTANTS
    p1 = p1  p2 = p2  c1 = c1  c2 = c2
    Producers <- TwoProducers
    Consumers <- OneConsumer
    cardinality_ = 1
    MaxTail = 3
    Ops <- TryOrAsk
    CopyThrows = TRUE
    ReorderLoads = FALSE
    WeakFails = FALSE
    NoIndex = NoIndex
CHECK_DEADLOCK FALSE
 
PROPERTY AllConsumed
