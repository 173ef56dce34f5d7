SPECIFICATION PipelineSpec
CONSTANTS
    Plans <- SmallPlans
    Inputs <- ThreeInputs
    QueueSize = 1
    Main = Main
    NoThread = NoThread
    b1 = b1  b2 = b2  f1 = f1  f2 = f2  value = value
    Backs <- OneBack
    Fronts <- OneFront
    FirstBack = b1
    FirstFront = f1
    Values <- OneValue
    Capacity = 0
    NoValue = NoValue
CHECK_DEADLOCK FALSE
INVARIANTS AllDelivered BarrierSpansExit
PROPERTY ExecutionEnds
