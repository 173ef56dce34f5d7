SPECIFICATION EndsSpec
CONSTANTS
    b1 = b1  b2 = b2  f1 = f1  f2 = f2  value = value
    Backs <- TwoBacks
    Fronts <- TwoFronts
    FirstBack = b1
    FirstFront = f1
    Values <- OneValue
    Capacity = 1
    NoValue = NoValue
    Plans <- OnePlan
    Inputs <- ThreeInputs
    QueueSize = 1
    Main = Main
    NoThread = NoThread
CHECK_DEADLOCK FALSE
INVARIANT NoDanglingEnd
PROPERTIES ConsumersEnd Reclaimed
