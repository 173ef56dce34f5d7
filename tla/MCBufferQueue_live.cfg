SPECIFICATION LiveSpec
CONSTANTS
    p1 = p1  p2 = p2  c1 = c1  v1 = v1  v2 = v2
    Producers <- TwoProducers
    Consumers <- OneConsumer
    Values <- OneValue
    MaxElems = 1
    Ops <- LiveOps
    CopyThrows = TRUE
    MaxWaiting = 2
    NoThread = NoThread
    NoValue = NoValue
PROPERTY CloseReleases
