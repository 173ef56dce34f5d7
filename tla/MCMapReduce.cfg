SPECIFICATION LiveSpec
CONSTANTS
    m1 = m1  m2 = m2  r1 = r1  r2 = r2  a = a  b = b  c = c
    Runner = Runner
    Mappers <- TwoMappers
    Reducers <- TwoReducers
    InputSeqs <- UpToThree
    KeyOf <- Bucket
    ShardOf <- Shard
    NumShards = 2
    MaxThreads = 2
    NoThread = NoThread
INVARIANTS HelpersGone  ReducedOnce
PROPERTY RunReturns
CHECK_DEADLOCK FALSE
