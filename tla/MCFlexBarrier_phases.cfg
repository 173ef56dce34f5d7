SPECIFICATION LiveSpec
CONSTANTS
    a = a  b = b  c = c
    Threads <- ThreeThreads
    Owner = a
    NumThreads = 2
    Completions <- Resize
    MaxPhases = 3
    Drops = TRUE
    NoThread = NoThread
CHECK_DEADLOCK FALSE
INVARIANTS Sync DestroyAfterDeparture
PROPERTY PhaseEmpties
