SPECIFICATION UnitSpec
CONSTANTS
    Units <- Both
    a = a  b = b  c = c
    Threads <- ThreeThreads
    Owner = a
    Count = 3
    MaxN = 2
    MaxCalls = 2
    Overcount = TRUE
    NoThread = NoThread
    MaxPhases = 2
    Drops = TRUE
INVARIANTS Gate NoUseAfterDestroy BarrierSync
PROPERTIES DestroyReturns FirstPhaseEnds
CHECK_DEADLOCK FALSE
