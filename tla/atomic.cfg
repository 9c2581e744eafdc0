SPECIFICATION AtomicFairSpec
CHECK_DEADLOCK FALSE
CONSTANTS
    Threads = {t1, t2}
    Highest = 6
    NoMin = 9
    Inputs <- MCInputs
    MaxCalls = 4
INVARIANTS
    AtomicTypeOK
    QuietExtremes
    QuietCounts
PROPERTIES
    ExtremesWiden
    CallsReturn
