SPECIFICATION RecorderFairSpec
CONSTANTS
    Writers = {w1}
    Readers = {r1, r2}
    NoReader = NoReader
    HalfRange = 2
    MaxEnters = 1
    Histograms = {h1, h2, h3}
    NULL = NULL
    v1 = v1
    v2 = v2
    Values = {v1, v2}
    Total = Total
    Calls <- CorrectedOrNone
    AtomicUpdates = FALSE
    InactiveUsers = {}
    CallersClose = FALSE
    AllocMayFail = FALSE
    MayDestroy = FALSE
INVARIANTS
    RecorderTypeOK
    HandedComplete
PROPERTIES
    ImplementsInterval
    SampleCompletes
