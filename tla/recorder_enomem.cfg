SPECIFICATION RecorderSpec
CONSTANTS
    Writers = {w1}
    Readers = {r1, r2}
    NoReader = NoReader
    HalfRange = 3
    MaxEnters = 1
    Histograms = {h1, h2, h3}
    NULL = NULL
    v1 = v1
    v2 = v2
    Values = {v1, v2}
    Total = Total
    Calls <- OneValue
    AtomicUpdates = TRUE
    InactiveUsers = {}
    CallersClose = FALSE
    AllocMayFail = TRUE
    MayDestroy = FALSE
CHECK_DEADLOCK FALSE
INVARIANT
    ReturnsHistogram
