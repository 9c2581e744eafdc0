SPECIFICATION RecorderSpec
CONSTANTS
    Writers = {w1}
    Readers = {r1, r2}
    NoReader = NoReader
    HalfRange = 3
    MaxEnters = 1
    Histograms = {h1, h2, h3, h4}
    NULL = NULL
    v1 = v1
    v2 = v2
    Values = {v1, v2}
    Total = Total
    Calls <- OneValue
    AtomicUpdates = TRUE
    InactiveUsers = {}
    CallersClose = TRUE
    AllocMayFail = FALSE
    MayDestroy = FALSE
INVARIANT
    ConfigReadSafe
