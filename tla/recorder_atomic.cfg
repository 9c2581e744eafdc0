SPECIFICATION RecorderSpec
CONSTANTS
    Writers = {w1, w2}
    Readers = {r1, r2}
    NoReader = NoReader
    HalfRange = 3
    MaxEnters = 2
    Histograms = {h1, h2, h3}
    NULL = NULL
    v1 = v1
    v2 = v2
    Values = {v1, v2}
    Total = Total
    Calls <- OneValue
    AtomicUpdates = TRUE
    InactiveUsers = {r1}
    CallersClose = TRUE
    AllocMayFail = TRUE
    MayDestroy = TRUE
CHECK_DEADLOCK FALSE
SYMMETRY Symmetry
INVARIANTS
    SoleOwner
    WritersStayOut
