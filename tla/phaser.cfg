SPECIFICATION PhaserFairSpec
CONSTANTS
    Writers = {w1, w2, w3}
    Readers = {r1, r2}
    NoReader = NoReader
    HalfRange = 5
    MaxEnters = 4
INVARIANTS
    PhaserTypeOK
    NoStragglers
    EpochAccounting
PROPERTIES
    ImplementsContract
    FlipTerminates
