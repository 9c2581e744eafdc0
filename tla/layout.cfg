SPECIFICATION WalkSpec
CHECK_DEADLOCK FALSE
CONSTANTS
    WordBits = 13
    LogBits = 13
    GroupBits = 3
    MaxBytes = 4
    Alphabet <- MCAlphabet
    Pad = "="
    Lowests <- MCLowests
    Highests <- MCHighests
    Figures = {0, 1, 2}
INVARIANTS
    ConfigTypeOK
    IndexInRange
    RangesAreExact
    Precision
    NumbersSurvive
    BytesSurvive
