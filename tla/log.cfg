SPECIFICATION LogFairSpec
CHECK_DEADLOCK FALSE
CONSTANTS
    WordBits = 10
    LogBits = 10
    GroupBits = 3
    MaxBytes = 3
    Alphabet <- MCAlphabet
    Pad = "="
    NULL = NULL
    Fine = Fine
    Second = 100
    Shown = 10
    HeaderLineLength = 10
    Capacity = 6
    MaxLines = 2
    MaxFaults = 1
    Headers <- MCHeaders
    Lines <- MCLines
    Foreign <- MCForeign
    Callers <- MCCallers
INVARIANTS
    LogTypeOK
    ReadsInOrder
    AllReadAtEnd
    HeaderReadable
    TargetIsSum
PROPERTIES
    ErrorsLeaveNothing
    ReadingEnds
