SPECIFICATION IteratorsFairSpec
CHECK_DEADLOCK FALSE
CONSTANTS
    WordBits = 10
    LogBits = 10
    Contents <- MCContents
    Kinds <- MCKinds
    Percentiles <- MCPercentiles
    Meanwhile = {2, 100}
    MaxMeanwhile = 1
INVARIANTS
    IteratorsTypeOK
    EveryCountOnce
    PercentileIsLeast
    LookupsAgree
PROPERTIES
    StepsCountTheirRange
    PercentilesRise
    EndsUnlessWrapped
