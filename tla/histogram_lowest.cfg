SPECIFICATION HistogramSpec
VIEW WithoutCall
CONSTANTS
    WordBits = 9
    LogBits = 9
    fine = fine
    coarse = coarse
    Histograms = {fine, coarse}
    Arguments <- MCArguments
    Offsets <- MCOffsets
    Values <- MCValues
    Counts = {1, 2}
    Intervals = {0, 85}
    MaxTotal = 3
PROPERTY
    AddDropsOutside
