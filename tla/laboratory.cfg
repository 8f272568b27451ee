\* Bytes of two bits, words of two bytes, up to three options. One or two samples
\* of up to three bytes, shown whole, in part or not at all, or of values of a
\* range that is empty, narrow (up to two buckets) or wide. The program ends, so
\* that a state without a step is no deadlock.
CONSTANTS
    Width = 2
    WordBytes = 2
    BarWidth = 4
    MaxBuckets = 2
    MaxCommon = 2
    DefaultBits = 4
    DefaultEnd = 3
    DefaultShow = 2
    MaxBits = 6
    MaxSamples = 2
    MaxBound = 3
    MaxFold = 5
    MaxShow = 3
    MaxFlags = 3
SPECIFICATION LabSpec
INVARIANTS
    LabTypeOK
    AcceptedIsServed
    StatsOfAll
    HistogramWhole
    SuccessIsComplete
CHECK_DEADLOCK FALSE
