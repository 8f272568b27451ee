\* Words of four bits, every range of them, three draws.
CONSTANTS
    Size = 16
    MaxSamples = 3
    Errors <- SomeError
SPECIFICATION FairSpec
INVARIANTS
    TypeOK
    InRange
    Unbiased
    EvenDeal
PROPERTY
    CallEnds
