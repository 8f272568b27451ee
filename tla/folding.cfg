\* Requests of up to six bytes, some of them not whole ones, in read commands of
\* four; the largest folds of the longest requests overflow a usize.
CONSTANTS
    MaxBits = 48
    MaxFold = 5
    MaxRead = 4
    MaxUsize = 80
SPECIFICATION Spec
INVARIANTS
    TypeOK
    FoldedSoFar
    FoldedWhole
    IsSuccessiveFold
