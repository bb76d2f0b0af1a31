SPECIFICATION FairSpec
CONSTANTS
    Images = 2
    Pow2Cap = 2
    Wrap = 3
    Sizes = {1, 2}
    Generations = {g1, g2, g3, g4}
    Backlog = 1
    None = none
PROPERTIES
    CloseEnds
    GarbageIsDisposed
