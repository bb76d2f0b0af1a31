SPECIFICATION Spec
CONSTANTS
    Words = 24
    Debug = FALSE
    Base = 1
    FontWords = 2
    ImageWords = 3
    SlotWords = 3
    Pow2Cap = 2
    Swapchains = {s1, s2, s3, s4, s5}
INVARIANTS
    RingIntact
