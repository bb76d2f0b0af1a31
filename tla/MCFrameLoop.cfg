SPECIFICATION Spec
CONSTANTS
    Images = 2
    Pow2Cap = 2
    Wrap = 3
    Sizes = {1, 2}
    Generations = {g1, g2, g3, g4}
    Backlog = 8
    None = none
SYMMETRY AnyGeneration
INVARIANTS
    GpuUsesLiveObjects
    GarbageAccounted
    RoomForGarbage
    SlotsAreExclusive
    FencesWillOpen
    ResizeTakesEffect
PROPERTY
    DisposedAfterPresents
