SPECIFICATION Spec
CONSTANTS
    PG = 2
    T = 16
    nframes = 16
    Inaccessible = 2
    base_frame_no = 16
    info_page = 1
    FlagBits = 1
    CodeBase = 272
    HeapBase = 280
    Size = 6
    Sizes = {3}
    Values = {1}
    MaxRegions = 3
    Reserve = 2
    Rules = {"touched", "frames", "inside"}
INVARIANT TypeOK
INVARIANT FramesDistinct
INVARIANT RegionsDisjoint
PROPERTY MemoryHolds
CHECK_DEADLOCK FALSE
