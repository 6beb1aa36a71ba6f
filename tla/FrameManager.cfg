SPECIFICATION Spec
CONSTANTS
    Entries = 4
    Word = 4
    Accesses = 3
    Nested = 3
INVARIANT FramesDistinct
CHECK_DEADLOCK FALSE
