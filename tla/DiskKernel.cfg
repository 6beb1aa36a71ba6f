SPECIFICATION Spec
CONSTANTS
    MAX_THREADS = 10
    N = 5
    PassOn = {1, 3, 4, 5}
    DiskUsers = {2}
    Returning = {3, 5}
    Blocks = {0, 1, 2}
INVARIANT TypeOK
INVARIANT PlacedOnce
INVARIANT NeverIdle
PROPERTY TransfersOwn
CHECK_DEADLOCK FALSE
