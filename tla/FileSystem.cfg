SPECIFICATION Safe
CONSTANTS
    NB = 6
    P = 2
    FS_BLOCK_LENGTH = 3
    MaxFiles = 2
    Unchecked = 3
    Ids = {1, 2}
    Handles = {1, 2}
    Chars = {1}
    MaxN = 3
    MaxCreated = 2
    LookupMiss = {FALSE}
    Rules = {"reset", "within", "nonempty", "alone"}
INVARIANT TypeOK
INVARIANT BlocksAccounted
INVARIANT HandleOnItsBlock
CHECK_DEADLOCK FALSE
