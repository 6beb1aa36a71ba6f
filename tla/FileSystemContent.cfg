SPECIFICATION Spec
CONSTANTS
    NB = 6
    P = 2
    FS_BLOCK_LENGTH = 3
    MaxFiles = 1
    Unchecked = 3
    Ids = {1}
    Handles = {1}
    Chars = {1, 2}
    MaxN = 3
    MaxCreated = 1
    LookupMiss = {FALSE}
    Rules = {"reset", "within", "nonempty", "alone", "room", "fresh"}
PROPERTY ReadsWhatWasWritten
PROPERTY OperationsReturn
