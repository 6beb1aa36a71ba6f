SPECIFICATION Spec
CONSTANTS
    Columns = 2
    Rows = 3
    TabStop = 2
    Hz = 1
    Writers = {1, 2}
    Kernels = {"alone", "main", "threads"}
    Letters = {"a", "b"}
    Texts = {"a", "newline"}
    Controls = {"backspace", "tab", "return", "newline", "other"}
    Numbers = {0, 10, 907}
    MaxOut = 5
    MaxShared = 3
    MaxSeconds = 2
INVARIANT TypeOK
INVARIANT AtRest
INVARIANT WithinMemory
INVARIANT ShowsPage
PROPERTY PrintsNumber
CHECK_DEADLOCK FALSE
