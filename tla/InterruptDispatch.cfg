SPECIFICATION Spec
CONSTANTS
    Threads = {1, 2}
    Devices = {0, 1, 12}
INVARIANT TypeOK
INVARIANT OneActivation
INVARIANT Acknowledged
INVARIANT TicksAtRate
INVARIANT OwnMemory
INVARIANT CellInFront
PROPERTY TimerCaptured
PROPERTY TicksGoOn
CHECK_DEADLOCK FALSE
