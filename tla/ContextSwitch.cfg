SPECIFICATION Spec
CONSTANTS
    N = 2
    Returning = {2}
    Kernels = {"threads", "disk", "paging"}
    Irqs = {32}
    Faults = {0, 14}
    Deepest = 128
    Nested = 2
INVARIANT TypeOK
INVARIANT NeverLost
INVARIANT OnOwnStack
INVARIANT DispatcherSees
INVARIANT StackAtShutdown
PROPERTY ReturnsAsLeft
CONSTRAINT Intact
VIEW view
CHECK_DEADLOCK FALSE
