SPECIFICATION Spec
CONSTANTS
    MAX_THREADS = 8
    N = 4
    Terminating = {1, 2}
    PassOn = {1, 3}
    Bursts = 2
    hz = 2
CONSTRAINT Intact
INVARIANT TypeOK
INVARIANT ReadyExactlyOnce
INVARIANT OwnStack
PROPERTY FinishedForGood
PROPERTY RoundRobinOrder
PROPERTY EveryTurnEnds
PROPERTY Progress
