SPECIFICATION Safe
CONSTANTS
    MAX_THREADS = 6
    N = 3
    Terminating = {1}
    PassOn = {2}
    Bursts = 1
    hz = 2
CONSTRAINT Intact
INVARIANT DeadNotReady
CHECK_DEADLOCK FALSE
