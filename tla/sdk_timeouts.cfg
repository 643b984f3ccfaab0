\* A task with a timeout and one without: late answers, shutdown.
SPECIFICATION FairSpec
CONSTANTS
    Ids = {a, b}
    NoResult = NoResult
    Timed = {a}
    Attempts = 3
    Signals = TRUE
CHECK_DEADLOCK FALSE
INVARIANTS
    TypeOK
    WaiterIsReachable
    OnlyTimedAreConfused
PROPERTIES
    EveryExecutionSettles
