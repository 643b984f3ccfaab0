\* main.rs:248
SPECIFICATION Spec
CONSTANTS
    Ids = {a, b}
    NoResult = NoResult
    Timed = {}
    Attempts = 1
    Signals = TRUE
CHECK_DEADLOCK FALSE
INVARIANTS
    DrainAwaitsExecutions
