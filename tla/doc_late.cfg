\* main.rs:900
SPECIFICATION Spec
CONSTANTS
    Ids = {a, b}
    NoResult = NoResult
    Timed = {a}
    Attempts = 2
    Signals = FALSE
CHECK_DEADLOCK FALSE
INVARIANTS
    OwnAnswerSettles
