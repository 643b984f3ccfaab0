\* README.md:28
SPECIFICATION Spec
CONSTANTS
    Ids = {a, b}
    Threads = {t1, t2}
    MaxVersion = 3
    MaxAppend = 3
    MaxErrors = 1
    Faults = {"torn"}
    None = None
INVARIANTS
    ConfirmedSurvives
