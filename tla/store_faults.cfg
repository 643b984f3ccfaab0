\* Failing writes and syncs, kills and power failures, also inside a line.
SPECIFICATION Spec
CONSTANTS
    Ids = {a, b}
    Threads = {t1, t2}
    MaxVersion = 2
    MaxAppend = 3
    MaxErrors = 2
    Faults = {"power", "sync", "io", "torn"}
    None = None
SYMMETRY Symmetry
INVARIANTS
    TypeOK
    CacheIsLog
    CountersAreLog
    OneTearOneLoss
