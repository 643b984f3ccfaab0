\* The durable map, with two writers, power failures, failing appends and syncs.
SPECIFICATION Spec
CONSTANTS
    Ids = {a, b}
    Threads = {t1, t2}
    MaxVersion = 2
    MaxAppend = 3
    MaxErrors = 1
    Faults = {"power", "sync", "io"}
    None = None
PROPERTIES
    ImplementsDurableMap
