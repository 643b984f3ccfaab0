\* Boots, an adoption, commands and crashes in one queue directory.
SPECIFICATION Spec
CONSTANTS
    d1 = d1  d2 = d2  k1 = k1  k2 = k2  once = once  twice = twice
    Daemons = {d1, d2}
    Legacy = legacy
    Tools = {k1, k2}
    Tasks = {once, twice}
    MaxRetries <- OneAndTwo
    Hash <- Apart
    Requested <- DifferentCounts
    MaxServed <- OneServesTwo
    Added = 1
    Width = 5
    MaxBoots = 2
    MaxCommands = 2
    Faults = {"crash"}
    Root = root  Nobody = nobody  NoFile = nofile  NoRecord = norecord
SYMMETRY Symmetry
INVARIANTS
    TypeOK
    NeverLost
    OneEnginePerTask
    EngineSeesLog
PROPERTIES
    ShardsOnlyGrow
    ReplayRevivesOnlyFailed
    OkIsCurrent
\* The bounds on boots and commands stop everything in the end.
CHECK_DEADLOCK FALSE
