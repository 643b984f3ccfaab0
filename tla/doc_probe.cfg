\* The previous version starts between the probe of its lock and the rename.
SPECIFICATION Spec
CONSTANTS
    d1 = d1  d2 = d2  k1 = k1  k2 = k2  once = once  twice = twice
    Daemons = {d1, d2}
    Legacy = legacy
    Tools = {k1}
    Tasks = {once, twice}
    MaxRetries <- OneAndTwo
    Hash <- Apart
    Requested <- DifferentCounts
    MaxServed <- OneServesTwo
    Added = 1
    Width = 5
    MaxBoots = 2
    MaxCommands = 2
    Faults = {"downgrade"}
    Root = root  Nobody = nobody  NoFile = nofile  NoRecord = norecord
INVARIANTS
    NoLegacyWhileMoving
CHECK_DEADLOCK FALSE
