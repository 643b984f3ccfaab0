\* A daemon of the previous version that has no log yet.
SPECIFICATION Spec
CONSTANTS
    d1 = d1  d2 = d2  k1 = k1  k2 = k2  once = once  twice = twice
    Daemons = {d1, d2}
    Legacy = legacy
    Tools = {k1}
    Tasks = {once, twice}
    MaxRetries <- OneAndTwo
    Hash <- Apart
    Requested <- DifferentCounts
    MaxServed <- OneServesTwo
    Added = 1
    Width = 5
    MaxBoots = 2
    MaxCommands = 2
    Faults = {"quiet"}
    Root = root  Nobody = nobody  NoFile = nofile  NoRecord = norecord
INVARIANTS
    NeverLost
CHECK_DEADLOCK FALSE
