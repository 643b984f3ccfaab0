\* A client sends its job again, to another daemon, when the one that accepted
\* it is gone: the same id is in the logs of two shards.
SPECIFICATION Spec
CONSTANTS
    d1 = d1  d2 = d2  k1 = k1  k2 = k2  once = once  twice = twice
    Daemons = {d1, d2}
    Legacy = legacy
    Tools = {k1, k2}
    Tasks = {once, twice}
    MaxRetries <- OneAndTwo
    Hash <- Apart
    Requested <- DifferentCounts
    MaxServed <- OneServesTwo
    Added = 1
    Width = 5
    MaxBoots = 2
    MaxCommands = 2
    Faults = {"failover"}
    Root = root  Nobody = nobody  NoFile = nofile  NoRecord = norecord
SYMMETRY Symmetry
INVARIANTS
    OneEnginePerTask
CHECK_DEADLOCK FALSE
