\* A job that failed once and then succeeded is run again by replay.
SPECIFICATION Spec
CONSTANTS
    d1 = d1  d2 = d2  k1 = k1  k2 = k2  once = once  twice = twice
    Daemons = {d1, d2}
    Legacy = legacy
    Tools = {k1}
    Tasks = {once, twice}
    MaxRetries <- OneAndTwo
    Hash <- Apart
    Requested <- DifferentCounts
    MaxServed <- OneServesTwo
    Added = 1
    Width = 5
    MaxBoots = 2
    MaxCommands = 2
    Faults = {"crash"}
    Root = root  Nobody = nobody  NoFile = nofile  NoRecord = norecord
PROPERTIES
    ReplayRevivesOnlyExhausted
CHECK_DEADLOCK FALSE
