\* Every fault at once, owner ids that may be the same, while the queue grows.
SPECIFICATION Spec
CONSTANTS
    Daemons = {d1, d2}
    Nobody = Nobody
    MaxOwned = 2
    InitShards = 1
    MaxShards = 2
    MaxBoots = 2
    Types = {}
    Lease = 2
    Renew = 1
    Retry = 1
    Margin = 0
    Delay = 0
    Offsets = {0}
    Faults = {"kill", "stall", "io", "line", "twins"}
SYMMETRY Symmetry
INVARIANTS
    TypeOK
    OneProcessorPerShard
PROPERTIES
    OnlyLapsedClaimsPass
