\* A standby daemon, kills, daemons that do not stall, clocks that differ by
\* the most the lease and the margin allow.
SPECIFICATION FairSpec
CONSTANTS
    Daemons = {d1, d2}
    Nobody = Nobody
    MaxOwned = 1
    InitShards = 1
    MaxShards = 1
    MaxBoots = 3
    Types = {T}
    Lease = 3
    Renew = 1
    Retry = 1
    Margin = 1
    Delay = 1
    Offsets = {0, 2}
    Faults = {"kill"}
INVARIANTS
    HeartbeatKeepsClaims
PROPERTIES
    Failover
