\* membership.rs:4
SPECIFICATION FairSpec
CONSTANTS
    Daemons = {d1, d2}
    Nobody = Nobody
    MaxOwned = 2
    InitShards = 2
    MaxShards = 2
    MaxBoots = 3
    Types = {}
    Lease = 3
    Renew = 1
    Retry = 1
    Margin = 1
    Delay = 1
    Offsets = {0}
    Faults = {"kill"}
PROPERTIES
    Failover
