\* membership.rs:87
SPECIFICATION Spec
CONSTANTS
    Daemons = {d1, d2}
    Nobody = Nobody
    MaxOwned = 1
    InitShards = 1
    MaxShards = 1
    MaxBoots = 3
    Types = {}
    Lease = 3
    Renew = 1
    Retry = 1
    Margin = 1
    Delay = 1
    Offsets = {0}
    Faults = {"twins"}
INVARIANTS
    HeartbeatKeepsClaims
