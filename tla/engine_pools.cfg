\* Two pools and their semaphores; a reused id; a cron job.
SPECIFICATION Spec
CONSTANTS
    Jobs = {"j1", "j2"}
    Ids = {a}
    Pools = {"urgent", "batch"}
    Configured = {"default", "urgent"}
    DefaultPool = "default"
    Permits <- PoolPermits
    Hashes = {h}
    NoHash = NoHash
    Types = {"T"}
    Req <- ReqPools
    Workers = {w1, w2}
    NoTask = NoTask
    FailureCap = 2
    IoErrors = FALSE
    Crashes = FALSE
    Expiry = TRUE
    a = a
    b = b
    c = c
    h = h
    w1 = w1
    w2 = w2
SYMMETRY Symmetry
INVARIANTS
    PermitsConserved
    OneExecutionPerTask
