\* Two jobs with one payload; crashes.
SPECIFICATION Spec
CONSTANTS
    Jobs = {"j1", "j2"}
    Ids = {a, b}
    Pools = {"default"}
    Configured = {"default"}
    DefaultPool = "default"
    Permits <- TwoPermits
    Hashes = {h}
    NoHash = NoHash
    Types = {"T"}
    Req <- ReqDedupe
    Workers = {w1, w2}
    NoTask = NoTask
    FailureCap = 2
    IoErrors = FALSE
    Crashes = TRUE
    Expiry = FALSE
    a = a
    b = b
    c = c
    h = h
    w1 = w1
    w2 = w2
SYMMETRY Symmetry
INVARIANTS
    HashHeldWhilePending
    HashOnlyWhilePending
PROPERTY
    ImplementsJobContract
