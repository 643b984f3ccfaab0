\* queue.rs:466
SPECIFICATION Spec
CONSTANTS
    Jobs = {"j1"}
    Ids = {a}
    Pools = {"default"}
    Configured = {"default"}
    DefaultPool = "default"
    Permits <- OnePermit
    Hashes = {h}
    NoHash = NoHash
    Types = {"T"}
    Req <- ReqLimited
    Workers = {w1}
    NoTask = NoTask
    FailureCap = 3
    IoErrors = FALSE
    Crashes = FALSE
    Expiry = TRUE
    a = a
    b = b
    c = c
    h = h
    w1 = w1
    w2 = w2
PROPERTIES
    NeverRunsAfterFinish
