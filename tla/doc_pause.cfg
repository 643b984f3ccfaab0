\* main.rs:239
SPECIFICATION Spec
CONSTANTS
    Jobs = {"j1"}
    Ids = {a}
    Pools = {"default"}
    Configured = {"default"}
    DefaultPool = "default"
    Permits <- OnePermit
    Hashes = {h}
    NoHash = NoHash
    Types = {"T"}
    Req <- ReqOne
    Workers = {w1}
    NoTask = NoTask
    FailureCap = 3
    IoErrors = FALSE
    Crashes = FALSE
    Expiry = FALSE
    a = a
    b = b
    c = c
    h = h
    w1 = w1
    w2 = w2
PROPERTIES
    PauseStopsDispatch
