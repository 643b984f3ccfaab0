\* queue.rs:288
SPECIFICATION Spec
CONSTANTS
    Jobs = {"j1", "j2"}
    Ids = {a, b}
    Pools = {"default"}
    Configured = {"default"}
    DefaultPool = "default"
    Permits <- OnePermit
    Hashes = {h}
    NoHash = NoHash
    Types = {"T"}
    Req <- ReqPlain
    Workers = {w1}
    NoTask = NoTask
    FailureCap = 3
    IoErrors = FALSE
    Crashes = FALSE
    Expiry = FALSE
    a = a
    b = b
    c = c
    h = h
    w1 = w1
    w2 = w2
INVARIANTS
    QueuesAreServed
