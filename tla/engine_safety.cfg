\* Retries, rate limiting, crashes and failed writes; ids are unique.
SPECIFICATION Spec
CONSTANTS
    Jobs = {"j1", "j2"}
    Ids = {a, b}
    Pools = {"default"}
    Configured = {"default"}
    DefaultPool = "default"
    Permits <- OnePermit
    Hashes = {h}
    NoHash = NoHash
    Types = {"T"}
    Req <- ReqSafety
    Workers = {w1}
    NoTask = NoTask
    FailureCap = 3
    IoErrors = TRUE
    Crashes = TRUE
    Expiry = FALSE
    a = a
    b = b
    c = c
    h = h
    w1 = w1
    w2 = w2
INVARIANTS
    TypeOK
    QueuedExact
    NeverQueuedWhileExecuting
    DispatcherCountsExact
    StuckOnlyIfFinished
    NeverLost
    NeverGivesUpEarly
PROPERTIES
    StrandedOnlyByTwo
