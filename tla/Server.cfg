SPECIFICATION ServerSpec
CONSTANTS
    Tenants = {r1, r2}
    Threads = {w1, w2}
    Consumers = {e1}
    Conns = {c1, c2}
    MaxFailures = 1
    Public = public
    Unknown = unknown
    Closed = Closed
    Nothing = Nothing
    Docs = {1, 2}
    Partitions = {1, 2}
    Requests = {r1, r2}
    Workers = {w1, w2}
    Attempts = 2
    PartitionOf <- HomePartition
    MaxFaults = 1
    CanPause = TRUE
    None = None
SYMMETRY TenancySymmetric
INVARIANTS
    ServerOK
    Isolation
    ContextIsTheJobs
    GrantedByCredential
    PdfServedIffDone
    StampsTellTheRun
    FailedOnlyWhenExhausted
PROPERTIES
    SwitchTakesEffect
    SingleRunFollowsLifecycle
