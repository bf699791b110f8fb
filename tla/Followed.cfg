SPECIFICATION FollowedSpec
CONSTANTS
    Docs = {1}
    Partitions = {1}
    Requests = {r1, r2}
    Workers = {w1, w2}
    Attempts = 2
    PartitionOf <- HomePartition
    MaxFaults = 1
    CanPause = FALSE
    None = None
    FollowDocs = {d1}
    Nil = None
    Delays = 2
    Reserve = 1
    FollowLimit = 3
    MaxFollows = 1
    MaxRuns = 2
INVARIANTS
    UnfinishedIsOutstanding
PROPERTIES
    AcceptedSettles
    ReadingStops
CHECK_DEADLOCK FALSE
