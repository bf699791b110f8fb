SPECIFICATION Spec
CONSTANTS
    Docs = {1}
    Partitions = {1}
    Requests = {r1}
    Workers = {w1}
    Attempts = 3
    PartitionOf <- HomePartition
    MaxFaults = 0
    CanPause = FALSE
    None = None
SYMMETRY Symmetric
INVARIANTS
    NotQueuedNeverRuns
CHECK_DEADLOCK FALSE
