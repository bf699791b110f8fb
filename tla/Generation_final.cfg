SPECIFICATION Spec
CONSTANTS
    Docs = {1}
    Partitions = {1}
    Requests = {r1, r2}
    Workers = {w1, w2}
    Attempts = 3
    PartitionOf <- HomePartition
    MaxFaults = 0
    CanPause = FALSE
    None = None
SYMMETRY Symmetric
PROPERTIES
    TerminalIsFinal
CHECK_DEADLOCK FALSE
