SPECIFICATION FairSpec
CONSTANTS
    old = old
    new = new
    Instances = {old, new}
    Version <- MCVersion
    Newest = 2
    Creations = {c1, c2}
    Schemas = {s1, s2}
    Names = {n1, n2}
    None = None
    PoolSize <- MCPoolSize
    MaxStarts = 3
INVARIANTS
    TypeOK
    RoutableIsMigrated
    OneMigrationAtATime
    ConnectionsAddUp
    StaleOnlyIfAddedLate
PROPERTIES
    WorkEnds
CHECK_DEADLOCK FALSE
