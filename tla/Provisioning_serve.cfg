SPECIFICATION Spec
CONSTANTS
    old = old
    new = new
    Instances = {old, new}
    Version <- MCVersion
    Newest = 2
    Creations = {c1}
    Schemas = {s1}
    Names = {n1}
    None = None
    PoolSize <- MCPoolSize
    MaxStarts = 2
INVARIANTS
    SafeToServe
CHECK_DEADLOCK FALSE
