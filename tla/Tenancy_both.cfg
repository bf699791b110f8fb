SPECIFICATION TenancySpec
CONSTANTS
    Tenants = {t1, t2}
    Threads = {w1}
    Consumers = {e1}
    Conns = {c1}
    MaxFailures = 0
    Public = public
    Unknown = unknown
    Closed = Closed
    Nothing = Nothing
SYMMETRY TenancySymmetric
INVARIANTS
    AdminFindsTenants
CHECK_DEADLOCK FALSE
