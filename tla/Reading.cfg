SPECIFICATION ReadingSpec
CONSTANTS
    Calls = {c1, c2, c3}
    Limit = 2
    Window = 3
    Second = 2
    MaxTime = 5
    MaxResends = 1
    MaxRestarts = 1
    FollowDocs = {d1}
    Nil = None
    Delays = 2
    Reserve = 1
    FollowLimit = 3
    MaxFollows = 1
    MaxRuns = 3
SYMMETRY CallsSymmetric
INVARIANTS
    ReadingOK
    SlidingWindow
    RemainingIsKept
    RetryAfterFreesASlot
    OneChain
    ShownIsTrue
    ReserveIsTheReaders
PROPERTIES
    NeverBack
CHECK_DEADLOCK FALSE
