SPECIFICATION Spec
CONSTANTS
    bearer = bearer  apiKey = apiKey
    t1 = t1  t2 = t2  t3 = t3  k1 = k1
    login = login  create = create
    a = a  b = b
    c1 = c1  c2 = c2
    Schemes = {bearer, apiKey}
    Credentials = {t1, t2, t3, k1}
    Nothing = Nothing
    Issued <- MCIssued
    Expiry <- MCExpiry
    Minute = 1
    MaxTimer = 1
    MaxClock = 2
    MaxBehind = 2
    MaxChanges = 1
    Ops = {login, create}
    Hands <- MCHands
    Needs <- MCNeeds
    MaxCalls = 2
    Absent = Absent
    Id = Id
    Sources <- MCSources
    FollowStart = Absent
    SharedRefusals = {"no key", "bad key", "too many"}
    Documents <- MCDocuments
    Ids = {1, 2, 3}
    MaxTyped = 2
    Operations = {a}
    Texts = {"example", "broken"}
    Example = "example"
    Valid = {"example"}
    None = None
    HISTORY_SIZE = 2
    MaxSent = 3
    Journey <- MCJourney
    Documented <- MCDocumented
    Polls = 1
    MaxRunsStarted = 2
    MaxReads = 1
    Checks = {c1, c2}
    MaxDisturbed = 2
    Blocks = {a, b}
    TagOfBlock <- MCTagOfBlock
    Finds = 1
    Corrections = 2
    MaxAsked = 3
    MaxLanded = 3
    Rows = 2
    Queries <- MCQueries
    MaxHandled = 3
    Names = {"acme", "globex"}
    MaxDocuments = 2
    Missing = Missing
    QueuedFor = 1
    RenderingFor = 1
    RateLimit = 1
    WINDOW = 1
    MaxTime = 2
INVARIANTS
    ConsoleOK
    ExpiryIsShown
    NotesTellTheState
    FieldsHoldTheirIds
    PageAgrees
    SheetIsTheAnswer
    HistoryHasTheAnswer
    LandsWhereAsked
PROPERTIES
    JourneyActsForItself
    JourneyEnds
    WindowSettles
    DemoFollowsLifecycle
CHECK_DEADLOCK FALSE
