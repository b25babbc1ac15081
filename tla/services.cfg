SPECIFICATION Services
CONSTANTS
    ann = ann
    bob = bob
    cat = cat
    kate = kate
    s1 = s1
    s2 = s2
    None = None
    NoRow = NoRow
    Last = 3
    Long = {1}
    MaxTries = 2
    PageSize = 1
    RowIds = {1, 2, 3}
    MaxFailures = 2
    Principals = {ann, bob, cat, kate}
    FirstAdmins = {ann, bob}
    Tokens = {"t1", "t2"}
    Urls = {"u1"}
    Base <- FourHandles
    Projects <- TwoNames
    Slots = {s1, s2}
    MaxRequests = 3
    MaxPasses = 2
    Day = 2
    Threshold = 4
    Duration = 6
CHECK_DEADLOCK FALSE
INVARIANTS
    PodsCanPush
    EventsAreAccountedFor
    SummaryIsLatest
    PagesSkipNothing
    AdminsRemain
    CredentialsIntact
    LoginsSettle
    TwinDetectors
