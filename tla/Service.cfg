SPECIFICATION ServiceSpec
CONSTANTS
    w1 = w1
    w2 = w2
    q1 = q1
    c1 = c1
    c2 = c2
    x1 = x1
    x2 = x2
    x3 = x3
    t1 = t1
    t2 = t2
    t3 = t3
    NoJob = NoJob
    Jobs <- TwoJobs
    Workers <- TwoWorkers
    MaxRequeues = 1
    MaxTime = 3
    MaxReindexes = 1
    Queries <- OneQuery
    Pages = 2
    NoItem = NoItem
    Elsewhere = Elsewhere
    MaxSearches = 2
    MaxDetails = 1
    Results <- ThreeResults
    MaxRows = 6
    Limit = 2
    InitialRatio = 2
    MinBatch = 2
    MaxBatch = 3
    ScanBudget = 5
    Clients <- TwoClients
    Capacity = 3
    PhraseCost = 2
    Slots = 1
    MaxClock = 10
    PageAskers <- OneAsker
    DocPages = 2
    MaxVersion = 2
    RowsAsked <- TwoEach
    MaxIndexRows = 3
    MaxOthers = 1
    PdfLength = 3
    AskedPages <- SomePages
    FetchBehind = 0
    FetchAhead = 1
    CacheBuffer = 1
    MaxPageRequests = 5
    NoTerm = NoTerm
    Terms <- ThreeTerms
    HitsIn <- SomeHits
INVARIANTS
    TypeOK
    ServiceTypeOK
    OneApplyActive
    OneExecutor
    RequeuesBounded
    NothingTakenDownIsLeft
    MarkerHidesOlderCopies
    ScreensAreTrue
    PagesAreWhole
    AdmissionIsExact
PROPERTIES
    SettledIsFinal
CHECK_DEADLOCK FALSE
