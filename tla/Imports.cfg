SPECIFICATION ImportsSpec
CONSTANTS
    r1 = r1
    v1 = v1
    s1 = s1
    w1 = w1
    w2 = w2
    m1 = m1
    m2 = m2
    m3 = m3
    d1 = d1
    d2 = d2
    d3 = d3
    g1 = g1
    g2 = g2
    l1 = l1
    l2 = l2
    e1 = e1
    e2 = e2
    e3 = e3
    k1 = k1
    k2 = k2
    x1 = x1
    c1 = c1
    c2 = c2
    NoWindow = NoWindow
    Runs <- OneRun
    Windows <- OneWindow
    Submitters <- OneSubmitter
    Workers <- TwoWorkers
    Slots = 1
    Ids <- TwoIds
    MaxRequeues = 1
    NoMeeting = NoMeeting
    NoDocument = NoDocument
    Meetings <- TwoMeetings
    Documents <- ThreeDocuments
    MaxPerRun = 1
    MinAge = 1
    SuspectTTL = 1
    MaxTime = 2
    MaxChanges = 2
    MaxRetries = 3
    MaxImports = 3
    NoRecord = NoRecord
    Sources <- TwoSources
    MaxActive = 0
    LastDay = 2
    MaxDelay = 1
    Limiters <- TwoLimiters
    BaseCooldown = 1
    MaxCooldown = 2
    Interval = 1
    ReadTTL = 1
    MaxThrottles = 2
    MaxCallers = 2
    NoItem = NoItem
    Media = Media
    Main = Main
    WindowMeetings <- ThreeMeetings
    WindowDocuments <- TwoDocuments
    Recordings <- OneRecording
    Entries <- ThreeEntries
    Rosters <- TwoMembers
    Lists <- TwoLists
    MotionLists <- OneMotionList
    HeldOn <- DaysHeld
    ChildrenOf <- OneAssembly
    Attached <- Hanging
    ListOf <- ListsOfEntries
    MembersOf <- OneCommittee
    RecordingsOf <- OneRecorded
    NotPublic <- OnePrivateItem
    Pool <- TwoWorkers
    LastWindowDay = 2
    BatchSize = 2
    ChunkDays = 2
    MotionLimit = 1
    RegisterLimit = 1
    NotubizChunkDays = 3
    PageSize = 1
    BlockLists <- BlocksInOrder
    SpeakerLists <- NobodyOrTwo
    Agendas <- SomeAgendas
    TargetSeconds = 3
    MaxGap = 1
    SiteChunkDays = 2
    TransportTries = 3
    ThrottleRetries = 2
    RetryAfters <- NoWait
    Calendar <- TwoDays
    Filings <- SomeFilings
    Horizon = 5
    NoLink = NoLink
    MonthEnds <- ShortMonths
    YearEnds <- ShortYears
    ChunkMonths = 1
    MinWindowDays = 0
    Today = 8
    Histories <- OneHistory
    Planners = {1, 2}
    MaxPlans = 2
    MaxDaily = 1
    ByHand <- SomeByHand
CONSTRAINT FewTroubles
INVARIANTS
    ImportsTypeOK
    ClaimsHold
    DropsAreReported
    OnlyLeftoversEscapeTheScan
    NoNightIsLost
    ThrottlesAreHeeded
    NothingLostSilently
PROPERTIES
    LifecycleRespected
    RetractedAfterTwoGoneAnswers
    StoredTextIsKept
CHECK_DEADLOCK FALSE
