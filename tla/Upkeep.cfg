SPECIFICATION UpkeepSpec
CONSTANTS
    d1 = d1
    d2 = d2
    d3 = d3
    g1 = g1
    g2 = g2
    m1 = m1
    m2 = m2
    m3 = m3
    k1 = k1
    k2 = k2
    e1 = e1
    e2 = e2
    e3 = e3
    Swept <- ThreeDocuments
    KeyOf <- TwoKeys
    Listings <- WithCopies
    SweepLimit = 3
    ConfirmThreshold = 2
    DownSample = 2
    DownPercent = 95
    MaxSweeps = 2
    Records <- TwoRecords
    Readings = {26, 27}
    SnapshotPage = 1
    MaxVersions = 2
    Databases <- TwoDatabases
    InParts = {"log"}
    Parts = 1
    RetentionDays = 1
    LastBackupDay = 2
    Troubles = {"search", "docker", "supplier"}
    Cooldown = 2
    SearchStreak = 3
    LastTick = 3
    SiteMeetings <- ThreeMeetings
    SiteUnder <- OneUnder
    SiteLists <- TwoLists
    SiteEntries <- EntriesOfLists
    ShownOn <- OneEach
    NotOurs <- OneForeign
    MaxChecks = 1
    StatusSources <- OneSource
    Merged = {}
    StatusWindow = 1
    StatusTTL = 1
    MeaningfulRuns = 1
    MaxRunRows = 2
    LastHour = 2
    RowCount = 3
    Sizes = {1, 3, 5}
    MaxBody = 3
    IndexLimit = 4
    IngestAttempts = 2
    RunsPage = 1
    MaxAdminRuns = 2
    MaxUnderWay = 2
    MaxImported = 1
    Asked = {1, 2}
    StatsTTL = 2
    RatioTTL = 1
    PreviewTTL = 1
    RatioMax = 1
    LastMoment = 4
    Catalogs <- TwoCatalogs
    SourceOf <- OneOfEach
    MaxDeletes = 2
    CountNames <- NumbersOfDocuments
    Restartable = {"worker"}
    Loggable = {"worker", "caddy"}
    TokenBudget = 1
INVARIANTS
    UpkeepTypeOK
    SweepsAreSound
    StampMeansBackup
    ReportsAreTrue
CHECK_DEADLOCK FALSE
