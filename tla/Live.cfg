SPECIFICATION LiveSpec
CONSTANTS
    h1 = h1
    h2 = h2
    p1 = p1
    r1 = r1
    r2 = r2
    v1 = v1
    s1 = s1
    w1 = w1
    NoWindow = NoWindow
    NoJob = NoJob
    NoHash = NoHash
    NoRecord = NoRecord
    Entities <- TwoEntities
    Hashes <- TwoHashes
    Procs <- OneProc
    MaxSeq = 3
INVARIANTS
    TypeOK
    NoRecordLost
    SegmentsDisjoint
PROPERTIES
    FeedSpec
    EventuallyPublished
    EventuallySettled
CHECK_DEADLOCK FALSE
