SPECIFICATION SharedSpec
CONSTANTS
    h1 = h1
    h2 = h2
    p1 = p1
    p2 = p2
    NoHash = NoHash
    NoRecord = NoRecord
    NoCursor = NoCursor
    Entities <- TwoEntities
    Hashes <- TwoHashes
    Procs <- TwoProcs
    MaxSeq = 3
    Limit = 1
INVARIANTS
    NoRecordLost
CHECK_DEADLOCK FALSE
