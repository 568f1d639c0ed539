SPECIFICATION PageSpec
CONSTANTS
    Queries = {q1}
    Pages = 2
    NoItem = NoItem
    Elsewhere = Elsewhere
    MaxSearches = 2
    MaxDetails = 1
INVARIANTS
    AddressOpensItsEntity
CHECK_DEADLOCK FALSE
