SPECIFICATION Spec
CONSTANTS
    NoWindow = NoWindow
    Runs = {r1}
    Windows = {v1}
    Submitters = {s1}
    Workers = {w1, w2}
    Slots = 1
    Ids = {1, 2}
    MaxRequeues = 2
PROPERTIES
    FreshClaimsLeftAlone
