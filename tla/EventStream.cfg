SPECIFICATION Spec
CONSTANTS
    Followers = {f1}
    Players = {t1}
    Panes = {p1}
    Capacity = 3
    Limit = 1
    MaxSequence = 6
    MaxRestarts = 1
    MaxDrops = 2
INVARIANTS
    RingIsRecentHistory
    ActivityCoalesced
    ViewIsPrefix
PROPERTIES
    ImplementsEventLog
    CatchesUp
