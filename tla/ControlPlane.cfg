SPECIFICATION Spec
CONSTANTS
    MaxSession = 2
    MaxWindow = 3
    MaxPane = 3
    MaxClient = 1
    Spaces = {sa, sb}
    NoSpace = NoSpace
SYMMETRY SpaceSymmetry
INVARIANTS
    ExclusiveOwnership
    SideTablesTrackTopology
    IdleShutdownFinal
    LeaseHolderRegistered
PROPERTIES
    IdsNeverReissued
    RefusalIsAtomic
    SpaceChangeRevokes
CHECK_DEADLOCK FALSE
