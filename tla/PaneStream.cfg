CONSTANTS
    None = None
    Capacity = 2
    Batch = 1
    Budget = 3
    Window = 1
    MaxFrames = 3
    MaxRestarts = 1
    MaxDrops = 1
SPECIFICATION Spec
INVARIANT CursorTellsReplica
PROPERTY ImplementsMirror OnlyBoundsBlock
CHECK_DEADLOCK FALSE
