CONSTANTS
    None = None
    Corrupt = Corrupt
    MaxPanes = 3
    FirstLayout <- TwoPanes
    MaxFrames <- FirstOnly
    Capacity = 1
    JournalLimit = 2
    MaxChanges = 1
    MaxFailures = 1
    MaxRestarts = 1
SPECIFICATION Spec
INVARIANT MarkIsSaved RestoredSizeAgrees
PROPERTY ImplementsDurableLog Settles
