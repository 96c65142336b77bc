SPECIFICATION Spec
CONSTANTS
    MaxSession = 2
    MaxWindow = 2
    MaxPane = 3
    MaxClient = 2
    Spaces = {sa, sb}
    NoSpace = NoSpace
SYMMETRY SpaceSymmetry
PROPERTIES
    RefusalKeepsSessions
CHECK_DEADLOCK FALSE
