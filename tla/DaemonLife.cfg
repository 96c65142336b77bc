SPECIFICATION Spec
CONSTANTS
    Daemons = {d1, d2, d3}
    Callers = {c1, c2}
    c1 = c1
    c2 = c2
    Login = login
    None = None
    Plays <- MCPlays
    MaxFaults = 1
INVARIANTS
    OneServer
    PidfileNamesOwner
    HeardMoves
PROPERTIES
    UpTellsTruth
    StopRespected
    AcceptedEnds
CHECK_DEADLOCK FALSE
