SPECIFICATION Spec
CONSTANTS
    Waiters = {w1, w2}
    Clients = {c1}
    Namers = {n1}
    Addr = {home, away}
    Home = home
    MaxLetters = 2
    MaxRequests = 2
    Free = Free
INVARIANTS
    NoLockCycle
CHECK_DEADLOCK FALSE
