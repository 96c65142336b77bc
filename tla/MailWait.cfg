SPECIFICATION Spec
CONSTANTS
    Waiters = {w1, w2}
    Clients = {c1, c2}
    Namers = {n1}
    Addr = {home, away}
    Home = home
    MaxLetters = 2
    MaxRequests = 2
    Free = Free
INVARIANTS
    NoLostWakeup
    OnlyCycleBlocks
PROPERTIES
    MailEndsWait
CHECK_DEADLOCK FALSE
