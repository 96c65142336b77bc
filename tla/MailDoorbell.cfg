CONSTANTS
    None = None
    Doorbell = doorbell
    c1 = c1
    c2 = c2
    MaxPanes = 2
    Clients = {c1, c2}
    Reach <- OnFirst
    Chunks <- OneAgent
    QueueSize = 2
    MaxMail = 1
    MaxRev = 2
    MaxMoves = 1
SPECIFICATION Spec
INVARIANT LinesNotCrossed LedgerKnowsLine RingsAtMostTwice NudgeIsCurrent LampTellsMail ReadyLetterRings
PROPERTY LettersRing
