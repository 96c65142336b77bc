SPECIFICATION Spec
CONSTANTS
    Sessions = {s1, s2}
    Build = Build
    build = build
    test = test
    aBuild = aBuild
    aTest = aTest
    aOther = aOther
    Labels <- MCLabels
    Addr <- MCAddr
    AddressOf <- MCAddressOf
    Clients = {c1}
    MaxLetters = 1
    None = None
SYMMETRY SessionSymmetry
INVARIANTS
    MailStaysWithOwner
