SPECIFICATION Spec
CONSTANTS
    c1 = c1
    c2 = c2
    w1 = w1
    w2 = w2
    Clients = {c1}
    Web = {w1, w2}
    TTL = 3
    MaxFails = 2
    Lockout = 3
    FailDelay = 1
    Recent = 2
    MaxRejects = 0
    MaxTime = 5
INVARIANTS
    ActiveUserStays
