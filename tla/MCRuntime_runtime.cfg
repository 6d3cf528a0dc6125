SPECIFICATION FairSpec
CONSTANTS
    Workers = {w1, w2}
    Spins = {s1}
    Kinds <- OtherThanTake
    MaxAttempts = 2
    MaxRevision = 2
    MaxFaults = 1
    w1 = w1
    w2 = w2
    s1 = s1
PROPERTIES
    KeyIsSound
    RuntimeHeals
CHECK_DEADLOCK FALSE
