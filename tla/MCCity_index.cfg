SPECIFICATION FairSpec
CONSTANTS
    Rounds = {r1, r2}
    Workers = {w1, w2}
    Spins = {s1}
    Kinds <- AllKinds
    MaxAttempts = 2
    MaxRevision = 2
    MaxFaults = 2
    r1 = r1
    r2 = r2
    w1 = w1
    w2 = w2
    s1 = s1
INVARIANTS
    SyncedIsFresh
    ActiveJobIsCurrent
PROPERTIES
    WritesAreSafe
    WorkerHeals
CHECK_DEADLOCK FALSE
