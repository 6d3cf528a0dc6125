SPECIFICATION CommandsSpec
CONSTANTS
    Drivers = {1, 2}
    MaxDriver = 2
    Orders = {o1, o2, o3}
    Commands = {c1, c2}
    OrderJobs <- SomeJobs
    Nobody = Nobody
    First = o1
    Third = o3
SYMMETRY Symmetry
INVARIANTS
    AtMostTwo
    DeadlocksCross
PROPERTY
    CommandsAreAtomic
