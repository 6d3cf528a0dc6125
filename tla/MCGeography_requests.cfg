SPECIFICATION Spec
CONSTANTS
    Governorates = {1, 2}
    Cities = {1}
    Zones = {z1, z2}
    MaxId = 2
    Cells = {1, 2}
    Requests = {r1, r2}
    Jobs <- SomeJobs
    MaxAttempts = 2
    None = None
SYMMETRY Symmetry
INVARIANTS
    OnlyReassignmentsDeadlock
    DecisionsStand
    ZonesDisjoint
PROPERTY
    LossIsRevoked
