SPECIFICATION Spec
CONSTANTS
    Orders = {o1}
    Drivers = {d1, d2, d3}
    Fees = {f1, f2}
    None = None
    o1 = o1
    d1 = d1
    d2 = d2
    d3 = d3
    f1 = f1
    f2 = f2
INVARIANTS
    GoodsAgree
    StatusAgrees
    FeeAgrees
PROPERTIES
    StatusFollowsGraph
    RoundChangesAreEnqueued
    GoodsFollowTheChain
    OtherLoadChangesAreEnqueued
CHECK_DEADLOCK FALSE
