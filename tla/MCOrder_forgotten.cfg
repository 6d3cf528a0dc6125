SPECIFICATION Spec
CONSTANTS
    Orders = {o1}
    Drivers = {d1, d2}
    Fees = {f1}
    None = None
    o1 = o1
    d1 = d1
    d2 = d2
    f1 = f1
PROPERTY
    LoadChangesAreEnqueued
CHECK_DEADLOCK FALSE
