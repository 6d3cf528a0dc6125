SPECIFICATION Spec
CONSTANTS
    s1 = s1
    u1 = u1
    u2 = u2
    None = None
    t1 = t1
    t2 = t2
    i1 = i1
    StoreIds = {s1}
    Subcategories = {u1, u2}
    Mains = {1, 2}
    Images = {i1}
    Transactions = {t1, t2}
    Ticks = 4
    Schedules <- Hours
    Stock <- StockAll
    MaxCommands = 3
SYMMETRY Swapped
INVARIANTS
    OnlyTheseFail
    ScheduleAgrees
PROPERTIES
    NothingJoinsTheArchived
CHECK_DEADLOCK FALSE
