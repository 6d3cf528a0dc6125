SPECIFICATION Spec
CONSTANTS
    admin = admin
    employee = employee
    merchant = merchant
    driver = driver
    customer = customer
    city1 = city1
    city2 = city2
    store1 = store1
    store2 = store2
    Admins = {admin}
    Employees = {employee}
    Merchants = {merchant}
    Drivers = {driver}
    Customers = {customer}
    Cities = {city1, city2}
    Stores = {store1, store2}
    StoreCity <- OneCity
    Casts <- AccountCasts
    Requests = {r1}
    Changes = {x1, x2}
    StaffLimit = 2
    MerchantLimit = 2
    DriverLimit = 1
    CustomerLimit = 2
    MaxAttempts = 2
    MaxSessions = 2
    MaxSecrets = 2
    MaxChallenges = 3
    Budget <- Budgets
    None = None
INVARIANTS
    LimitHolds
    ReuseIsFatal
    RevokedAreOut
    ScopesAgree
SYMMETRY Symmetry
CHECK_DEADLOCK FALSE
