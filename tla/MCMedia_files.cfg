SPECIFICATION FairSpec
CONSTANTS
    Assets = {a1, a2}
    MainCategories = {mainCategory}
    Subcategories = {subcategory}
    Stores = {store}
    Products = {product}
    Drivers = {driver}
    Orders = {order}
    DocumentSlots = 1
    Confirms = {k1}
    Workers = {w1, w2}
    Creators = {c1, c2}
    c1 = c1
    c2 = c2
    Quota = 1
    Plans <- TwoUploads
    MaxFaults = 1
    None = None
    a1 = a1
    a2 = a2
INVARIANTS
    ObjectsAgree
    ReferencesAgree
    QuotaHoldsOnTime
PROPERTY
    CleanUpEnds
CHECK_DEADLOCK FALSE
