SPECIFICATION StockSpec
CONSTANTS
    p1 = p1
    s1 = s1
    s2 = s2
    s3 = s3
    c1 = c1
    c2 = c2
    c3 = c3
    g1 = g1
    g2 = g2
    o1 = o1
    o2 = o2
    Null = Null
    Products = {p1}
    Sizes = {s1, s2, s3}
    Categories = {c1, c2, c3}
    Groups = {g1, g2}
    Options = {o1, o2}
    MaxPrice = 1
    MaxSelect = 2
    MaxQuantity = 2
    MaxItems = 1
    MaxChanges = 3
INVARIANTS
    CatalogHolds
    DefaultsExplained
    CartAgreesWithOrder
CHECK_DEADLOCK FALSE
