SPECIFICATION Spec
CONSTANTS
    product = product
    o1 = o1
    o2 = o2
    k1 = k1
    k2 = k2
    e1 = e1
    e2 = e2
    c1 = c1
    c2 = c2
    Products = {product}
    Orders = {o1, o2}
    Carts <- TwoCarts
    PlaceKeys = {k1, k2}
    Placings = {c1, c2}
    EditKeys = {e1, e2}
    MaxPrice = 2
    MaxQuantity = 2
    MaxLines = 3
    MaxEdits = 3
    None = None
SYMMETRY Symmetry
INVARIANTS
    LinesExplained
    PlacedOnce
PROPERTY
    EditsOncePerKey
CHECK_DEADLOCK FALSE
