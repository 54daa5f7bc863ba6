CONSTANTS
    p1 = p1
    p2 = p2
    p3 = p3
    p4 = p4
    c1 = c1
    c2 = c2
    b1 = b1
    b2 = b2
    x = x
    y = y
    z = z
    u = u
    None = None
    Placement = {p1, p2, p3, p4}
    Cancellation = {c1, c2}
    Buyer = {b1, b2}
    Sku = {x, y, z, u}
    Sold = {x, y, z}
    BuyerOf <- Buyers
    Items <- Baskets
    CurrencyOf <- Prices
    Initial <- Stock
    MaxFailures = 2
SPECIFICATION Spec
CHECK_DEADLOCK FALSE
INVARIANTS TypeOK StockConserved OrderKept CancelledOnceByOwner
