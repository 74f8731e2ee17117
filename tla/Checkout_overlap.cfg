\* Three users at once: two compete for the same products, all three for the day's summary; requests end and nothing restarts them.
CONSTANTS
    u1 = u1  u2 = u2  u3 = u3  p1 = p1  p2 = p2  p3 = p3  r1 = r1  r2 = r2  r3 = r3
    Users = {u1, u2, u3}
    Products = {p1, p2, p3}
    Requests = {r1, r2, r3}
    None = None
    LastDay = 1
    MaxQuantity = 1
    MaxAsked = 1
    Overlap = TRUE
    UserOf <- MCUserOf
    InitialStock <- MCStock
    Total <- MCTotal
SPECIFICATION Spec
CONSTRAINT MCAsks
INVARIANTS TypeOK TransactionsIsolated StockAccounted SummaryMatchesOrders EventForEachOrder DeadlocksOnStockOrNewDay
PROPERTIES RefusedOnCommittedStock OrdersAreAtomic
CHECK_DEADLOCK FALSE
