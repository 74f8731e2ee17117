\* One user who orders again only after an answer, edits the cart meanwhile, and goes on past midnight.
CONSTANTS
    u1 = u1  u2 = u2  u3 = u3  p1 = p1  p2 = p2  p3 = p3  r1 = r1  r2 = r2  r3 = r3
    Users = {u1}
    Products = {p1, p2}
    Requests = {r1, r2}
    None = None
    LastDay = 2
    MaxQuantity = 2
    MaxAsked = 3
    Overlap = FALSE
    UserOf <- MCOneUser
    InitialStock <- MCStock
    Total <- MCTotal
SPECIFICATION Spec
INVARIANTS SoldAtMostAsked SummaryMatchesOrders
CHECK_DEADLOCK FALSE
