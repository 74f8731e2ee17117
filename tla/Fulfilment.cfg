\* One user whose order form is sent twice at the same time, and one worker, which may crash twice.
CONSTANTS
    u1 = u1  p1 = p1  p2 = p2  w1 = w1
    Users = {u1}
    Products = {p1, p2}
    Requests = {1, 2}
    Workers = {w1}
    None = None
    LastDay = 1
    MaxQuantity = 1
    MaxAsked = 2
    Overlap = TRUE
    Batch = 2
    Poison = {}
    MaxFaults = 2
    UserOf <- MCUserOf
    InitialStock <- MCStock
    Total <- MCTotal
SPECIFICATION FSpec
INVARIANTS AnnouncedWereOrdered
PROPERTIES CheckoutsEnd OrdersAnnounced
CHECK_DEADLOCK FALSE
