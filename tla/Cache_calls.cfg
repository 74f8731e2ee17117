SPECIFICATION FairSpec
CONSTANTS
    Getters = {g1, g2, g3}
    None = None
    Ttl = 2
    MaxClock = 3
    MaxVersion = 1
INVARIANTS
    TypeOK
    OlderByLessThanTtl
PROPERTIES
    OneEntryPerTtl
    GetReturns
CHECK_DEADLOCK FALSE
