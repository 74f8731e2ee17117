SPECIFICATION FairSpec
CONSTANTS
    TripAfter = 3
    MaxStarts = 2
    Products = 7
    FullPage = 3
    ShortPage = 1
INVARIANTS
    DownIffRunOfBad
    InOrderUnlessResized
    SkippedOnlyAfterReset
    RepeatedOnlyAfterTrip
PROPERTIES
    SickReplicaAvoided
    WellReplicaUsed
