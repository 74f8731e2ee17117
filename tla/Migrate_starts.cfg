SPECIFICATION FairSpec
CONSTANTS
    Servers = {s1, s2, s3}
    Hands = {make}
    Total = 6
    ScriptOf <- MCScripts
    MaxStarts = 5
    MaxFaults = 1
INVARIANTS
    RecordedAreWhole
    ServesWholeSchema
    CollisionsHarmless
PROPERTIES
    AbandonedForGood
    SomebodyServes
CHECK_DEADLOCK FALSE
