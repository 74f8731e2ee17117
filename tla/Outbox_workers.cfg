\* Two workers, a poison event in front of the others, batches of two, two faults anywhere.
CONSTANTS
    w1 = w1  w2 = w2  None = None
    Workers = {w1, w2}
    Events = {1, 2, 3, 4}
    Batch = 2
    Poison = {2}
    MaxFaults = 2
SPECIFICATION FairSpec
INVARIANTS TypeOK TicksIsolated RepeatsBounded
PROPERTIES DeliversAtLeastOnce HealthyProcessed
CHECK_DEADLOCK FALSE
