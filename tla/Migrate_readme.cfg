SPECIFICATION ReadmeSpec
CONSTANTS
    Servers = {s1}
    Hands = {make}
    Total = 6
    ScriptOf <- MCScripts
    MaxStarts = 2
    MaxFaults = 0
INVARIANTS
    ReadmeStepsSucceed
CHECK_DEADLOCK FALSE
