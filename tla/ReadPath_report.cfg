SPECIFICATION Spec
CONSTANTS
    r1 = r1
    r2 = r2
    Requests <- MCRequests
    TripAfter = 2
    MaxStarts = 2
    MaxCommits = 1
SYMMETRY Symmetry
INVARIANTS
    ReportsNeverOnPrimary
