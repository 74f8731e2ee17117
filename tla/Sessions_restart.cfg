SPECIFICATION Spec
CONSTANTS
    Tabs = {t1, t2}
    Users = {u1, u2}
    None = None
    Keep = Keep
    MaxTokens = 3
CONSTRAINT NotCrossed
SYMMETRY SessionSymmetry
INVARIANTS
    SessionAndCookieAgree
