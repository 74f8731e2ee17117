\* Two tabs, two users: a first token, two logins; the run ends when all tokens are made.
SPECIFICATION Spec
CONSTANTS
    Tabs = {t1, t2}
    Users = {u1, u2}
    None = None
    Keep = Keep
    MaxTokens = 3
CONSTRAINT NotCrossed
SYMMETRY SessionSymmetry
INVARIANTS
    TypeOK
    PostsActForPage
    TokensAgree
