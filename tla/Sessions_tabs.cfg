SPECIFICATION Spec
CONSTANTS
    Tabs = {t1, t2}
    Users = {a, b}
    NoUser = NoUser
    NoTab = NoTab
    Requests = {r1, r2}
    K = 2
    MaxTokens = 3
    MaxMishaps = 1
SYMMETRY Symmetry
INVARIANTS SpentOnce Revocable ReplayEndsFamily TokensBelongToUser NothingLeaks NobodyWaitsInVain
PROPERTIES NoSpuriousExpiry
CHECK_DEADLOCK FALSE
