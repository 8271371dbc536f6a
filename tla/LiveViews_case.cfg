SPECIFICATION Spec
CONSTANTS
    h1 = h1  h2 = h2  h3 = h3  h4 = h4  a1 = a1
    Hops = {h1, h2, h3, h4}
    NoHop = NoHop
    From <- MCFrom
    To <- MCTo
    Usd <- MCUsd
    Unpriced = Unpriced
    Addresses <- MCAddresses
    Rank <- MCRank
    Turns = 3
    TurnOf <- MCTurnOf
    Quiet = {h4}
    FlushAt = 3
    Attempts = 2
    Alerts = {a1}
    Minima = {NoMin, 4}
    NoMin = NoMin
    NoData = NoData  AlertList = AlertList
    MaxMishaps = 1  MaxReads = 2
INVARIANTS NothingMissed HeardIsListed PathIsHeaviest
CHECK_DEADLOCK FALSE
