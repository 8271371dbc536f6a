SPECIFICATION WalkSpec
CONSTANTS
    victim = victim  m1 = m1  m2 = m2  m3 = m3  exch = exch  br1 = br1  br2 = br2
    Addresses = {victim, m1, m2, m3, exch, br1, br2}
    Seed = victim
    Services = {exch}
    Bridges = {br1, br2}
    Landing <- MCLanding
    Nowhere = Nowhere
    Histories <- MCHistories
    Reports = {70, 1000}
    MaxHops = 3
    MinValue = 30
    WindowEnd = 4
    TopK = 2
    HighDegree = 2
    MaxNodes = 4
    FlushAt = 3
INVARIANTS NobodyForgotten MoneyTrail TaintConserved
CHECK_DEADLOCK FALSE
