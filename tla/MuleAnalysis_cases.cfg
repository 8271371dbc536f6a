SPECIFICATION AnalysisSpec
CONSTANTS
    c1 = c1  c2 = c2  c3 = c3
    t1 = t1  t2 = t2  t3 = t3  t4 = t4  t5 = t5
    o1 = o1  o2 = o2
    Tolerance = 5
    MaxDwell = 1
    MinOutputs = 2
    Hour = 2
    MinChain = 2
    MaxOutputs = 3
    Valve = 8
    MaxAge = 7
    CreatedAt <- MCCreatedAt
    Never = Never
    Found <- MCFound
    Settled = {t4}
    Running = {t1, t2, t3}
    CaseOf <- MCCaseOf
    SeedOf <- MCSeedOf
    Officers = {o1, o2}
    Asked = {c1, c2}
    Asks = 2
    MaxMishaps = 1
    NoGraph = NoGraph
INVARIANTS SharedFlagsHold GroupsAreRings RerunIsSafe MeasuresAgree
SYMMETRY Symmetry
CHECK_DEADLOCK FALSE
