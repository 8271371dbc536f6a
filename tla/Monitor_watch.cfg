SPECIFICATION Spec
CONSTANTS
    x1 = x1  x2 = x2  c1 = c1  c2 = c2
    Transfers = {x1, x2}
    NoTransfer = NoTransfer
    Cases = {c1, c2}
    Deliveries = {d1, d2}
    Poller = Poller
    Usd <- MCUsd
    To <- MCTo
    StateRules = {"A5"}
    Medium = 1
    High = 10
    Interval <- MCInterval
    MaxTime = 3  MaxMishaps = 1
SYMMETRY Symmetry
INVARIANTS OpenLinesTrack NoTransferLost NoRepeatedAlert StateAlertReachesAll
CHECK_DEADLOCK FALSE
