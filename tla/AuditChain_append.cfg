SPECIFICATION FairSpec
CONSTANTS
    e1 = e1  e2 = e2  e3 = e3
    Recorders = {e1, e2, e3}
    Verifiers = {v1}
    Scopes <- MCScopes
    ScopeOf <- ScopeOf3
    NoOne = NoOne
    Tampering = TRUE
INVARIANTS NoFalseAlarm TamperingIsFound
PROPERTIES ImplementsLog EveryRecordEnds
CHECK_DEADLOCK FALSE
