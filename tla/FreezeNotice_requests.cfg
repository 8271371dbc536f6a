SPECIFICATION FairSpec
CONSTANTS
    Requests = {1, 2, 3, 4, 5}
    Crowd = {1, 2, 3, 4}
    Assembled = b1
    b1 = b1  b2 = b2
    Bodies = {b1, b2}
    NoBody = NoBody
    NoRequest = NoRequest
    Faults <- AllFaults
INVARIANTS AuditMatchesFilings
PROPERTIES ImplementsLifecycle AttemptIsClosed
CHECK_DEADLOCK FALSE
