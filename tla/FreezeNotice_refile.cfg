SPECIFICATION Spec
CONSTANTS
    Requests = {1, 2, 3, 4, 5, 6}
    Crowd = {1, 2, 3, 4, 5, 6}
    Assembled = b1
    b1 = b1  b2 = b2
    Bodies = {b1}
    NoBody = NoBody
    NoRequest = NoRequest
    Faults <- NoFault
INVARIANTS NoRefilingAfterSuccess
CHECK_DEADLOCK FALSE
