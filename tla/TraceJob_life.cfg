SPECIFICATION FairSpec
CONSTANTS
    Imports = {i1, i2}
    Runs = {w1, w2}
    Attempts = 2
    MaxStalls = 1
    Batches = 2
    NoRun = NoRun
    Faults <- AllFaults
INVARIANTS AnnouncedIsStored OneWalkAtATime
PROPERTIES CompletedStays TraceEnds
CHECK_DEADLOCK FALSE
