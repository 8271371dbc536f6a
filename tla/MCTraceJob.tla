------------------------------ MODULE MCTraceJob ------------------------------
(* Small instances of TraceJob for TLC.                                        *)
EXTENDS TraceJob

AllFaults == {"queue", "row", "store", "publish", "crash", "stall"}
=============================================================================
