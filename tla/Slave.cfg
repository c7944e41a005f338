SPECIFICATION FairSpec
CONSTANTS
    Ops = {"suspend", "shutdown", "recenter"}
    MaxCalls = 1
    MaxBreaks = 1
    MaxPoses = 1
INVARIANTS
    TypeOK
    AtMostOnce
PROPERTIES
    SlaveEnds
\* A slave may end.
CHECK_DEADLOCK FALSE
