SPECIFICATION FairSpec
CONSTANTS
    Clients = {k1, k2}
    Commands = {"RECENTER"}
    MaxCommands = 0
    MaxFd = 3
    HeartbeatAfter = 0
    Nobody = Nobody
PROPERTIES
    EmptiedEnds
\* The loop may be left.
CHECK_DEADLOCK FALSE
