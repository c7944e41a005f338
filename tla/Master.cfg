SPECIFICATION Spec
CONSTANTS
    Clients = {k1, k2}
    Commands = {"PAUSE", "WAKEUP"}
    MaxCommands = 1
    MaxFd = 3
    HeartbeatAfter = 1
    Nobody = Nobody
INVARIANTS
    RegistrySound
    BroadcastComplete
\* The loop may be left.
CHECK_DEADLOCK FALSE
