SPECIFICATION FairSpec
CONSTANTS
    Controllers = {main, gui}
    Main = main
INVARIANTS
    TypeOK
    NoSleepingRequest
    TrackerProtocol
PROPERTIES
    DeviceSpec
    SleeperWakes
\* A process that crashed stops.
CHECK_DEADLOCK FALSE
