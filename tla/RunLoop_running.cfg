SPECIFICATION FairSpec
CONSTANTS
    Controllers = {main}
    Main = main
PROPERTIES
    RunningShutdownReturns
\* A process that crashed stops.
CHECK_DEADLOCK FALSE
