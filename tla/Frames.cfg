SPECIFICATION FramesSpec
CONSTANTS
    N = 3
    Sizes = {small, large}
    MaxFrame = 5
    MaxSessions = 3
    TpDevices = {"tir4", "tir5"}
    TpLines = {1, 2}
    TpWords = 2
    TpTransfers = 2
    TpRequests = 1
    TpCuts = 0
    HwKinds = {"tir2", "tir3", "tir4", "tir5", "tir5v3", "sn3", "sn4"}
    HwOpens = 2
    HwPauses = 1
    HwTroubles = {"crash", "unplug", "silence", "no file", "refused"}
INVARIANTS
    FramesTypeOK
    NoTearing
    WriterFinds
    DetectorReads
    TrackIrObeys
PROPERTIES
    ShownInOrder
    StopReturns
\* The camera stops after MaxFrame frames.
CHECK_DEADLOCK FALSE
