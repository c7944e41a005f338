SPECIFICATION MCSpec
CONSTANTS
    Prefix = prefix
    Settings = {prefix, camera, profile}
    Default = {camera}
    Threads = {gui, master}
    Saver = gui
    DiskFull = TRUE
    Axes = {"x", "y"}
    ProfileSections <- SomeProfiles
    LargestFilter = 2
    LoadCap = 1
    MaxCommon = 1
    AxisDefaults <- SomeDefaults
    AxChanges = 3
    Axis <- SomeAxis
    Mults = {2, 3, 4}
    Limits = {1, 2}
    MaxEdits = 3
    Links <- SomeLinks
    AxesOf <- SomeAxesOf
    Confs <- SomeConfs
    DefaultConf <- PackageConf
    DvChanges = 3
    ModelNames = {"a", "b"}
    Files <- SomeModels
    DevTypes = {"Webcam Face Tracker", "Joystick", "Wiimote"}
    MdSteps = 5
    Names = {"s", "s0000"}
    Candidates <- SomeCandidates
    Written = {1, 2}
    MaxCalls = 3
    Starts <- SomeStarts
    MaxUser = 3
INVARIANTS
    TypeOK
    Recoverable
    AloneForgetsNothing
    SettingsAgree
