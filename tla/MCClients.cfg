SPECIFICATION MCSpec
CONSTANTS
  Functions <- SomeFunctions
  Optional = {"ltr_wait"}
  Forgotten = {"ltr_init", "ltr_shutdown", "ltr_suspend"}
  EnvPlaces <- AnEnvPlace
  PrefixPlaces <- TwoPlaces
  LbCalls = 2
  Outputs = {"fifo", "tcp", "udp", "uinput"}
  Formats = {"uinput_rel", "uinput_abs"}
  Addresses <- TwoAddresses
  PpTimeout = 2
  PpPoses = 1
  PpSignals = 2
  PpPeers = 1
  Pictures <- SomePictures
  Room = 3
  PipeSize = 2
  OsWaits = 2
  OsPoses = 3
  Seats = {0, 10}
  Poses = {0, 1, 2}
  XpOrders = 4
  Games = {"g", "h"}
  Ids = {"a", "c", "d"}
  KeyOf <- SomeKeys
  Plain = "plain"
  Absent = "absent"
  Scans = {1, 2}
  WbEvents = 4
  Angles <- SomeAngles
  Ranges = {2}
  Setups = {"s", "t"}
  CentreDelay = 1
  CalDelay = 1
  TryDelay = 2
  MkPresses = 4
  HotKeyIds = {1, 2}
  Keys = {1, 2, 3}
  Unknown = {3}
  HkChanges = 2
  Buttons = {1, 2}
  ClEvents = 5
  ClTries = 2
  Blocks = {"f1"}
  Trees <- SomeTrees
  ExStarts = 2
INVARIANTS
  ClientsTypeOK
  RequestsHeeded
  PosesPassedOn
  MouseFaithful
  WineFaithful
PROPERTIES
  ClientsEnd
\* Programs end.
CHECK_DEADLOCK FALSE
