SPECIFICATION MCSpec
CONSTANTS
  Width = 5
  Height = 4
  Pictures <- SomePictures
  MaxBlobs = 3
  MinPoints = 2
  MaxPoints = 9
  Codes = {0, 1}
  Coordinates <- PitchAndYaw
  Lowest <- SomeLowest
  Highest <- SomeHighest
  Scale = 100
  KernelBuffer = 2
  Batch = 2
  JsMoves = 3
  JsSessions = 2
  JsAssigns = 1
  Indications = {"on"}
  WiConnects = 2
  WiRequests = 3
  WiServers = 2
  WcBuffers = 3
  WcPictures = 4
  WcSessions = 2
  WcPauses = 1
  WcFailures = 1
  PsPayloads = 3
  PsTransfer = 2
  PsFrames = 4
  PsLosses = 3
  PsValues = {0, 1}
  PsDefault = 0
  PsSets = 2
  PsShows = 1
  PsPauses = 1
  PsErrors = 1
  CoBuffers = 2
  CoPictures = 3
  CoSessions = 2
  CoPauses = 1
  WfWebcams <- SomeWebcams
  WfChoices = 3
  WfOpenings = 2
INVARIANTS
  DriversTypeOK
  BlobsAreAreas
  FormatAsChosen
  PicturesWhole
  RemoteFollows
CHECK_DEADLOCK FALSE
