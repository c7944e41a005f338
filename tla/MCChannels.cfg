SPECIFICATION MCSpec
CONSTANTS
  Models = {"SINGLE", "CAP"}
  MaxFrames = 5
  MaxChanges = 1
  MaxRequests = 1
  MaxSessions = 2
  MaxQueue = 1
  MaxCommands = 1
  TrackFrames = 4
  SessionFrames = 3
  Areas = {16, 100}
  MaxPictures = 5
  ResizedPictures = 3
  MaxStreams = 2
  MaxMasters = 2
  MaxClients = 2
INVARIANTS ChannelsTypeOK Centred PosesTold PicturesSeen
PROPERTIES PointRecenterTaken
CHECK_DEADLOCK FALSE
