\* Five payloads through a queue of two, in changing modes.
CONSTANTS
  Paths = {}
  EmptyPath = EmptyPath
  NoFile = NoFile
  MaxFrames = 5
  Modes <- MCModes
  Urls <- MCUrls
  Targets <- MCTargets
  ParsedUrl <- MCParsedUrl
  Unparsable = Unparsable
  NoTarget = NoTarget
  NoSnapshot = NoSnapshot
  RetryCounts <- MCRetryCounts
  Timeouts <- MCTimeouts
  AuthTypes <- MCAuthTypes
  Formats <- MCFormats
  InitialSettings <- ModeInitialSettings
  Updates <- ModeUpdates
  kMaxQueueSize = 2
  Int64Max = 2
SPECIFICATION Spec
INVARIANTS
  FramesAccounted
  NoLostWakeup
PROPERTY
  ImplementsChannel
