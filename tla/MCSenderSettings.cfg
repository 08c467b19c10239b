\* Every kind of update against two payloads and a queue of one, both threads
\* scheduled fairly.
CONSTANTS
  Paths = {}
  EmptyPath = EmptyPath
  NoFile = NoFile
  MaxFrames = 2
  Modes <- MCModes
  Urls <- MCUrls
  Targets <- MCTargets
  ParsedUrl <- MCParsedUrl
  Unparsable = Unparsable
  NoTarget = NoTarget
  NoSnapshot = NoSnapshot
  RetryCounts <- MCRetryCounts
  Timeouts <- MCTimeouts
  AuthTypes <- MCAuthTypes
  Formats <- MCFormats
  InitialSettings <- HttpInitialSettings
  Updates <- HttpUpdates
  kMaxQueueSize = 1
  Int64Max = 2
SPECIFICATION FairSpec
INVARIANTS
  SettingsConsistent
  WorkerCoversQueue
PROPERTIES
  RetriesAsConfigured
  EveryPayloadSettles
  ShutdownCompletes
