\* Saving to two files, relaying and posting together.
CONSTANTS
  Paths = {p1, p2}
  EmptyPath = EmptyPath
  NoFile = NoFile
  MaxFrames = 2
  Modes <- MCModes
  Urls <- MCUrls
  Targets <- MCTargets
  ParsedUrl <- MCParsedUrl
  Unparsable = Unparsable
  NoTarget = NoTarget
  NoSnapshot = NoSnapshot
  RetryCounts <- MCRetryCounts
  Timeouts <- MCTimeouts
  AuthTypes <- MCAuthTypes
  Formats <- MCFormats
  InitialSettings <- WriterInitialSettings
  Updates <- WriterUpdates
  kMaxQueueSize = 1
  Int64Max = 2
SPECIFICATION Spec
INVARIANTS
  TypeOK
  WriterMatchesSettings
PROPERTY
  SavedAsConfigured
