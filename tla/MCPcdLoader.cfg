\* Every way to give a playlist, while three files change and the timers keep
\* firing.
CONSTANTS
  Files <- MCFiles
  NoPath = NoPath
  Directories = {"dir", "no_dir"}
  Listing <- MCListing
  NoDirectory = NoDirectory
  Matched <- MCMatched
  Clouds = {"v1", "v2"}
  NoCloud = NoCloud
  Configs <- MCConfigs
SPECIFICATION FairSpec
INVARIANTS
  TypeOK
  CacheMatchesEntry
  RoundInOrder
  TurnsAccounted
PROPERTIES
  OnceDelivered
  PlaylistLoops
