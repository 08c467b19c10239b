\* Two requests against updates by another client, restarts of the detector and
\* the end of the bridge.
CONSTANTS
  FrameIds = {"", "map", "1.0"}
  InputFrame = "map"
  Doubles = {0, 1, 2}
  NaN = NaN
  IntRange = 4
  Sizes = {0, 1, 2, 3, 4, 5}
  Clouds = {}
  InitialParameters <- FewInitial
  Updates <- FewUpdates
  MaxRequests = 2
  Bodies <- MCBodies
  Undeclared = {"typo"}
  NameOrder <- MCOrder
  One = 2
  Int64Max = 5
  Dumped = "1.0"
SPECIFICATION FairSpec
INVARIANTS
  TypeOK
  AnswersTruthful
  ErrorsSetNothing
PROPERTIES
  EveryRequestAnswered
  StopCompletes
