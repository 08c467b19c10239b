\* Reloads and updates that overlap, and another client.
CONSTANTS
  One = 2
  Int64Max = 5
  Dumped = "1.0"
  NaN = NaN
  TargetNodes <- MCTargetNodes
  Declared <- MCDeclared
  InitialValues <- MCValues
  ReadOnly <- MCReadOnly
  Pieces <- MCPieces
  OneLine <- MCOneLine
  Typed <- MCTyped
  OtherValues <- MCOther
  MaxLoads = 2
  MaxUpdates = 1
SPECIFICATION FairSpec
INVARIANT
  LoneReloadShowsCurrentValues
PROPERTIES
  
  LoadingEnds
  ButtonsComeBack
