\* Two output files, three frames: a file can be left, torn and re-opened.
CONSTANTS
  Paths = {p1, p2}
  EmptyPath = EmptyPath
  NoFile = NoFile
  MaxFrames = 3
SYMMETRY PathSymmetry
SPECIFICATION WriterSpec
INVARIANTS
  WriterTypeOK
  WriterStable
  ReportedOnceInOrder
PROPERTY
  AppendOnly
