\* One file is enough to glue a line onto a torn one.
CONSTANTS
  Paths = {p1}
  EmptyPath = EmptyPath
  NoFile = NoFile
  MaxFrames = 3
SPECIFICATION WriterSpec
INVARIANT
  ReportedLinesParseable
