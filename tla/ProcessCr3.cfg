CONSTANTS
  Frames <- SomeFrames
  Reserved <- NoMemory
  PagesPerTable = 20
  KernelTables = 2
  NumTables = 4
  FirstTablePage = 1
  CodePages = {0}
  OldStackPages = {59}
  HeapStart = 5
  HeapEnd = 40
  KStackLast = 79
  KStackCount = 1
  Images <- OneProgram
  FirstImage = {40}
  UserPages = {40}
  Values = {"x"}
  MaxPid = 3
SPECIFICATION Spec
INVARIANT Cr3IsDirectory
CHECK_DEADLOCK FALSE
