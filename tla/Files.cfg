CONSTANTS
  Image <- SomeImage
  Paths <- SomePaths
  Counts = {1, 3}
  InitialCap = 2
  MaxFd = 2
  MaxPid = 2
SPECIFICATION Spec
INVARIANTS TypeOK FdsKept NoWildCall
PROPERTY ReadsFile
CHECK_DEADLOCK FALSE
