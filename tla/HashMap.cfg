CONSTANTS
  Keys = {1, 2, 3, 4, 5}
  Values = {1, 2}
  Hash <- FiveHashes
  InitialCapacity = 0
  MaxCapacity = 16
SPECIFICATION Spec
INVARIANTS Reachable LoadBounded
PROPERTY ImplementsDictionary
CHECK_DEADLOCK FALSE
