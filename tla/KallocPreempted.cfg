CONSTANTS
  HeaderSize = 2
  FooterSize = 1
  PageSize = 8
  InitialAddr = 8
  InitialPages = 1
  MaxPages = 3
  Sizes = {1, 4}
  Alignments = {0, 8}
SPECIFICATION OpenSpec
INVARIANT FoundHoleUnused
CHECK_DEADLOCK FALSE
