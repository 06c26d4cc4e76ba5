CONSTANTS
  HeaderSize = 2
  FooterSize = 1
  PageSize = 8
  InitialAddr = 8
  InitialPages = 1
  MaxPages = 5
  Sizes = {1, 13}
  Alignments = {0, 8}
SPECIFICATION TreeSpec
INVARIANT TreeIndexesHeap
PROPERTY ImplementsHeap
CHECK_DEADLOCK FALSE
