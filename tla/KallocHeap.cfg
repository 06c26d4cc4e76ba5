CONSTANTS
  HeaderSize = 2
  FooterSize = 1
  PageSize = 8
  InitialAddr = 8
  InitialPages = 1
  MaxPages = 4
  Sizes = {1, 4, 10}
  Alignments = {0, 8}
SPECIFICATION Spec
INVARIANTS TypeOK WellFormed Coalesced HolesExact LiveBlocks LiveDisjoint NoAssertFails BoundedGrowth
CHECK_DEADLOCK FALSE
