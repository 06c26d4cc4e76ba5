CONSTANTS
  Keys <- ThirteenHoles
  Capacity = 3
  Wanted = {9}
  Alignings = {0, 8}
SPECIFICATION AvlSpec
INVARIANT ChosenIsSmallest
CHECK_DEADLOCK FALSE
