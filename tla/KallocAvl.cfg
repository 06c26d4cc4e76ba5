CONSTANTS
  Keys <- ThirteenHoles
  Capacity = 12
  Wanted = {5, 13, 20}
  Alignings = {0, 8}
SPECIFICATION AvlSpec
INVARIANTS TreeOK ContentsOK AssertsHold FindOK
CHECK_DEADLOCK FALSE
