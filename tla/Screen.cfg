CONSTANTS
  Procs = {p1, p2}
  Cols = 2
  Rows = 2
  Texts <- AllTexts
  MaxPreempted = 2
SPECIFICATION Spec
INVARIANT Confined
PROPERTY CallsRight
SYMMETRY Symmetry
CHECK_DEADLOCK FALSE
