SPECIFICATION Spec
CONSTANTS
  Tasks = {t1, t2, t3, t4}
  Count = 1
  Failures = FALSE
  MaxCons = {1}
  MaxCommands = 6
SYMMETRY TaskSymmetry
INVARIANT AtMostMaxCon
CHECK_DEADLOCK FALSE
