SPECIFICATION Spec
CONSTANTS
  Values = {v1, v2}
  MaxTime = 5
INVARIANTS NeverEarly
CHECK_DEADLOCK FALSE
