SPECIFICATION Spec
CONSTANT
  MaxRate = 1
INVARIANTS
  ClampsToColdest
CHECK_DEADLOCK FALSE
