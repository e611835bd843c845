SPECIFICATION Spec
CONSTANT
  MaxRate = 1000
INVARIANTS
  WithinBracket
  FieldsLegal
  NearestRate
PROPERTIES
  MonotoneInSmallSteps
CHECK_DEADLOCK FALSE
