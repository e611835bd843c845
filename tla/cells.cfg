SPECIFICATION Spec
CONSTANT
  Measurements <- DistinctMeasurements
INVARIANTS
  PictureSettles
