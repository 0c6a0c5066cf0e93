\* Is every layer exposed, when the user may pause?
CONSTANTS
  Layers = 1
  Images = 2
  Bottom = 1
  MaxPresses = 2
SPECIFICATION Spec
PROPERTIES ExposureTimed
CHECK_DEADLOCK FALSE
