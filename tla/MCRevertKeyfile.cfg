SPECIFICATION Spec
CONSTANTS
  b1 = b1
  b2 = b2
  Boxes = {b1, b2}
  NoBox = NoBox
  MaxDeploys = 2
  MaxFaults = 1
CHECK_DEADLOCK FALSE
INVARIANT KeyfileRetired
