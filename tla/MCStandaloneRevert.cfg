SPECIFICATION FairSpec
CONSTANTS
  b1 = b1
  b2 = b2
  Boxes = {b1, b2}
  NoBox = NoBox
  MaxDeploys = 3
  MaxFaults = 2
INVARIANTS TypeOK NoWriteLost DutiesLeaveNothing
PROPERTY StandaloneServes
CHECK_DEADLOCK FALSE
