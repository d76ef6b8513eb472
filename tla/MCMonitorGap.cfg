SPECIFICATION Spec
CONSTANTS
  n1 = n1
  n2 = n2
  Nodes = {n1, n2}
  NoNode = NoNode
  First = n1
  Dwell = 3
  MaxFaults = 4
ACTION_CONSTRAINT LongStays
PROPERTY StuckIsTrueAcrossGaps
