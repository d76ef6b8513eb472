SPECIFICATION Spec
CONSTANTS
  n1 = n1
  n2 = n2
  n3 = n3
  NoNode = NoNode
  Nodes = {n1, n2, n3}
  MaxRotations = 1
  MaxFaults = 2
SYMMETRY NodeSymmetry
INVARIANTS TypeOK OneRestart Settled
PROPERTY RefinesSharedKey
CHECK_DEADLOCK FALSE
