SPECIFICATION FairSpec
CONSTANTS
  n1 = n1
  n2 = n2
  n3 = n3
  NoNode = NoNode
  Nodes = {n1, n2}
  MaxRotations = 2
  MaxFaults = 1
INVARIANTS RestartsAgree
PROPERTY Completes
CHECK_DEADLOCK FALSE
