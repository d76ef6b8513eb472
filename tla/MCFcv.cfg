SPECIFICATION FcvFairSpec
CONSTANTS
  n1 = n1
  n2 = n2
  n3 = n3
  Nodes = {n1, n2, n3}
  NoNode = NoNode
  Newest = 3
  MaxFaults = 2
CHECK_DEADLOCK FALSE
INVARIANTS FcvTypeOK NobodyEvicted
PROPERTIES FcvFollows
