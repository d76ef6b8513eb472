SPECIFICATION FcvSpec
CONSTANTS
  n1 = n1
  n2 = n2
  n3 = n3
  Nodes = {n1, n2, n3}
  NoNode = NoNode
  Newest = 2
  MaxFaults = 1
CHECK_DEADLOCK FALSE
INVARIANTS NobodyEvictedAtAll
