SPECIFICATION FairSpec
CONSTANTS
  n1 = n1
  n2 = n2
  n3 = n3
  Nodes = {n1, n2, n3}
  NoNode = NoNode
  First = n1
  Away = n3
  FreezeTime = 3
  CatchupTime = 1
  Deadline = 4
  PromotionTime = 2
  DemoteTime = 6
  MaxRequests = 2
  MaxFaults = 1
INVARIANTS TypeOK
PROPERTIES HandsToTarget HandoffKeepsWrites Settles
