SPECIFICATION FairSpec
CONSTANTS
  n1 = n1
  n2 = n2
  n3 = n3
  n4 = n4
  Node = {n1, n2, n3}
  Founders = {n1, n2, n3}
  Away = {n3}
  Deleted = {}
  PruneDwell = 1
  MaxFaults = 0

PROPERTY PruneIsUndone
