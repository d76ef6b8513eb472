SPECIFICATION Spec
CONSTANTS
  n1 = n1
  n2 = n2
  n3 = n3
  Node = {n1, n2}
  Rank <- RankOf
  Adopted = {n2}
  Deleted = {}
  Dwell = 3
  GoneDwell = 3
  AskTime = 1
  RoundTime = 3
  SetIds = {s1, s2, s3}
  MaxFaults = 3
SYMMETRY Symmetry
INVARIANTS TypeOK OneInitiator InitiatesAlone UserDataInitiates
PROPERTY FormsOneSet
