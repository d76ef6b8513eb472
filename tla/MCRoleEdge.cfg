SPECIFICATION FairSpec
CONSTANTS
  n1 = n1
  n2 = n2
  n3 = n3
  Members = {n1, n2, n3}
  Servers = {n1, n2}
  Watched = n1
  NoMember = NoMember
  Rise = 2
  Fall = 2
  MaxFaults = 3
INVARIANTS TypeOK PulledInTime
PROPERTIES BlipSpares EdgeSettles
