SPECIFICATION FairSpec
CONSTANTS
  c1 = c1
  c2 = c2
  Callers = {c1, c2}
  Pollers = {c1}
  Threshold = 2
  MaxBackoff = 2
  LastPassword = 2
  MaxFaults = 1
INVARIANT TypeOK
PROPERTIES FreshPoolSpared FirstTryRecovers Recovers
