SPECIFICATION Spec
CONSTANTS
  c1 = c1
  c2 = c2
  Callers = {c1, c2}
  Pollers = {}
  Threshold = 2
  MaxBackoff = 2
  LastPassword = 1
  MaxFaults = 1
SYMMETRY CallerSymmetry
PROPERTY FirstFailureRecovers
