SPECIFICATION Spec
CONSTANTS
  c1 = c1
  c2 = c2
  k1 = k1
  k2 = k2
  p1 = p1
  p2 = p2
  Chosen <- MCChosen
  Claims <- OneClaim
  Patches <- MCNone
  Difficulties <- OnlyMedium
  ChainAvailable = TRUE
  DiskMayFail = FALSE
INVARIANT PaidOnce
CHECK_DEADLOCK FALSE
