SPECIFICATION Spec
CONSTANTS
  c1 = c1
  c2 = c2
  k1 = k1
  k2 = k2
  p1 = p1
  p2 = p2
  Chosen <- MCChosen
  Claims <- TwoClaims
  Patches <- MCNone
  Difficulties <- EasyAndHard
  ChainAvailable = TRUE
  DiskMayFail = FALSE
INVARIANTS LifecycleOrder EventNamesUnique ScoresAnnounced
CHECK_DEADLOCK FALSE
