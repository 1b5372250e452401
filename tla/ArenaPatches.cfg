SPECIFICATION Spec
CONSTANTS
  c1 = c1
  c2 = c2
  k1 = k1
  k2 = k2
  p1 = p1
  p2 = p2
  Chosen <- MCChosen
  Claims <- MCNone
  Patches <- TwoPatches
  Difficulties <- OnlyMedium
  ChainAvailable = FALSE
  DiskMayFail = TRUE
INVARIANTS OrphansAccounted FileMatchesVerdicts
PROPERTIES PatchesAnswered ScoresOnlyGrow
CHECK_DEADLOCK FALSE
