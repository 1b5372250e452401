SPECIFICATION MCSpec
CONSTANTS
  Tasks = {"open", "claim", "agent", "tool", "guest"}
  Names = {"m", "e", "a", "chorus", "h", "k"}
  Root = "root"
  Parent <- MCParent
  MaxNonce = 4
  Agents = {"a"}
  Labels = {"l1", "l2"}
  FirstLabel = "l1"
  OldKey = "oldkey"
  NewKey = "newkey"
  MissingKey = "nokey"
  Program <- MCProgram
  MaxCrashes = 1
INVARIANTS TypeOK NoncesAccounted ConfirmedIsWritten ParentIsOwned
PROPERTIES KeystoreSettles PoolDrains
