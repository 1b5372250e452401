SPECIFICATION MCSpec
CONSTANTS
  Bank <- MCBank
  Size = 4
  Endpoints <- MCEndpoints
  Users = {"alice", "ops"}
  Admins = {"ops"}
  SeedBalance = 1
  Amounts = {1}
  Nonces = {1}
  s1 = s1
  s2 = s2
  Slots <- MCSlots
  MaxRequests = 2
  MaxBoots = 2
SYMMETRY Alike
INVARIANTS TypeOK BooksBalance WoundWasServed
CHECK_DEADLOCK FALSE
