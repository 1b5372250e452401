SPECIFICATION MCSpec
CONSTANTS
  MaxTurns = 2
  KeepLast = 2
  MaxRetries = 1
  MaxExactRepeats = 2
  MaxCycleLength = 2
  Tools = {"exploit", "inspect_self", "patch_self", "probe", "claim", "unknown"}
  Registered = {"exploit", "inspect_self", "patch_self", "probe", "claim"}
  Lines = {"line"}
  Requests = {"x", "y"}
  MaxCalls = 2
  MaxTurn = 2
  MaxEnvelopes = 3
  SeenLimit = 2
  SeenKept = 1
  Meshes = {"m1", "m2"}
  Specs <- MCSpecs
  Hubs = {"hub"}
  Nobody = "nobody"
  MaxHeard = 1
INVARIANTS TypeOK ToolUseAnswered CallsFromOneReply ReplayOnlyAfterTrim
PROPERTIES NoStaleIdentity CombatantExits
