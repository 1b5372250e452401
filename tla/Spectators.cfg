SPECIFICATION MCSpec
CONSTANTS
  Commentator = "commentator"
  Judges = {"skeptic"}
  Connections <- MCConnections
  MaxReplay = 6
  MaxLag = 6
  MaxReactions = 1
  LogKept = 2
  MaxWire = 1
  Fights = {"submitted", "probe", "verified"}
  MaxFights = 2
INVARIANTS TypeOK PageIsComplete
PROPERTIES BoardNeverDrops ChorusExits
CHECK_DEADLOCK FALSE
