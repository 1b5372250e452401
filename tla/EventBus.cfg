SPECIFICATION Spec
CONSTANTS
  s1 = s1
  s2 = s2
  Subscribers <- MCSubscribers
  Backlog = 2
  QueueSize = 3
  MaxEvents = 6
INVARIANTS TypeOK GapFree UpToDate BacklogIsNewest
PROPERTIES QueuedIsYielded LeftIsForgotten ImplementsLog
CHECK_DEADLOCK FALSE
