SPECIFICATION FairSpec
CONSTANTS
  MaxAttempts = 1
  QueueSize = 3
  MaxShots = 2
  MaxAsked = 1
  Worlds <- SomeWorlds
INVARIANTS TypeOK OneAttempt KeepsTrying
PROPERTIES Ends
CHECK_DEADLOCK FALSE
