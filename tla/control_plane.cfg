SPECIFICATION FairSpec
CONSTANTS
  MaxRetries = 2
  BaseDelay = 2
  MaxDelay = 3
  MaxVersion = 2
  MaxFaults = 3
  Nothing = Nothing
INVARIANTS
  ReportsAreTrue
  OnlyPublishedIsApplied
  WaitsDouble
PROPERTIES
  EventuallyCaughtUp
  StopEndsTasks
CHECK_DEADLOCK FALSE
