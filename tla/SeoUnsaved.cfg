SPECIFICATION FairSpec
CONSTANTS
  Nothing = Nothing
  Targets <- OneTarget
  Modes <- OneMode
  Zones <- OneZone
  LocalDate <- Calendar
  FirstZone <- East
  MaxTerminal = 2
  MaxAttempts = 1000000
  MaxRequests = 1
  MaxClock = 0
  MaxCrashes = 2
  MaxFaults = 0
  MaxEvents = 2
INVARIANT
  UnsavedIsFailed
CHECK_DEADLOCK FALSE
