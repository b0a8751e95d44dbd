SPECIFICATION FairSpec
CONSTANTS
  Nothing = Nothing
  Targets <- OneTarget
  Modes <- OneMode
  Zones <- TwoZones
  LocalDate <- Calendar
  FirstZone <- East
  MaxTerminal = 2
  MaxAttempts = 1000000
  MaxRequests = 2
  MaxClock = 1
  MaxCrashes = 2
  MaxFaults = 1
  MaxEvents = 2
INVARIANTS
  TypeOK
  DailyKeyHasReport
  OneReportPerDailyKey
  LockGuardsRun
  PublishedReportIsSaved
PROPERTY
  EveryItemSettles
CHECK_DEADLOCK FALSE
