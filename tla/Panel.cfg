SPECIFICATION FairSpec
CONSTANTS
  a = a
  b = b
  None = None
  Targets <- TwoTargets
  MaxItems = 1
  MaxClicks = 2
  MaxFailures = 1
  MaxPolls = 2
CHECK_DEADLOCK FALSE
INVARIANTS
  TypeOK
  NewestIsShown
  OnePollingChain
  WaitingIsWatched
PROPERTY
  PollingEnds
