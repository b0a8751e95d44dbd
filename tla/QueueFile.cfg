SPECIFICATION FairSpec
CONSTANTS
  a = a
  b = b
  Nobody = Nobody
  Threads <- MCThreads
  Targets <- MCTargets
  Triggers <- MCTriggers
  Modes <- MCModes
  MaxTerminal = 2
  MaxAttempts = 1000000
  MaxId = 4
  MaxKills = 2
PROPERTIES
  KeepsPromise
  EveryCallReturns
