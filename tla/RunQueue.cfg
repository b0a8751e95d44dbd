SPECIFICATION Spec
CONSTANTS
  t1 = t1
  t2 = t2
  t3 = t3
  Targets <- MCTargets
  Triggers <- MCTriggers
  Modes <- MCModes
  MaxTerminal = 2
  MaxAttempts = 1000000
  MaxId = 6
INVARIANTS
  TypeOK
  WritesNeverRefused
  RunningIsOldest
  HandedOutAtMostTwice
PROPERTY
  NoItemIsLost
