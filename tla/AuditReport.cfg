SPECIFICATION Spec
CONSTANTS
  Nothing = Nothing
  Defects <- TwoDefects
  KnownTo <- Knows
  VerifiedBy <- Verifies
  Severity <- SameSeverity
  Position <- Positions
  Plans <- TwoPlans
  Covered <- Covers
  MaxTasks = 1
  OverallTimeout = 2
  SourceTimeout = 1
  AgentTimeout = 1
  MaxReports = 3
  MaxMishaps = 1
CHECK_DEADLOCK FALSE
INVARIANTS
  TypeOK
  SourcesShareTheTime
  TasksAreTheWorst
  FixedIsNotSilence
  BaselineIsNewestReady
  ChangesAddUp
