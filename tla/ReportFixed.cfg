SPECIFICATION Spec
CONSTANTS
  Nothing = Nothing
  Defects <- TwoDefects
  KnownTo <- Knows
  VerifiedBy <- Verifies
  Severity <- SameSeverity
  Position <- Positions
  Plans <- OnePlan
  Covered <- Covers
  MaxTasks = 1
  OverallTimeout = 2
  SourceTimeout = 1
  AgentTimeout = 1
  MaxReports = 2
  MaxMishaps = 0
CHECK_DEADLOCK FALSE
INVARIANT
  FixedIsGone
