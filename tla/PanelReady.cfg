SPECIFICATION Spec
CONSTANTS
  a = a
  b = b
  None = None
  Targets <- OneTarget
  MaxItems = 1
  MaxClicks = 1
  MaxFailures = 0
  MaxPolls = 3
CHECK_DEADLOCK FALSE
PROPERTY
  ReadyIsShown
