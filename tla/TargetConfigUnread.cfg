SPECIFICATION Spec
CONSTANTS
  a = a
  b = b
  Absent = Absent
  Threads <- OneThread
  Urls <- MCUrls
  OldUrl = "old"
  MaxCalls = 3
  MaxFaults = 1
CHECK_DEADLOCK FALSE
PROPERTY
  UnreadableIsNeverEmpty
