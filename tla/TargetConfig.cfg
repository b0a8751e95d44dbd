SPECIFICATION Spec
CONSTANTS
  a = a
  b = b
  Absent = Absent
  Threads <- TwoThreads
  Urls <- MCUrls
  OldUrl = "old"
  MaxCalls = 3
  MaxFaults = 2
SYMMETRY Symmetry
CHECK_DEADLOCK FALSE
INVARIANTS
  TypeOK
  AnsweredIsKept
  OwnershipWasConfirmed
