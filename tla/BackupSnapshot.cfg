SPECIFICATION Spec
CONSTANTS
  v1 = v1
  v2 = v2
  app = app
  auditor = auditor
  Database = Database
  Missing = Missing
  Volumes <- TwoVolumes
  Clients <- TwoClients
  Keep = 1
  MaxWrites = 2
  MaxScripts = 4
  MaxFaults = 2
SYMMETRY Symmetry
CHECK_DEADLOCK FALSE
INVARIANTS
  TypeOK
  ServicesSeeOneMoment
PROPERTIES
  SnapshotIsOneMoment
  ServicesComeBack
  NewestSurvive
