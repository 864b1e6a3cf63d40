SPECIFICATION Spec
CONSTANTS
  Requests <- SomeRequests
  WordMB = 4096
INVARIANTS
  TypeOK
  SizesExact
  AsRequested
  FirstBootDeviceWins
  NestedWarned
  UnwarnedVlansAgree
  AcceptedIsBuildable
