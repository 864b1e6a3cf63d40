SPECIFICATION Spec
CONSTANTS
  Configs <- WslSkipExport
  ConfigInBag = FALSE
INVARIANTS
  FaultFreeBuildSucceeds
