SPECIFICATION Spec
CONSTANTS
  Configs <- Kept
  ConfigInBag = FALSE
INVARIANTS
  KeptVmHoused
