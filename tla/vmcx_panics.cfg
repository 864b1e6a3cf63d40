SPECIFICATION Spec
CONSTANTS
  Configs <- Clones
  ConfigInBag = FALSE
INVARIANTS
  NoPanic
