SPECIFICATION Spec
CONSTANTS
  Configs <- NameUnchecked
  ConfigInBag = FALSE
INVARIANTS
  NameCollisionPrevented
