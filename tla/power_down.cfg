\* The concurrent StepShutdown is the atomic one of HypervBuild; builds end.
CONSTANTS
  Configs <- Endings
  ConfigInBag = TRUE
SPECIFICATION FairSpec
INVARIANTS PowerTypeOK SelectInv
PROPERTIES ImplementsBuild BuildEnds PollerReturns
