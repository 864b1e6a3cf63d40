\* StepWaitForPowerOff waits on after the shutdown timeout.
CONSTANTS
  Configs <- Waiting
  ConfigInBag = TRUE
SPECIFICATION FairSpec
PROPERTIES TimeoutHonoured
