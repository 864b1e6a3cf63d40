SPECIFICATION Spec
CONSTANTS
  b1 = b1
  b2 = b2
  other = other
  vmA = vmA
  vmB = vmB
  swA = swA
  swB = swB
  Builds <- TwoBuilds
  Others <- OtherVMs
  VMNames <- TwoNames
  SwitchNames <- TwoSwitches
  Setups <- AnySetup
INVARIANTS
  TypeOK
  OneHolder
  ReachesOwnGuest
  SwitchServes
PROPERTIES
  TakesOnlyOwn
  EndsOrWaitsForOff
