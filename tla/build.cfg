SPECIFICATION Spec
CONSTANTS
  Configs <- Builds
  ConfigInBag = TRUE
INVARIANTS
  TypeOK
  ArtifactComplete
  PipelineInv
  CollisionHarmless
  OtherSwitchKept
  NoPanic
  NothingLeft
  KeptVmComplete
  FaultFreeBuildSucceeds
PROPERTIES
  EjectOnlyWhenOff
  FilesOutliveVm
  RefinesPromise
