SPECIFICATION Spec
CONSTANT Templates <- AllTemplates
INVARIANTS
  TypeOK
  SourcesUntouched
  CloneStartsAsAsked
  ArtifactIsGuest
  ExportIsWhole
  NothingStrays
