SPECIFICATION Spec
CONSTANTS
  Targets <- Releases
INVARIANTS TypeOK RowsAreTips EveryWalkRuns ConvergedIsBuilt
PROPERTY ExitZeroIsThere
