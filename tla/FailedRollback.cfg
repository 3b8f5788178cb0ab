SPECIFICATION Spec
CONSTANTS
  Targets <- TooFar
INVARIANT ConvergedIsBuilt
CHECK_DEADLOCK FALSE
