SPECIFICATION FairSpec
CONSTANTS
  Keys = {1, 2}
  Ids = {1, 2}
  Batch = 1
  Sayings <- SomeSayings
  Targets = {0, 1, 2, 3}
  MaxAlerts = 3
  MaxWrites = 2
  MaxRuns = 3
  MaxKills = 1
INVARIANTS TypeOK TrackingFits OverridesInForce 
PROPERTIES BackfillEnds
CHECK_DEADLOCK FALSE
