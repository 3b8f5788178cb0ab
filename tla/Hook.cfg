SPECIFICATION FairSpec
CONSTANTS
  Images <- ThreeReleases
  Top = 6
  Built <- BuiltAt
  Until <- KeptTill
  First = 1
  LockTimeout = 2
  Deadline = 4
  StartTicks = 1
  Hasty = FALSE
  MaxCommits = 5
INVARIANTS TypeOK HookInv ServingWorks
PROPERTIES RolloutOnConverged WaitIsExplained SyncEnds LastCommitTried
