SPECIFICATION Spec
CONSTANTS
  Rev <- ChainRev
  Down <- ChainDown
  Anc <- ChainAnc
  Jobs = {j1, j2}
  Free = Free
  Requests <- ChainReleases
  Stamps <- ChainStamps
  Kind <- BackfillByHand
  EmptyDown = {}
  Drops = {}
  Inspects = {}
  Driver = "psycopg2"
  Populated = TRUE
  LockPolls = 1
  Faults = {}
  MaxFaults = 1
INVARIANTS ExitZeroMeansConverged
