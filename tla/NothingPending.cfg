SPECIFICATION Spec
CONSTANTS
  Rev <- DiamondRev
  Down <- DiamondDown
  Anc <- DiamondAnc
  Jobs = {j1, j2}
  Free = Free
  Requests <- DiamondRequests
  Stamps <- DiamondStamps
  Kind <- AllPlain
  EmptyDown = {}
  Drops = {}
  Inspects = {}
  Driver = "psycopg2"
  Populated = TRUE
  LockPolls = 1
  Faults = {}
  MaxFaults = 1
PROPERTIES NothingPendingExitsZero
