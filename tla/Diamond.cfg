SPECIFICATION Spec
CONSTANTS
  Rev <- DiamondRev
  Down <- DiamondDown
  Anc <- DiamondAnc
  Jobs = {j1, j2, j3}
  Free = Free
  Requests <- DiamondRequests
  Stamps <- DiamondStamps
  Kind <- AllPlain
  EmptyDown = {}
  Drops = {}
  Inspects = {}
  Driver = "psycopg2"
  Populated = TRUE
  LockPolls = 1
  Faults = {"read", "lock", "statement", "unlock", "kill"}
  MaxFaults = 1
SYMMETRY JobSymmetry
INVARIANTS TipsInv TypeOK OneWalker WaitsForTheDead ExitZeroMeansConverged
PROPERTIES NothingPastTheTarget ConvergesInWholeWalks
