SPECIFICATION Spec
CONSTANTS
  Rev <- ChainRev
  Down <- ChainDown
  Anc <- ChainAnc
  Jobs = {j1, j2, j3}
  Free = Free
  Requests <- ChainReleases
  Stamps <- ChainStamps
  Kind <- AllKinds
  EmptyDown = {}
  Drops = {}
  Inspects = {}
  Driver = "psycopg2"
  Populated = TRUE
  LockPolls = 1
  Faults = {"kill", "statement"}
  MaxFaults = 2
SYMMETRY JobSymmetry
INVARIANTS ReleaseInv StampedIsBuilt AheadByOneAtMost
