SPECIFICATION Spec
CONSTANTS
  Rev <- ChainRev
  Down <- ChainDown
  Anc <- ChainAnc
  Jobs = {j1, j2, j3}
  Free = Free
  Requests <- AskingChain
  Stamps <- ChainStamps
  Kind <- Mixed
  EmptyDown = {3}
  Drops <- DryDrops
  Inspects <- DryInspects
  Driver = "psycopg2"
  Populated = TRUE
  LockPolls = 1
  Faults = {"kill"}
  MaxFaults = 2
SYMMETRY JobSymmetry
INVARIANTS SettledInv KillNeverWedges
PROPERTIES ConvergesInParts
