SPECIFICATION FairSpec
CONSTANTS
  Rev <- BraidRev
  Down <- BraidDown
  Anc <- BraidAnc
  Jobs = {j1, j2}
  Free = Free
  Requests <- BraidRequests
  Stamps <- BraidStamps
  Kind <- AllPlain
  EmptyDown = {}
  Drops = {}
  Inspects = {}
  Driver = "psycopg2"
  Populated = TRUE
  LockPolls = 1
  Faults = {"drop", "kill", "unlock", "statement"}
  MaxFaults = 2
INVARIANTS ReleasesAbreast SchemaMatchesStamp
PROPERTIES NoDowngradeWithoutConsent EveryRunEnds LockIsReleased
CHECK_DEADLOCK FALSE
