SPECIFICATION Spec
CONSTANTS
  Alerts = {a1, a2, a3}
  Batch = 2
  MaxKills = 1
INVARIANTS TypeOK EventKept
PROPERTIES SyncsGetThere
CHECK_DEADLOCK FALSE
