SPECIFICATION Spec
CONSTANTS
  db = db
  app = app
  Manifest <- Two
  Need <- AppNeedsDb
  Disabled = {}
  HasStatus = TRUE
CHECK_DEADLOCK FALSE
INVARIANTS TypeOK HonestSuccess StatusTellsTheEnd NothingLeftRunning
PROPERTIES VerdictStands VerdictEnds
