SPECIFICATION Spec
CONSTANTS
  db = db
  api = api
  job = job
  app = app
  cfg = cfg
  Manifest <- StackManifests
  Needs <- StackNeeds
  Waitable <- StackWaitable
  Labelled <- StackWaitable
  Unresolvable = {}
  Recreate = {job}
  Forcible = {db}
  Existing = {db, job, cfg}
  Limit = 2
  CanTimeOut = TRUE
CHECK_DEADLOCK FALSE
INVARIANTS TypeOK NeedsReadyFirst SuccessIsComplete
PROPERTIES EndsUnlessClosed ImplementsDeployOrder
