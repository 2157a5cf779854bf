SPECIFICATION Spec
CONSTANT Retries = 10
CHECK_DEADLOCK FALSE
INVARIANTS TypeOK FailedHasReason
PROPERTIES WatchEnds ImplementsWatchOutcome
