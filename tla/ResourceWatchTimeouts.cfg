SPECIFICATION Spec
CONSTANT Retries = 10
CHECK_DEADLOCK FALSE
INVARIANT TransientErrorsAreRetried
