SPECIFICATION Spec
CONSTANTS
  again = again
  other = other
  before = before
  Client = {again, other}
  Earlier = {before}
  Detached = {other}
  HashOf <- SameHash
  CommitOf <- SameCommit
  MaxTurns = 2
  MaxTries = 2
CHECK_DEADLOCK FALSE
INVARIANTS SuccessIsEarned ShownOnceInOrder
PROPERTY CommandEnds
