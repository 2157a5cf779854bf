SPECIFICATION Spec
CONSTANTS
  first = first
  again = again
  second = second
  c1 = c1
  c2 = c2
  ci = ci
  Hook = {first, second}
  Commit = {c1, c2}
  CommitOf <- TwoCommits
  Gitlab = {second}
  Follower = {ci}
  Wanted <- AllWantTheFirst
  Catch = {ci}
  MaxTurns = 2
CHECK_DEADLOCK FALSE
PROPERTIES AcceptedIsRun
