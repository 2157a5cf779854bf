SPECIFICATION Spec
CONSTANTS
  first = first
  again = again
  second = second
  c1 = c1
  c2 = c2
  ci = ci
  Hook = {first, again, second}
  Commit = {c1, c2}
  CommitOf <- TwoCommits
  Gitlab = {}
  Follower = {ci}
  Wanted <- AllWantTheFirst
  Catch = {ci}
  MaxTurns = 2
CHECK_DEADLOCK FALSE
INVARIANTS TypeOK SomeCommitIsDeployed FollowerIsToldTheEnd
PROPERTIES FollowersEnd
