SPECIFICATION Spec
CONSTANTS
  Settable = {"deploymentLabelForceNewDeploy", "environment", "projectName", "webhook", "gitOrgRequired", "chart"}
  Scenarios <- PairsAndPods
  MaxDepth = 3
CHECK_DEADLOCK FALSE
INVARIANTS DerivedFollowsItsSources UserHasTheLastWord PodReportsToItsClient
PROPERTY LoadEnds
