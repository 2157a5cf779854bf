SPECIFICATION MCPipelineSpec
CONSTANTS
  Branch = {"main", "feature"}
  Default = "main"
  Hash = {"h1"}
  Env = {"dev", "preprod"}
  Cluster = {"dev", "own"}
  Chart = {"web"}
  Setting = {"plain", "own"}
  Plain = "plain"
  EnvOf <- Environments
  ClusterOf <- Clusters
  MaxCommits = 3
  MaxJobs = 1
  Charts <- MCCharts
  Order <- MCOrder
  Global <- MCGlobal
  Kinds <- MCKinds
  Dependencies <- MCDependencies
  CustomWaitableKinds <- MCCustomWaitableKinds
  Uses <- MCUses
  BuildScenarios <- MCScenarios
CHECK_DEADLOCK FALSE
INVARIANTS
  
  SelectedIsBuilt
  NeedsReachTheirRuns
  FailureHasReason
  WavesFollowNeeds
