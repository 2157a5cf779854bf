-------------------------- MODULE MCPipelineRequest --------------------------
(* The default branch and a branch of a feature; a repository whose file      *)
(* deploys features to preprod, on a cluster of its own.                      *)
EXTENDS PipelineRequest

\* environmentPatterns and clusterEnvironments: the defaults, and a file's.
Environments ==
  [plain |-> [r \in Ref |-> IF r = "main" THEN "preprod" ELSE "dev"],
   own |-> [r \in Ref |-> IF r = "HEAD" THEN None ELSE "preprod"]]
Clusters ==
  [plain |-> [e \in Env |-> "dev"],
   own |-> [e \in Env |-> IF e = "dev" THEN None ELSE "own"]]

=============================================================================
