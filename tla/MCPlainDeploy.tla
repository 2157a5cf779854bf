---------------------------- MODULE MCPlainDeploy ----------------------------
(* A build of two namespaces with a Job, a StatefulSet and a Cluster,        *)
(* over what an earlier build and another environment left.                  *)
EXTENDS PlainDeploy, TLC

CONSTANTS base, migrate, search, gone, theirs, kept

MCNamespace == {"app", "nsp"}
MCKindOf ==
  base :> "Cluster" @@ migrate :> "Job" @@ search :> "StatefulSet"
  @@ gone :> "Deployment" @@ theirs :> "ConfigMap" @@ kept :> "Service"
MCNsOf == [r \in DOMAIN MCKindOf |-> "app"]
MCEnvOf == [r \in DOMAIN MCKindOf |-> IF r = theirs THEN "other" ELSE "mine"]
MCOrder == <<migrate, base, search>>

\* All of them, and those enabled by default but for the import of secrets in
\* the place of the cleaner.
All == {"namespaces", "nsplease-namespaces", "rancher-namespaces", "import-secrets",
        "clear", "cleaner", "clean-orphan", "clean-failed"}
MCPluginSets == {All, All \ {"rancher-namespaces", "clear", "cleaner"}}

MCGiven ==
  <<[key |-> "kubeconfig", to |-> "kubeconfig", from |-> {"kubeconfig"},
     targets |-> {}, reload |-> FALSE, required |-> TRUE],
    [key |-> "registry", to |-> "harbor", from |-> {"harbor-ro", "harbor"},
     targets |-> {"app"}, reload |-> TRUE, required |-> FALSE]>>
MCSecretsOf == [r \in DOMAIN MCKindOf |-> IF r = base THEN {"pg", "tls"} ELSE {}]

=============================================================================
