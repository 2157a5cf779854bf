---------------------------- MODULE ConfigTable -----------------------------
(***************************************************************************)
(* The two tables of common/config/load-config.js: every key of the        *)
(* configuration with the places it is looked up, what it falls back on    *)
(* and which other keys that fallback reads.  The order of a table is the  *)
(* order load-structured-config.js goes through it, so a fallback sees the *)
(* keys above it as this pass left them and those below as the previous    *)
(* pass did.                                                               *)
(*                                                                         *)
(* A default that is falsy (false, "") is never applied by the code        *)
(* ("if (defaultValue && ...)"), so such a key is a plain Lookup here.     *)
(***************************************************************************)
EXTENDS Sequences

InEnv == {"env"}
InOption == {"option"}
Either == {"env", "option"}

Row(k, in, by, needs, reads) ==
  [key |-> k, in |-> in, by |-> by, needs |-> needs, reads |-> reads,
   keep |-> k \in {"buildRootPath", "buildPath"}]

\* Looked up only.
Lookup(k, in) == Row(k, in, "none", {}, {})
\* Falls back on a constant.
Constant(k, in) == Row(k, in, "value", {}, {})
\* Falls back on a function of other keys.
Computed(k, in, reads) == Row(k, in, "function", {}, reads)
\* The same, undefined unless every key of needs has a value.
Optional(k, in, needs, reads) == Row(k, in, "function", needs, needs \union reads)
\* The places are looked up by the fallback itself, not before it.
Asking(k, in, reads) == Row(k, in, "asking", {}, reads)
\* A transform gives the key a value whether or not it had one.
Shaped(k, in, reads) == Row(k, in, "shape", {}, reads)

WorkspaceKeys == <<
  Lookup("actionCommandName", InOption),
  Lookup("debug", Either),
  Computed("kontinuousHomeDir", InEnv, {}),
  Constant("workspacePath", Either),
  Constant("workspaceSubPath", Either),
  Computed("workspaceKsPath", {}, {"workspacePath", "workspaceSubPath"}) >>

\* An exception to the order of option and environment is left out: KS_GIT_
\* REPOSITORY_URL wins over the option (load-config.js:128-131); and that a branch
\* looked for in the remote sets gitDefaultBranch (204).
GitKeys == <<
  Computed("git", InEnv, {"workspacePath"}),
  Lookup("gitDisableWarning", InEnv),
  Lookup("gitRequired", InEnv),
  Asking("gitRepositoryUrl", Either, {"git", "workspacePath"}),
  Computed("gitRepository", {}, {"gitRepositoryUrl", "workspacePath"}),
  Lookup("gitDefaultBranch", InEnv),
  Lookup("gitBranchRetrieveDefaultFromRemote", Either),
  Asking("gitBranch", Either, {"git", "workspacePath", "gitDefaultBranch",
                           "gitBranchRetrieveDefaultFromRemote",
                           "gitRepositoryUrl"}),
  Computed("gitBranchSlug32", {}, {"gitBranch"}),
  Computed("gitSha", Either, {"git", "workspacePath"}),
  Computed("gitRepositoryName", {}, {"gitRepository"}),
  Computed("repositoryName", {}, {"gitRepositoryName"}) >>

PipelineKeys == <<
  Constant("deploymentLabelForceNewDeploy", InEnv),
  Computed("pipelineId", {}, {"repositoryName", "chart", "gitBranch", "gitSha",
                              "deploymentLabelForceNewDeploy"}),
  Computed("deploymentLabelValue", {}, {"pipelineId"}) >>

BuildKeys == <<
  Constant("kontinuousPath", InEnv),
  Constant("version", {}),
  Lookup("chart", Either),
  Computed("helmArgs", Either, {}),
  Lookup("inlineConfig", Either),
  Shaped("configSet", Either, {}),
  Lookup("inlineValues", Either),
  Lookup("set", Either),
  Computed("buildRootPath", InEnv, {}),
  Computed("buildPath", InEnv, {"buildRootPath"}),
  Computed("buildProjectPath", {}, {"buildPath"}) >>

LabelKeys == <<
  Shaped("environmentPatterns", {}, {}),
  Computed("environment", Either, {"gitBranch", "environmentPatterns"}),
  Lookup("projectName", InEnv),
  Constant("refLabelKey", {}),
  Computed("refLabelValue", {}, {"gitBranch"}),
  Constant("deploymentEnvLabelKey", {}),
  Computed("deploymentEnvLabelValue", {},
           {"repositoryName", "chart", "gitBranch", "environment"}),
  Constant("deploymentLabelKey", {}) >>

Served == {"webhookUri", "webhookToken"}
Query == {"projectName", "gitRepositoryUrl", "gitBranch", "gitSha"}

WebhookKeys == <<
  Optional("webhookToken", Either, {"webhook"}, {}),
  Optional("webhookUri", Either, {"webhook"}, {}),
  Lookup("webhhookServiceAccountName", InEnv),
  Lookup("webhookMountKubeconfig", InEnv),
  Lookup("webhhookMountSecrets", InEnv),
  Lookup("upload", Either),
  Optional("uploadUrl", Either, Served, Query),
  Optional("downloadUrl", Either, Served, Query),
  Lookup("deployCustomManifestsOnWebhook", InOption),
  Lookup("editor", Either),
  Constant("deployWithPlugin", Either),
  Optional("statusUrl", Either, Served, Query) >>

ClusterKeys == <<
  Computed("ci", InEnv, {}),
  Computed("isLocal", InEnv, {"ci"}),
  Lookup("provider", InEnv),
  Shaped("clusterEnvironments", {}, {}),
  Optional("cluster", InEnv, {"environment"}, {"clusterEnvironments"}),
  Computed("kubeconfig", Either, {}),
  Lookup("kubeconfigContext", Either),
  Lookup("ciNamespaceDefaultFallback", {}),
  Computed("ciNamespace", Either,
           {"ciNamespaceDefaultFallback", "projectName", "repositoryName"}) >>

LinkKeys == <<
  Lookup("inOfficialDockerImage", InEnv),
  Constant("linksSelfLocation", {}),
  Constant("remoteLinks", {}),
  Shaped("links", {}, {}) >>

SecretKeys == <<
  Lookup("private", Either),
  Optional("deployKeyFile", Either, {"private"}, {}),
  Computed("deployKeySecretEnabled", InEnv, {"private"}),
  Constant("deployKeySecretName", InEnv),
  Constant("gitAuthSecretEnabled", InEnv),
  Constant("gitAuthSecretName", InEnv),
  Constant("gitAuthSecretKey", InEnv),
  Constant("gitAuthHost", InEnv) >>

DiffKeys == <<
  Computed("gitDiffEnabled", Either, {"actionCommandName"}),
  Computed("gitDiffBranch", {}, {"gitBranch", "gitDiffEnabled", "workspacePath",
                                 "gitRepositoryUrl", "deployKeyFile"}),
  Computed("gitDiffCommits", InEnv, {"gitDiffEnabled", "gitBranch", "gitDiffBranch",
                                 "deployKeyFile"}),
  Computed("changedPaths", {}, {"gitDiffCommits"}) >>

\* "options" instead of "option": the --event option is not looked up.
RunKeys == <<
  Constant("event", InEnv),
  Lookup("ignoreProjectTemplates", Either),
  Constant("externalBinForceDownload", InEnv),
  Constant("disablePlugin", Either),
  Constant("disableStep", Either),
  Lookup("noValidate", Either),
  Lookup("sentryDSN", InEnv),
  Computed("sentryEnabled", InEnv, {"sentryDSN"}),
  Constant("sentryKontinuousConfig", InEnv),
  Constant("gracefullShutdownTimeoutSeconds", InEnv) >>

OrgKeys == <<
  Constant("gitOrg", Either),
  Constant("gitOrgRepository", InEnv),
  Constant("gitOrgPath", InEnv),
  Lookup("gitOrgOverride", InEnv),
  Lookup("gitOrgRequired", InEnv),
  Lookup("gitOrgRef", InEnv) >>

RootTable == WorkspaceKeys \o GitKeys \o PipelineKeys

MainTable ==
  BuildKeys \o LabelKeys \o WebhookKeys \o ClusterKeys \o LinkKeys
  \o SecretKeys \o DiffKeys \o RunKeys \o OrgKeys

=============================================================================
