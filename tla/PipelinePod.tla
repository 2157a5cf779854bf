----------------------------- MODULE PipelinePod -----------------------------
(***************************************************************************)
(* What the Job of a pipeline hands to the kontinuous it runs              *)
(* (webhook/src/k8s/resources/pipeline.job.js, services/custom.js): its    *)
(* environment, and for the manifests of "deploy --on-webhook" the config  *)
(* file written by an init container.  Environment variables are named by  *)
(* the configuration key that looks them up.                               *)
(***************************************************************************)

\* What a Job depends on, besides the branch and the commit.
Feature == {"env", "kubeconfig", "deployKey", "chart", "ignoreTemplates"}

\* The variables of every Job, KS_WORKSPACE_PATH to KS_BUILD_UPLOAD.
Always == {"workspacePath", "ci", "ciNamespace", "webhookUri", "webhookToken",
           "projectName", "gitRepositoryUrl", "gitBranch", "gitSha", "debug",
           "upload"}

Sometimes(features) ==
  {k \in {"environment", "kubeconfig", "deployKeyFile", "chart",
          "ignoreProjectTemplates"} :
     \/ k = "environment" /\ "env" \in features
     \/ k = "kubeconfig" /\ "kubeconfig" \in features
     \/ k = "deployKeyFile" /\ "deployKey" \in features
     \/ k = "chart" /\ "chart" \in features
     \/ k = "ignoreProjectTemplates" /\ "ignoreTemplates" \in features}

\* The part of its configuration that the client sends (deploy-on-webhook.js).
DeployConfig == {"deployWithPlugin", "gitRepositoryUrl", "gitRepository",
  "gitBranch", "gitSha", "gitRepositoryName", "repositoryName", "refLabelKey",
  "refLabelValue", "deploymentEnvLabelKey", "deploymentEnvLabelValue",
  "deploymentLabelKey", "deploymentLabelForceNewDeploy",
  "deploymentLabelValue", "dependencies"}

PodGives(features) == {"env"} \X (Always \union Sometimes(features))

\* The Job of the custom manifests also has the client's configuration as
\* .kontinuous/config.yaml of its workspace, and no chart.
CustomPodGives(features) ==
  PodGives(features \ {"chart", "ignoreTemplates"})
  \union {"workspace"} \X DeployConfig

\* The volumes of the Job, which "checkout" and "pipeline" mount.
Volumes(has) == {"workspace"} \union (has \cap {"kubeconfig", "deployKey", "gitAuth"})

=============================================================================
