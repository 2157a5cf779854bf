-------------------------- MODULE MCDependencyTree --------------------------
(* Deployments small enough for TLC, with the shapes users write.           *)
EXTENDS DependencyTree

CONSTANTS db, api, job, app, cfg

\* A database and the migration Job that needs it, a service of its own, an
\* application that needs all three, and a ConfigMap, applied and not watched.
StackManifests == {db, api, job, app, cfg}
StackWaitable == {db, api, job, app}
StackNeeds ==
  [m \in StackManifests |->
     CASE m = job -> {db} [] m = app -> {db, job, api} [] OTHER -> {}]

=============================================================================
