------------------------------ MODULE PreDeploy ------------------------------
(***************************************************************************)
(* The pre-deploy plugins of contrib, one after the other before anything  *)
(* is applied: namespaces are made available, secrets are imported from    *)
(* the CI namespace, and what is in the way is deleted.                    *)
(*                                                                         *)
(* A call of kubectl that fails is one that failed for good, after the     *)
(* retries of kubectl-retry; what is here of the cluster is what those     *)
(* plugins read and write.                                                 *)
(***************************************************************************)
EXTENDS Naturals, Sequences, FiniteSets
LOCAL INSTANCE SequencesExt

CONSTANTS
  Namespace,  \* the namespaces among the manifests
  Nsplease,   \* those labelled nsplease/project
  Rancher,    \* those annotated with a rancher project
  Manifest,   \* the other manifests
  Earlier,    \* what else may be in the cluster, from earlier deployments
  KindOf,     \* the kind of each resource
  CustomWaitableKinds, \* of the options of contrib
  NsOf,       \* its namespace
  EnvOf,      \* its label deployment.env
  Env,        \* the one of this deployment
  Given,      \* the entries of import-secrets that are for this environment
  CopyAllNeeded, \* its option of that name
  SecretsOf,  \* SecretsOf[r]: those the containers and volumes of r name
  Provided,   \* those that are manifests, sealed or not
  InCi,       \* those of the CI namespace
  ImportLimit, \* applyConcurrencyLimit of import-secrets
  PluginSets, \* the choices of plugins that are enabled, among Steps
  Tries,      \* attempts while a namespace is not available: 11
  MaxErrors   \* calls of kubectl that fail in a behaviour

ASSUME PreDeployType ==
  /\ Nsplease \subseteq Namespace /\ Rancher \subseteq Namespace
  /\ Manifest \cap Earlier = {}
  /\ Tries \in Nat \ {0} /\ ImportLimit \in Nat \ {0} /\ MaxErrors \in Nat

Resource == Manifest \union Earlier
Steps == <<"namespaces", "nsplease-namespaces", "rancher-namespaces",
           "import-secrets", "clear", "cleaner", "clean-orphan", "clean-failed",
           "deploy-with">>

VARIABLES
  plugins,  \* the plugins that are enabled
  step,     \* the plugin that runs
  outcome,  \* running, ok, failed
  errors,   \* calls that failed so far
  phase,    \* phase[n]: status.phase of the namespace, or absent
  ready,    \* ready[n]: what nsplease or rancher say of it
  task,     \* task[n]: where the plugin is with the namespace
  tried,    \* attempts for it so far
  store,    \* store[n][s]: where secret s of namespace n comes from
  item,     \* item[i]: where the import of entry i is
  todo,     \* todo[i]: the namespaces it has still to be applied to
  logged,   \* what the import said it could not do
  live,     \* live[r]: the object of that name: absent, old, new
  state,    \* state[r]: what its controller makes of it
  doomed    \* what was found to delete

namespaces == <<phase, ready, task, tried>>
secrets == <<store, item, todo, logged>>
objects == <<live, state, doomed>>
preVars == <<plugins, step, outcome, errors, namespaces, secrets, objects>>

Running(s) == outcome = "running" /\ step = s
\* A call of kubectl works or has failed for good; one that is killed on its own,
\* which counts as having worked (kubectl-retry.js:63), is left out.
Works == errors' = errors
Fails == errors < MaxErrors /\ errors' = errors + 1
Throw == outcome' = "failed" /\ UNCHANGED <<plugins, step>>
Stay == UNCHANGED <<plugins, step, outcome>>
Pass == /\ step' = Steps[1 + CHOOSE i \in DOMAIN Steps : Steps[i] = step]
        /\ UNCHANGED <<plugins, outcome>>

\* A plugin that is disabled gives back what it is given.
Skip ==
  /\ outcome = "running" /\ step # "deploy-with" /\ step \notin plugins
  /\ Pass /\ UNCHANGED <<errors, namespaces, secrets, objects>>

-----------------------------------------------------------------------------
(* 01-namespaces, 01-nsplease-namespaces: kube-ensure-namespace.            *)

Ensured == IF step = "namespaces" THEN Namespace ELSE Nsplease
Ensuring(n, t) ==
  /\ outcome = "running" /\ step \in {"namespaces", "nsplease-namespaces"}
  /\ step \in plugins /\ n \in Ensured /\ task[n] = t

\* The first check looks at the phase only, and takes an error for a no.
CheckNamespace(n) ==
  /\ Ensuring(n, "check")
  /\ \/ Works /\ task' = [task EXCEPT ![n] = IF phase[n] = "Active" THEN "apply" ELSE "create"]
     \/ Fails /\ task' = [task EXCEPT ![n] = "create"]
  /\ Stay /\ UNCHANGED <<phase, ready, tried, secrets, objects>>

ApplyNamespace(n) ==
  /\ Ensuring(n, "apply")
  /\ \/ Works /\ Stay /\ task' = [task EXCEPT ![n] = "done"]
     \/ Fails /\ Throw /\ UNCHANGED task
  /\ UNCHANGED <<phase, ready, tried, secrets, objects>>

\* AlreadyExists is not an error, be it that the namespace is terminating.
CreateNamespace(n) ==
  /\ Ensuring(n, "create")
  /\ \/ /\ Works /\ Stay /\ task' = [task EXCEPT ![n] = "await"]
        /\ phase' = [phase EXCEPT ![n] = IF @ = "absent" THEN "Active" ELSE @]
     \/ Fails /\ Throw /\ UNCHANGED <<task, phase>>
  /\ UNCHANGED <<ready, tried, secrets, objects>>

\* Another attempt, or the last one was.
Again(n) ==
  /\ UNCHANGED task
  /\ IF tried[n] + 1 = Tries THEN Throw /\ UNCHANGED tried
     ELSE Stay /\ tried' = [tried EXCEPT ![n] = @ + 1]

Available(n) ==
  phase[n] = "Active" /\ (step = "nsplease-namespaces" => ready[n] = "done")

AwaitNamespace(n) ==
  /\ Ensuring(n, "await")
  /\ \/ /\ Works /\ Available(n) /\ Stay
        /\ task' = [task EXCEPT ![n] = "done"] /\ UNCHANGED tried
     \/ /\ Works /\ step = "nsplease-namespaces"
        /\ phase[n] = "Active" /\ ready[n] = "failed"
        /\ Throw /\ UNCHANGED <<task, tried>>
     \/ Works /\ ~Available(n) /\ Again(n)
     \/ Fails /\ Again(n)
  /\ UNCHANGED <<phase, ready, secrets, objects>>

\* 01-rancher-namespaces
AwaitRancher(n) ==
  /\ Running("rancher-namespaces") /\ step \in plugins
  /\ n \in Rancher /\ task[n] = "check"
  /\ \/ /\ Works /\ ready[n] = "done" /\ Stay
        /\ task' = [task EXCEPT ![n] = "done"] /\ UNCHANGED tried
     \/ Works /\ ready[n] # "done" /\ Again(n)
     \/ Fails /\ Again(n)
  /\ UNCHANGED <<phase, ready, secrets, objects>>

NamespacesDone ==
  /\ outcome = "running" /\ step \in plugins
  /\ step \in {"namespaces", "nsplease-namespaces", "rancher-namespaces"}
  /\ \A n \in IF step = "rancher-namespaces" THEN Rancher ELSE Ensured : task[n] = "done"
  /\ Pass
  /\ task' = [n \in Namespace |-> "check"] /\ tried' = [n \in Namespace |-> 0]
  /\ UNCHANGED <<errors, phase, ready, secrets, objects>>

\* The cluster: a namespace is gone at last, or is made ready or not.
NamespaceMoves(n) ==
  /\ \/ phase[n] = "Terminating" /\ phase' = [phase EXCEPT ![n] = "absent"] /\ UNCHANGED ready
     \/ /\ phase[n] = "Active" /\ ready[n] = "pending" /\ UNCHANGED phase
        /\ \E r \in {"done", "failed"} : ready' = [ready EXCEPT ![n] = r]
  /\ UNCHANGED <<plugins, step, outcome, errors, task, tried, secrets, objects>>

-----------------------------------------------------------------------------
(* 02-import-secrets.  An entry is [key, to, from, targets, reload,         *)
(* required].                                                               *)

SecretEntry(name) ==
  [key |-> name, to |-> name, from |-> {name}, targets |-> {}, reload |-> FALSE,
   required |-> FALSE]

\* The secrets that are named and not among the manifests come first; what is
\* given of one of them replaces it.
NeededNames ==
  IF CopyAllNeeded THEN (UNION {SecretsOf[r] : r \in Manifest}) \ Provided ELSE {}
Secrets ==
  LET given(name) == SelectSeq(Given, LAMBDA e : e.key = name)
      listed == SetToSeq(NeededNames) IN
  [i \in DOMAIN listed |->
     Head(given(listed[i]) \o <<SecretEntry(listed[i])>>)]
  \o SelectSeq(Given, LAMBDA e : e.key \notin NeededNames)

\* `from === to` compares an array with a name: no namespace is left out.
Targets(e) == IF e.targets = {} THEN Namespace ELSE e.targets

\* toNamespace names namespaces of this deployment.
ASSUME TargetsAreNamespaces ==
  \A i \in DOMAIN Secrets : Targets(Secrets[i]) \subseteq Namespace

InImport == Running("import-secrets") /\ step \in plugins
Busy == {i \in DOMAIN Secrets : item[i] \notin {"queued", "done"}}

StartImport(i) ==
  /\ InImport /\ item[i] = "queued"
  /\ Cardinality(Busy) < ImportLimit
  /\ \A j \in DOMAIN Secrets : j < i => item[j] # "queued"
  /\ item' = [item EXCEPT ![i] = "look"]
  /\ Stay /\ UNCHANGED <<errors, namespaces, store, todo, logged, objects>>

\* Faulty variant: needed where it is nowhere.
NeededNowhere(e, got) == got = {}
\* Needed everywhere as soon as it could not be got from one namespace.
Needed(e, got) == got # Targets(e)

Look(i) ==
  LET e == Secrets[i]
      there == {n \in Targets(e) : store[n][e.to] # "none"} IN
  /\ InImport /\ item[i] = "look"
  /\ \/ Works /\ item' = [item EXCEPT ![i] =
                  IF e.reload \/ Needed(e, there) THEN "read" ELSE "done"]
     \/ /\ Fails /\ ~e.reload
        /\ \E n \in there : item' = [item EXCEPT ![i] =
             IF Needed(e, there \ {n}) THEN "read" ELSE "done"]
  /\ Stay /\ UNCHANGED <<namespaces, store, todo, logged, objects>>

\* The first of `from` that can be read, without a word on those that cannot.
Read(i) ==
  LET e == Secrets[i] IN
  /\ InImport /\ item[i] = "read"
  /\ \/ /\ Works /\ e.from \cap InCi # {} /\ Stay
        /\ item' = [item EXCEPT ![i] = "copy"]
        /\ todo' = [todo EXCEPT ![i] = Targets(e)]
     \/ /\ IF e.from \cap InCi = {} THEN Works ELSE Fails
        /\ UNCHANGED todo
        /\ IF e.required THEN Throw /\ UNCHANGED item
           ELSE Stay /\ item' = [item EXCEPT ![i] = "done"]
  /\ UNCHANGED <<namespaces, store, logged, objects>>

\* An apply that fails is logged, and the import goes on.
Copy(i, n) ==
  LET e == Secrets[i] IN
  /\ InImport /\ item[i] = "copy" /\ n \in todo[i]
  /\ todo' = [todo EXCEPT ![i] = @ \ {n}]
  /\ item' = [item EXCEPT ![i] = IF todo[i] = {n} THEN "done" ELSE @]
  /\ \/ /\ Works /\ phase[n] = "Active"
        /\ store' = [store EXCEPT ![n][e.to] = "ci"] /\ UNCHANGED logged
     \/ /\ IF phase[n] # "Active" THEN Works ELSE Fails
        /\ logged' = logged \union {<<i, n>>} /\ UNCHANGED store
  /\ Stay /\ UNCHANGED <<namespaces, objects>>

ImportDone ==
  /\ InImport /\ \A i \in DOMAIN Secrets : item[i] = "done"
  /\ Pass /\ UNCHANGED <<errors, namespaces, secrets, objects>>

-----------------------------------------------------------------------------
(* 03.0-clear, 03.1-cleaner, 03.2-clean-orphan, 03.3-clean-failed.          *)

Builtin == {"Deployment", "StatefulSet", "Job"}
\* What clean-orphan lists by default: no service, no custom resource.
ApiResources == {"ConfigMap", "Secret", "Job", "Deployment", "StatefulSet", "Ingress"}
Used == {NsOf[r] : r \in Manifest}

\* kubectl delete --ignore-not-found, of several objects: some may be gone
\* when it fails.
Delete(rs) ==
  /\ live' = [r \in Resource |-> IF r \in rs THEN "absent" ELSE live[r]]
  /\ state' = [r \in Resource |-> IF r \in rs THEN "none" ELSE state[r]]
DeleteAll(rs) ==
  \/ Works /\ Delete(rs) /\ Pass
  \/ Fails /\ Throw /\ \E some \in SUBSET rs : Delete(some)

Cleared == {r \in Manifest : KindOf[r] \in Builtin \union CustomWaitableKinds}
Cleaned == {r \in Manifest : KindOf[r] = "Job"}

Clear ==
  /\ Running("clear") /\ step \in plugins
  /\ DeleteAll(Cleared) /\ UNCHANGED <<namespaces, secrets, doomed>>

Cleaner ==
  /\ Running("cleaner") /\ step \in plugins
  /\ DeleteAll(Cleaned) /\ UNCHANGED <<namespaces, secrets, doomed>>

Labelled(r) == EnvOf[r] = Env

Orphans ==
  {r \in Resource : /\ live[r] # "absent" /\ Labelled(r)
                    /\ KindOf[r] \in ApiResources /\ NsOf[r] \in Used
                    /\ r \notin Manifest}

\* The list, then the delete of what was listed.
ListOrphans ==
  /\ Running("clean-orphan") /\ step \in plugins /\ doomed = {}
  /\ \/ /\ Works /\ doomed' = Orphans
        /\ IF Orphans = {} THEN Pass ELSE Stay
     \/ Fails /\ Throw /\ UNCHANGED doomed
  /\ UNCHANGED <<namespaces, secrets, live, state>>

DeleteOrphans ==
  /\ Running("clean-orphan") /\ doomed # {}
  /\ DeleteAll(doomed) /\ doomed' = {}
  /\ UNCHANGED <<namespaces, secrets>>

\* rollout-status comes back once the StatefulSet is ready, failed or absent.
Checked == {r \in Manifest : KindOf[r] = "StatefulSet"}

CleanFailed ==
  /\ Running("clean-failed") /\ step \in plugins
  /\ \A r \in Checked : state[r] # "waiting"
  /\ DeleteAll({r \in Checked : state[r] = "failed"})
  /\ UNCHANGED <<namespaces, secrets, doomed>>

=============================================================================
