----------------------------- MODULE PlainDeploy -----------------------------
(***************************************************************************)
(* A deployment without the tree of dependencies: the pre-deploy plugins,  *)
(* then one of the deployers kubectl, helm and kapp (deploy-with/*.js).    *)
(* kubectl applies the manifests, a few at a time and each on its own,     *)
(* then watches what it applied (lib/rollout-status-manifests.js); helm    *)
(* and kapp are programs of which only the exit code is read.  The sidecar *)
(* failfast watches beside any of them what is being applied.              *)
(***************************************************************************)
EXTENDS PreDeploy

CONSTANTS
  Deployers,  \* among kubectl, helm, kapp
  Order,      \* the manifests, as they were built
  Recreate,   \* those deleted before they are applied, Jobs apart
  Forced,     \* those that may be deleted on a conflict (kubectl-force)
  Immutable,  \* those whose old object refuses the new one
  ApplyLimit  \* applyConcurrencyLimit of the deployer

ASSUME PlainDeployType ==
  /\ Deployers \subseteq {"kubectl", "helm", "kapp"}
  /\ Order \in Seq(Manifest) /\ ApplyLimit \in Nat \ {0}

VARIABLES
  tool,    \* the deployer
  failfast, \* the sidecar of that name is enabled
  op,      \* op[r]: where its applyManifest is
  settled, \* the deployer's promise is resolved
  answer   \* answer[r]: what its watch answered

own == <<tool, failfast>>
vars == <<preVars, own, op, settled, answer>>

\* Beside kubectl, which watches by itself, the sidecar is not enabled here.
Sidecar(t) == IF t = "kubectl" THEN {FALSE} ELSE BOOLEAN

Init ==
  /\ plugins \in PluginSets
  /\ step = Steps[1] /\ outcome = "running" /\ errors = 0
  /\ phase \in [Namespace -> {"absent", "Active", "Terminating"}]
  /\ ready = [n \in Namespace |-> "pending"]
  /\ task = [n \in Namespace |-> "check"] /\ tried = [n \in Namespace |-> 0]
  /\ \E owned \in SUBSET {n \in Namespace : phase[n] = "Active"} :
       store = [n \in Namespace |->
                  [s \in {Secrets[i].to : i \in DOMAIN Secrets} |->
                     IF n \in owned THEN "own" ELSE "none"]]
  /\ item = [i \in DOMAIN Secrets |-> "queued"]
  /\ todo = [i \in DOMAIN Secrets |-> {}] /\ logged = {}
  /\ \E there \in {{}, Manifest, Resource} :
       live = [r \in Resource |->
                 IF r \in there /\ phase[NsOf[r]] = "Active" THEN "old" ELSE "absent"]
  /\ \E failed \in SUBSET {r \in Manifest : live[r] = "old" /\ KindOf[r] \in Builtin} :
       state = [r \in Resource |->
                  IF live[r] = "absent" THEN "none"
                  ELSE IF r \in failed THEN "failed" ELSE "ready"]
  /\ doomed = {}
  /\ tool \in Deployers /\ failfast \in Sidecar(tool)
  /\ op = [r \in Manifest |-> "pending"]
  /\ settled = FALSE
  /\ answer = [r \in Manifest |-> "none"]

-----------------------------------------------------------------------------
(* kubectl: async.mapLimit(manifests, applyConcurrencyLimit, applyManifest) *)

Deploying(t) == Running("deploy-with") /\ tool = t
InFlight == {r \in Manifest : op[r] \notin {"pending", "applied"}}
In(r, o) == Deploying("kubectl") /\ op[r] = o
Goes(r, o) == op' = [op EXCEPT ![r] = o]

Applied(r) ==
  /\ live' = [live EXCEPT ![r] = "new"]
  /\ state' = [state EXCEPT ![r] = "waiting"]

StartApply(i) ==
  LET r == Order[i] IN
  /\ In(r, "pending") /\ Cardinality(InFlight) < ApplyLimit
  /\ \A j \in DOMAIN Order : j < i => op[Order[j]] # "pending"
  /\ Goes(r, IF KindOf[r] = "Job" \/ r \in Recreate THEN "deleting" ELSE "applying")
  /\ Stay /\ UNCHANGED <<errors, namespaces, secrets, objects, own, settled, answer>>

DeleteFirst(r, o) ==
  /\ op[r] = o /\ Deploying("kubectl")
  /\ \/ /\ Works /\ Delete({r}) /\ Stay
        /\ Goes(r, IF o = "deleting" THEN "applying" ELSE "reapplying")
     \/ Fails /\ Throw /\ UNCHANGED op /\ (Delete({r}) \/ UNCHANGED <<live, state>>)
  /\ UNCHANGED <<namespaces, secrets, doomed, own, settled, answer>>

\* Faulty variant: the object was deleted, and that is all.
GivesUp(r) == "applied"
\* What a conflict on an immutable field leads to.
AfterConflict(r) == "redeleting"

Apply(r) ==
  LET conflict == live[r] = "old" /\ r \in Immutable IN
  /\ In(r, "applying")
  /\ \/ /\ Works /\ ~conflict /\ phase[NsOf[r]] = "Active"
        /\ Applied(r) /\ Goes(r, "applied") /\ Stay
     \/ /\ Works /\ conflict /\ r \in Forced
        /\ Goes(r, AfterConflict(r)) /\ Stay /\ UNCHANGED <<live, state>>
     \/ /\ \/ Fails
           \/ Works /\ ((conflict /\ r \notin Forced) \/ phase[NsOf[r]] # "Active")
        /\ Throw /\ UNCHANGED <<live, state, op>>
  /\ UNCHANGED <<namespaces, secrets, doomed, own, settled, answer>>

\* The second apply, whose errors are not looked at again.
Reapply(r) ==
  /\ In(r, "reapplying")
  /\ \/ (Works /\ Applied(r) /\ Goes(r, "applied") /\ Stay)
     \/ Fails /\ Throw /\ UNCHANGED <<live, state, op>>
  /\ UNCHANGED <<namespaces, secrets, doomed, own, settled, answer>>

-----------------------------------------------------------------------------
(* rollout-status-manifests                                                 *)

\* The deployer gives it the list of custom kinds where it takes the options
\* apart, so that it watches the kinds it knows; failfast gives the options.
Watched ==
  {r \in Manifest : \/ KindOf[r] \in Builtin
                    \/ failfast /\ KindOf[r] \in CustomWaitableKinds}
AllApplied == \A r \in Manifest : op[r] = "applied"

\* The deployer kubectl watches once all is applied, the sidecar from the
\* start: it finds nothing of this deployment as long as it is not applied.
Watching == (tool = "kubectl" /\ AllApplied) \/ failfast

\* The watch ends with the resource, or after 60 minutes (wait-appear).
Watch(r) ==
  /\ Running("deploy-with") /\ Watching /\ r \in Watched /\ answer[r] = "none"
  /\ \/ /\ live[r] = "new" /\ state[r] \in {"ready", "failed"}
        /\ answer' = [answer EXCEPT ![r] = state[r]]
     \/ /\ live[r] = "new" => state[r] = "waiting"
        /\ answer' = [answer EXCEPT ![r] = "closed"]
  /\ Stay /\ UNCHANGED <<errors, namespaces, secrets, objects, own, op, settled>>

\* An answer that is not a success counts if it has an error with a code, and
\* it does once all the watches have ended: endAll() stops none.
AnyFailed(rs) == \E r \in rs : answer[r] = "failed"

\* The join: the deployer and the sidecar are waited for, both.
RolledOut ==
  /\ Running("deploy-with") /\ Watching /\ \A r \in Watched : answer[r] # "none"
  /\ tool = "kubectl" \/ settled
  /\ outcome' = IF AnyFailed(Watched) THEN "failed" ELSE "ok"
  /\ UNCHANGED <<plugins, step, errors, namespaces, secrets, objects, own, op, settled, answer>>

-----------------------------------------------------------------------------
(* helm and kapp                                                            *)

Resolve == settled' = TRUE /\ outcome' = IF failfast THEN outcome ELSE "ok"

\* They apply all, or some and close with another code.  Without --wait helm
\* is done then; kapp waits for what it applied.
Spawn ==
  /\ Deploying("helm") \/ Deploying("kapp")
  /\ \A r \in Manifest : op[r] = "pending"
  /\ \/ /\ Works /\ \A n \in Used : phase[n] = "Active"
        /\ live' = [r \in Resource |-> IF r \in Manifest THEN "new" ELSE live[r]]
        /\ state' = [r \in Resource |-> IF r \in Manifest THEN "waiting" ELSE state[r]]
        /\ op' = [r \in Manifest |-> "applied"]
        /\ UNCHANGED <<plugins, step>>
        /\ IF tool = "helm" THEN Resolve ELSE UNCHANGED <<settled, outcome>>
     \/ /\ Fails /\ Throw /\ UNCHANGED <<op, settled>>
        /\ \E some \in SUBSET Manifest :
             /\ live' = [r \in Resource |-> IF r \in some THEN "new" ELSE live[r]]
             /\ state' = [r \in Resource |-> IF r \in some THEN "waiting" ELSE state[r]]
     \/ /\ Works /\ \E n \in Used : phase[n] # "Active"
        /\ Throw /\ UNCHANGED <<live, state, op, settled>>
  /\ UNCHANGED <<namespaces, secrets, doomed, own, answer>>

Close ==
  /\ Deploying("kapp") /\ AllApplied /\ ~settled
  /\ \/ (\A r \in Manifest : state[r] = "ready") /\ Resolve
     \/ (\E r \in Manifest : state[r] # "ready") /\ outcome' = "failed" /\ UNCHANGED settled
  /\ UNCHANGED <<plugins, step, errors, namespaces, secrets, objects, own, op, answer>>

\* The controllers.
Moves(r) ==
  /\ state[r] = "waiting" /\ live[r] # "absent" /\ outcome = "running"
  /\ \E s \in {"ready", "failed"} : state' = [state EXCEPT ![r] = s]
  /\ UNCHANGED <<plugins, step, outcome, errors, namespaces, secrets, live, doomed, own, op, settled, answer>>

-----------------------------------------------------------------------------
Prepare ==
  /\ \/ Skip \/ NamespacesDone \/ ImportDone
     \/ \E n \in Namespace :
          CheckNamespace(n) \/ ApplyNamespace(n) \/ CreateNamespace(n)
          \/ AwaitNamespace(n) \/ AwaitRancher(n)
          \/ (outcome = "running" /\ NamespaceMoves(n))
     \/ \E i \in DOMAIN Secrets :
          StartImport(i) \/ Look(i) \/ Read(i) \/ \E n \in Namespace : Copy(i, n)
     \/ Clear \/ Cleaner \/ ListOrphans \/ DeleteOrphans \/ CleanFailed
  /\ UNCHANGED <<own, op, settled, answer>>

Finished == outcome # "running" /\ UNCHANGED vars

Next ==
  \/ Prepare
  \/ \E i \in DOMAIN Order : StartApply(i)
  \/ \E r \in Manifest :
       DeleteFirst(r, "deleting") \/ Apply(r) \/ DeleteFirst(r, "redeleting")
       \/ Reapply(r) \/ Watch(r)
  \/ RolledOut \/ Spawn \/ Close
  \/ \E r \in Resource : Moves(r)
  \/ Finished

Spec == Init /\ [][Next]_vars

-----------------------------------------------------------------------------
Imported == step \notin {"namespaces", "nsplease-namespaces", "rancher-namespaces",
                         "import-secrets"}

\* Secrets.  Once the import is over, each namespace an entry is for has the
\* secret, be it its own, or the log says that it could not be copied there;
\* only an entry that is not required may be left out without a word, and then
\* in the namespaces that lack it (02-import-secrets.js).
SecretsArrive ==
  "import-secrets" \in plugins /\ Imported =>
    \A i \in DOMAIN Secrets : \A n \in Targets(Secrets[i]) :
      \/ store[n][Secrets[i].to] # "none"
      \/ <<i, n>> \in logged
      \/ ~Secrets[i].required /\ (Secrets[i].from \cap InCi = {} \/ errors > 0)

\* Success.  A deployment that says it succeeded left every manifest applied,
\* also those it had to delete first, and no orphan of its environment of the
\* kinds that are listed; with kubectl, with kapp and with failfast no resource
\* that is watched was seen to fail.
SuccessIsWhatWasBuilt ==
  outcome = "ok" =>
    /\ \A r \in Manifest : live[r] = "new"
    /\ \A r \in Earlier :
         EnvOf[r] = Env /\ "clean-orphan" \in plugins
           /\ NsOf[r] \in Used /\ KindOf[r] \in ApiResources => live[r] = "absent"
    /\ tool = "kubectl" \/ failfast => \A r \in Watched : answer[r] \in {"ready", "closed"}
    /\ tool = "kapp" => \A r \in Manifest : state[r] = "ready"

=============================================================================
