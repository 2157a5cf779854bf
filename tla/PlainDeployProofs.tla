-------------------------- MODULE PlainDeployProofs --------------------------
(***************************************************************************)
(* For every set of namespaces, secrets, manifests and earlier objects,    *)
(* any number of failing calls and any choice of plugins: the import of    *)
(* secrets leaves no namespace without its secret or a word about it, and  *)
(* a deployment that succeeded left what was built.                        *)
(*                                                                         *)
(* Both properties speak of the end only.  The first needs what an entry   *)
(* in the middle of its import has already served (ItemsServed); the       *)
(* second, that nothing is undone between the plugin that did it and the   *)
(* end: what was listed as an orphan still is one when it is deleted, what *)
(* is applied stays applied, and the deployer's word is known before the   *)
(* sidecar has its own.                                                    *)
(***************************************************************************)
EXTENDS PlainDeploy, TLAPS

StepName == {"namespaces", "nsplease-namespaces", "rancher-namespaces",
             "import-secrets", "clear", "cleaner", "clean-orphan",
             "clean-failed", "deploy-with"}

\* The plugins go in their order.
Follows(s, t) ==
  \/ s = "namespaces" /\ t = "nsplease-namespaces"
  \/ s = "nsplease-namespaces" /\ t = "rancher-namespaces"
  \/ s = "rancher-namespaces" /\ t = "import-secrets"
  \/ s = "import-secrets" /\ t = "clear"
  \/ s = "clear" /\ t = "cleaner"
  \/ s = "cleaner" /\ t = "clean-orphan"
  \/ s = "clean-orphan" /\ t = "clean-failed"
  \/ s = "clean-failed" /\ t = "deploy-with"

LEMMA PassIsNext ==
  ASSUME step \in StepName, step # "deploy-with", Pass
  PROVE  Follows(step, step')
<1>1. \A i \in 1..9 :
        /\ Steps[i] = "namespaces" <=> i = 1
        /\ Steps[i] = "nsplease-namespaces" <=> i = 2
        /\ Steps[i] = "rancher-namespaces" <=> i = 3
        /\ Steps[i] = "import-secrets" <=> i = 4
        /\ Steps[i] = "clear" <=> i = 5
        /\ Steps[i] = "cleaner" <=> i = 6
        /\ Steps[i] = "clean-orphan" <=> i = 7
        /\ Steps[i] = "clean-failed" <=> i = 8
        /\ Steps[i] = "deploy-with" <=> i = 9
  BY DEF Steps
<1>2. DOMAIN Steps = 1..9
  BY DEF Steps
<1>3. \E i \in 1..9 : Steps[i] = step
  BY DEF StepName, Steps
<1>4. ASSUME NEW i \in 1..9, Steps[i] = step
      PROVE  i = CHOOSE j \in DOMAIN Steps : Steps[j] = step
  <2>1. \A j \in DOMAIN Steps : Steps[j] = step => j = i
    BY <1>1, <1>2, <1>4
  <2>. QED
    BY <1>2, <1>4, <2>1
<1>5. \E i \in 1..9 : Steps[i] = step /\ step' = Steps[1 + i]
  BY <1>3, <1>4 DEF Pass
<1>. QED
  BY <1>1, <1>5 DEF Steps, Follows, StepName

-----------------------------------------------------------------------------
(* The variables and their types.                                           *)

SecretName == {Secrets[i].to : i \in DOMAIN Secrets}

SecretsTypeOK ==
  /\ errors \in Nat
  /\ store \in [Namespace -> [SecretName -> {"none", "own", "ci"}]]
  /\ item \in [DOMAIN Secrets -> {"queued", "look", "read", "copy", "done"}]
  /\ todo \in [DOMAIN Secrets -> SUBSET Namespace]

DeployTypeOK ==
  /\ step \in StepName /\ outcome \in {"running", "ok", "failed"}
  /\ live \in [Resource -> {"absent", "old", "new"}]
  /\ state \in [Resource -> {"none", "waiting", "ready", "failed"}]
  /\ doomed \in SUBSET Resource
  /\ tool \in {"kubectl", "helm", "kapp"}
  /\ failfast \in BOOLEAN /\ settled \in BOOLEAN
  /\ op \in [Manifest -> {"pending", "deleting", "applying", "redeleting",
                          "reapplying", "applied"}]
  /\ answer \in [Manifest -> {"none", "ready", "failed", "closed"}]

-----------------------------------------------------------------------------
(* What the import holds to as it goes.                                     *)

Served(i, n) ==
  \/ store[n][Secrets[i].to] # "none"
  \/ <<i, n>> \in logged
  \/ ~Secrets[i].required /\ (Secrets[i].from \cap InCi = {} \/ errors > 0)

\* An entry that is done has served its namespaces, one that copies all those
\* that are not left to do.
ItemsServed ==
  \A i \in DOMAIN Secrets : \A n \in Targets(Secrets[i]) :
    item[i] = "done" \/ (item[i] = "copy" /\ n \notin todo[i]) => Served(i, n)

ImportIsOver ==
  "import-secrets" \in plugins /\ Imported => \A i \in DOMAIN Secrets : item[i] = "done"

SecretsInv == SecretsTypeOK /\ ItemsServed /\ ImportIsOver

-----------------------------------------------------------------------------
(* What the deployment holds to as it goes.                                 *)

NotYetDeployed ==
  step # "deploy-with" =>
    outcome # "ok" /\ ~settled /\ \A r \in Manifest : op[r] = "pending"
AppliedIsLive == \A r \in Manifest : op[r] = "applied" => live[r] = "new"
SettledIsDone ==
  settled => AllApplied /\ (tool = "kapp" => \A r \in Manifest : state[r] = "ready")
KubectlWatches == tool = "kubectl" => ~failfast /\ ~settled

\* The objects that clean-orphan is to delete.
Strays ==
  {r \in Earlier : EnvOf[r] = Env /\ NsOf[r] \in Used /\ KindOf[r] \in ApiResources}
DoomedAreOrphans ==
  doomed # {} => step = "clean-orphan" /\ step \in plugins /\ doomed = Orphans
OrphansAreGone ==
  "clean-orphan" \in plugins /\ step \in {"clean-failed", "deploy-with"} =>
    \A r \in Strays : live[r] = "absent"
OkIsBuilt ==
  outcome = "ok" =>
    /\ AllApplied
    /\ tool = "kubectl" \/ failfast => \A r \in Watched : answer[r] \in {"ready", "closed"}
    /\ tool = "kapp" => \A r \in Manifest : state[r] = "ready"

DeployInv ==
  /\ DeployTypeOK /\ NotYetDeployed /\ AppliedIsLive /\ SettledIsDone
  /\ KubectlWatches /\ DoomedAreOrphans /\ OrphansAreGone /\ OkIsBuilt

-----------------------------------------------------------------------------
(* The kinds of step.  Nothing moves once the deployment has ended.         *)

\* On to the next plugin, out of the import and of the cleaning of orphans
\* only where these have nothing more to do.
Onward ==
  /\ step # "deploy-with" /\ Follows(step, step') /\ UNCHANGED <<plugins, outcome>>
  /\ step = "import-secrets" =>
       step \notin plugins \/ \A i \in DOMAIN Secrets : item[i] = "done"
  /\ step = "clean-orphan" => step \notin plugins

\* The calls of kubectl are counted as they fail.
Counted == errors' = errors \/ errors' = errors + 1

\* A step of a plugin that changes neither secrets nor objects.
Elsewhere ==
  /\ UNCHANGED <<secrets, objects>> /\ Counted
  /\ Stay \/ Throw \/ Onward

\* A step of the import.
Importing ==
  /\ step = "import-secrets" /\ (Stay \/ Throw)
  /\ UNCHANGED objects /\ Counted
  /\ \E i \in DOMAIN Secrets :
       StartImport(i) \/ Look(i) \/ Read(i) \/ \E n \in Namespace : Copy(i, n)

\* A step that deletes objects before anything is applied.
Cleaning ==
  Clear \/ Cleaner \/ ListOrphans \/ DeleteOrphans \/ CleanFailed

LEMMA KindsOfPrepare ==
  ASSUME DeployTypeOK, Prepare
  PROVE  /\ outcome = "running" /\ UNCHANGED <<own, op, settled, answer>>
         /\ Elsewhere \/ Importing \/ Cleaning
<1>. USE DEF DeployTypeOK
<1>1. CASE Skip
  <2>1. step \in StepName /\ step # "deploy-with" /\ Pass
    BY <1>1 DEF Skip
  <2>. QED
    BY <1>1, <2>1, PassIsNext DEF Skip, Elsewhere, Counted, Onward, Pass, Prepare
<1>2. CASE NamespacesDone
  <2>1. step \in StepName /\ step # "deploy-with" /\ Pass
    BY <1>2 DEF NamespacesDone
  <2>. QED
    BY <1>2, <2>1, PassIsNext DEF NamespacesDone, Elsewhere, Counted, Onward, Pass, Prepare
<1>3. CASE ImportDone
  <2>1. step \in StepName /\ step # "deploy-with" /\ Pass
    BY <1>3 DEF ImportDone, InImport, Running
  <2>. QED
    BY <1>3, <2>1, PassIsNext
    DEF ImportDone, InImport, Running, Elsewhere, Counted, Onward, Pass, Prepare
<1>4. ASSUME NEW n \in Namespace,
             CheckNamespace(n) \/ ApplyNamespace(n) \/ CreateNamespace(n)
             \/ AwaitNamespace(n) \/ AwaitRancher(n)
             \/ (outcome = "running" /\ NamespaceMoves(n))
      PROVE  outcome = "running" /\ Elsewhere
  <2>. USE DEF Elsewhere, Counted, Works, Fails
  <2>1. CASE CheckNamespace(n)
    BY <2>1 DEF CheckNamespace, Ensuring, secrets, objects
  <2>2. CASE ApplyNamespace(n)
    BY <2>2 DEF ApplyNamespace, Ensuring, secrets, objects
  <2>3. CASE CreateNamespace(n)
    BY <2>3 DEF CreateNamespace, Ensuring, secrets, objects
  <2>4. CASE AwaitNamespace(n)
    BY <2>4 DEF AwaitNamespace, Again, Ensuring, secrets, objects
  <2>5. CASE AwaitRancher(n)
    BY <2>5 DEF AwaitRancher, Again, Running, secrets, objects
  <2>6. CASE outcome = "running" /\ NamespaceMoves(n)
    BY <2>6 DEF NamespaceMoves, Stay, secrets, objects
  <2>. QED
    BY <1>4, <2>1, <2>2, <2>3, <2>4, <2>5, <2>6
<1>5. ASSUME NEW i \in DOMAIN Secrets,
             StartImport(i) \/ Look(i) \/ Read(i) \/ \E n \in Namespace : Copy(i, n)
      PROVE  outcome = "running" /\ Importing
  <2>1. step = "import-secrets" /\ outcome = "running"
    BY <1>5 DEF StartImport, Look, Read, Copy, InImport, Running
  <2>2. UNCHANGED objects /\ Counted
    BY <1>5 DEF StartImport, Look, Read, Copy, Works, Fails, Counted
  <2>3. Stay \/ Throw
    BY <1>5 DEF StartImport, Look, Read, Copy
  <2>. QED
    BY <1>5, <2>1, <2>2, <2>3 DEF Importing
<1>6. ASSUME Cleaning
      PROVE  outcome = "running"
  BY <1>6 DEF Cleaning, Clear, Cleaner, ListOrphans, DeleteOrphans, CleanFailed, Running
<1>. QED
  BY <1>1, <1>2, <1>3, <1>4, <1>5, <1>6 DEF Prepare, Cleaning

-----------------------------------------------------------------------------
(* The steps that do not deploy, as the import sees them.                   *)

NotImporting ==
  /\ UNCHANGED <<plugins, secrets>> /\ Counted
  /\ UNCHANGED step \/ Onward \/ (step # "import-secrets" /\ Follows(step, step'))

LEMMA KindsForTheImport ==
  ASSUME DeployTypeOK, [Next]_vars
  PROVE  NotImporting \/ Importing
<1>. USE DEF NotImporting, Counted
<1>1. CASE Prepare
  <2>1. CASE Elsewhere
    BY <2>1 DEF Elsewhere, Stay, Throw, Onward
  <2>2. CASE Importing
    BY <2>2
  <2>3. CASE Cleaning
    <3>1. step \in {"clear", "cleaner", "clean-orphan", "clean-failed"}
      BY <2>3 DEF Cleaning, Clear, Cleaner, ListOrphans, DeleteOrphans, CleanFailed, Running
    <3>2. UNCHANGED secrets /\ Counted /\ (Stay \/ Pass \/ Throw)
      BY <2>3 DEF Cleaning, Clear, Cleaner, ListOrphans, DeleteOrphans, CleanFailed,
                  DeleteAll, Works, Fails
    <3>3. Pass => Follows(step, step') /\ UNCHANGED plugins
      BY <3>1, PassIsNext DEF Pass, StepName
    <3>. QED
      BY <3>1, <3>2, <3>3 DEF Stay, Throw
  <2>. QED
    BY <1>1, <2>1, <2>2, <2>3, KindsOfPrepare
<1>2. ASSUME NEW i \in DOMAIN Order, StartApply(i)
      PROVE  NotImporting
  BY <1>2 DEF StartApply, Stay
<1>3. ASSUME NEW r \in Manifest,
             DeleteFirst(r, "deleting") \/ Apply(r) \/ DeleteFirst(r, "redeleting")
             \/ Reapply(r) \/ Watch(r)
      PROVE  NotImporting
  BY <1>3 DEF DeleteFirst, Apply, Reapply, Watch, Stay, Throw, Works, Fails
<1>4. CASE RolledOut
  BY <1>4 DEF RolledOut
<1>5. CASE Spawn
  BY <1>5 DEF Spawn, Throw, Works, Fails
<1>6. CASE Close
  BY <1>6 DEF Close
<1>7. ASSUME NEW r \in Resource, Moves(r)
      PROVE  NotImporting
  BY <1>7 DEF Moves
<1>8. CASE UNCHANGED vars
  BY <1>8 DEF vars, preVars
<1>. QED
  BY <1>1, <1>2, <1>3, <1>4, <1>5, <1>6, <1>7, <1>8 DEF Next, Finished

LEMMA ImportedAfter ==
  ASSUME DeployTypeOK, NotImporting, Imported'
  PROVE  Imported \/ "import-secrets" \notin plugins
         \/ \A i \in DOMAIN Secrets : item[i] = "done"
BY DEF NotImporting, Onward, Follows, Imported, DeployTypeOK, StepName

-----------------------------------------------------------------------------
(* The import of secrets.                                                   *)

\* A call that fails has been counted, and what was counted stays so.
LEMMA CountedGrows ==
  ASSUME errors \in Nat, Counted
  PROVE  errors' \in Nat /\ (errors > 0 => errors' > 0)
BY DEF Counted

LEMMA NotImportingKeeps ==
  ASSUME DeployTypeOK, SecretsInv, NotImporting
  PROVE  SecretsInv'
<1>. USE DEF SecretsInv
<1>1. errors' \in Nat /\ (errors > 0 => errors' > 0)
  BY CountedGrows DEF NotImporting, SecretsTypeOK
<1>2. UNCHANGED <<store, item, todo, logged, plugins>>
  BY DEF NotImporting, secrets
<1>3. SecretsTypeOK'
  BY <1>1, <1>2 DEF SecretsTypeOK
<1>4. ItemsServed'
  BY <1>1, <1>2 DEF ItemsServed, Served
<1>5. ImportIsOver'
  BY <1>2, ImportedAfter DEF ImportIsOver
<1>. QED
  BY <1>3, <1>4, <1>5

LEMMA ImportingKeeps ==
  ASSUME DeployTypeOK, SecretsInv, Importing
  PROVE  SecretsInv'
<1>. USE DEF SecretsInv
<1>1. errors' \in Nat /\ (errors > 0 => errors' > 0)
  BY CountedGrows DEF Importing, SecretsTypeOK
<1>2. ~Imported'
  BY DEF Importing, Stay, Throw, Imported
<1>3. PICK i \in DOMAIN Secrets :
        StartImport(i) \/ Look(i) \/ Read(i) \/ \E n \in Namespace : Copy(i, n)
  BY DEF Importing
<1>4. SecretsTypeOK /\ ItemsServed
  OBVIOUS
<1>5. Targets(Secrets[i]) \subseteq Namespace
  BY TargetsAreNamespaces
<1>6. CASE StartImport(i)
  <2>1. SecretsTypeOK'
    BY <1>1, <1>4, <1>6 DEF StartImport, SecretsTypeOK
  <2>2. ItemsServed'
    BY <1>1, <1>4, <1>6 DEF StartImport, SecretsTypeOK, ItemsServed, Served
  <2>. QED
    BY <1>2, <2>1, <2>2 DEF ImportIsOver
<1>7. CASE Look(i)
  <2>1. /\ UNCHANGED <<store, todo, logged>>
        /\ item' = [item EXCEPT ![i] = "read"]
           \/ (item' = [item EXCEPT ![i] = "done"]
               /\ \A n \in Targets(Secrets[i]) : store[n][Secrets[i].to] # "none")
    BY <1>7 DEF Look, Needed
  <2>2. SecretsTypeOK'
    BY <1>1, <1>4, <2>1 DEF SecretsTypeOK
  <2>3. ItemsServed'
    BY <1>1, <1>4, <2>1 DEF SecretsTypeOK, ItemsServed, Served
  <2>. QED
    BY <1>2, <2>2, <2>3 DEF ImportIsOver
<1>8. CASE Read(i)
  <2>1. UNCHANGED <<store, logged>>
    BY <1>8 DEF Read
  <2>2. CASE item' = [item EXCEPT ![i] = "copy"]
             /\ todo' = [todo EXCEPT ![i] = Targets(Secrets[i])]
    <3>1. SecretsTypeOK'
      BY <1>1, <1>4, <1>5, <2>1, <2>2 DEF SecretsTypeOK
    <3>2. ItemsServed'
      BY <1>1, <1>4, <2>1, <2>2 DEF SecretsTypeOK, ItemsServed, Served
    <3>. QED
      BY <1>2, <3>1, <3>2 DEF ImportIsOver
  <2>3. CASE /\ item' = [item EXCEPT ![i] = "done"] /\ UNCHANGED todo
             /\ ~Secrets[i].required
             /\ Secrets[i].from \cap InCi = {} \/ errors' > 0
    <3>1. SecretsTypeOK'
      BY <1>1, <1>4, <2>1, <2>3 DEF SecretsTypeOK
    <3>2. \A n \in Targets(Secrets[i]) : Served(i, n)'
      BY <2>3 DEF Served
    <3>3. ItemsServed'
      BY <1>1, <1>4, <2>1, <2>3, <3>2 DEF SecretsTypeOK, ItemsServed, Served
    <3>. QED
      BY <1>2, <3>1, <3>3 DEF ImportIsOver
  <2>4. CASE UNCHANGED <<item, todo>>
    <3>1. SecretsTypeOK'
      BY <1>1, <1>4, <2>1, <2>4 DEF SecretsTypeOK
    <3>2. ItemsServed'
      BY <1>1, <1>4, <2>1, <2>4 DEF SecretsTypeOK, ItemsServed, Served
    <3>. QED
      BY <1>2, <3>1, <3>2 DEF ImportIsOver
  <2>5. Fails => errors' > 0
    BY <1>4 DEF Fails, SecretsTypeOK
  <2>. QED
    BY <1>8, <2>2, <2>3, <2>4, <2>5 DEF Read
<1>9. ASSUME NEW n \in Namespace, Copy(i, n)
      PROVE  SecretsInv'
  <2>1. n \in todo[i] /\ item[i] = "copy" /\ todo' = [todo EXCEPT ![i] = @ \ {n}]
    BY <1>9 DEF Copy
  <2>2. item' = [item EXCEPT ![i] = IF todo[i] = {n} THEN "done" ELSE @]
    BY <1>9 DEF Copy
  <2>3. \/ store' = [store EXCEPT ![n][Secrets[i].to] = "ci"] /\ UNCHANGED logged
        \/ logged' = logged \union {<<i, n>>} /\ UNCHANGED store
    BY <1>9 DEF Copy
  <2>4. Secrets[i].to \in SecretName
    BY DEF SecretName
  <2>5. SecretsTypeOK'
    <3>1. store' \in [Namespace -> [SecretName -> {"none", "own", "ci"}]]
      BY <1>4, <2>3, <2>4 DEF SecretsTypeOK
    <3>. QED
      BY <1>1, <1>4, <2>1, <2>2, <3>1 DEF SecretsTypeOK
  <2>6. \A j \in DOMAIN Secrets : \A m \in Namespace : Served(j, m) => Served(j, m)'
    <3>1. \A j \in DOMAIN Secrets : Secrets[j].to \in SecretName
      BY DEF SecretName
    <3>2. \A j \in DOMAIN Secrets : \A m \in Namespace :
            store[m][Secrets[j].to] # "none" => store'[m][Secrets[j].to] # "none"
      BY <1>4, <2>3, <2>4, <3>1 DEF SecretsTypeOK
    <3>3. logged \subseteq logged'
      BY <2>3
    <3>. QED
      BY <1>1, <3>2, <3>3 DEF Served
  <2>7. Served(i, n)'
    BY <1>4, <2>3, <2>4 DEF Served, SecretsTypeOK
  <2>8. \A j \in DOMAIN Secrets : Targets(Secrets[j]) \subseteq Namespace
    BY TargetsAreNamespaces
  <2>9. ItemsServed'
    <3>. SUFFICES ASSUME NEW j \in DOMAIN Secrets, NEW m \in Targets(Secrets[j]),
                         item'[j] = "done" \/ (item'[j] = "copy" /\ m \notin todo'[j])
                  PROVE  Served(j, m)'
      BY DEF ItemsServed
    <3>1. CASE j = i /\ m = n
      BY <2>7, <3>1
    <3>2. CASE j = i /\ m # n
      <4>1. m \notin todo[i]
        BY <1>4, <2>1, <2>2, <3>2 DEF SecretsTypeOK
      <4>. QED
        BY <1>4, <2>1, <2>6, <2>8, <3>2, <4>1 DEF ItemsServed
    <3>3. CASE j # i
      <4>1. item'[j] = item[j] /\ todo'[j] = todo[j]
        BY <1>4, <2>1, <2>2, <3>3 DEF SecretsTypeOK
      <4>. QED
        BY <1>4, <2>6, <2>8, <4>1 DEF ItemsServed
    <3>. QED
      BY <3>1, <3>2, <3>3
  <2>. QED
    BY <1>2, <2>5, <2>9 DEF ImportIsOver
<1>. QED
  BY <1>3, <1>6, <1>7, <1>8, <1>9

LEMMA InitSecrets == Init => SecretsInv
<1>. SUFFICES ASSUME Init
              PROVE  SecretsInv
  OBVIOUS
<1>1. SecretsTypeOK
  <2>1. PICK owned \in SUBSET {n \in Namespace : phase[n] = "Active"} :
          store = [n \in Namespace |->
                     [s \in SecretName |-> IF n \in owned THEN "own" ELSE "none"]]
    BY DEF Init, SecretName
  <2>2. store \in [Namespace -> [SecretName -> {"none", "own", "ci"}]]
    BY <2>1
  <2>. QED
    BY <2>2 DEF Init, SecretsTypeOK
<1>2. ItemsServed
  BY DEF Init, ItemsServed
<1>3. ImportIsOver
  BY DEF Init, ImportIsOver, Imported, Steps
<1>. QED
  BY <1>1, <1>2, <1>3 DEF SecretsInv

-----------------------------------------------------------------------------
(* The deployment, as long as nothing is applied.                           *)

USE DEF DeployInv

LEMMA ObjectsUntouched ==
  ASSUME DeployInv, outcome = "running", UNCHANGED objects,
         UNCHANGED <<own, op, settled, answer>>, Stay \/ Throw \/ Onward
  PROVE  DeployInv'
<1>1. /\ UNCHANGED <<plugins, live, state, doomed, tool, failfast, op, settled, answer>>
      /\ outcome' \in {"running", "failed"}
      /\ step' = step \/ Follows(step, step')
  BY DEF objects, own, Stay, Throw, Onward
<1>2. DeployTypeOK'
  BY <1>1 DEF DeployTypeOK, Follows, StepName
<1>3. NotYetDeployed' /\ AppliedIsLive' /\ SettledIsDone' /\ KubectlWatches' /\ OkIsBuilt'
  BY <1>1 DEF NotYetDeployed, AppliedIsLive, SettledIsDone, KubectlWatches, OkIsBuilt,
              AllApplied, Follows
<1>4. DoomedAreOrphans'
  <2>1. Orphans' = Orphans
    BY <1>1 DEF Orphans
  <2>2. doomed # {} => step' = step
    BY DEF DoomedAreOrphans, Stay, Throw, Onward
  <2>. QED
    BY <1>1, <2>1, <2>2 DEF DoomedAreOrphans
<1>5. OrphansAreGone'
  <2>1. "clean-orphan" \in plugins /\ step' \in {"clean-failed", "deploy-with"}
          => step \in {"clean-failed", "deploy-with"}
    BY <1>1 DEF Stay, Throw, Onward, Follows
  <2>. QED
    BY <1>1, <2>1 DEF OrphansAreGone
<1>. QED
  BY <1>2, <1>3, <1>4, <1>5

LEMMA CleaningKeeps ==
  ASSUME DeployInv, Cleaning, UNCHANGED <<own, op, settled, answer>>
  PROVE  DeployInv'
<1>1. /\ step \in {"clear", "cleaner", "clean-orphan", "clean-failed"}
      /\ outcome = "running" /\ UNCHANGED plugins /\ outcome' \in {"running", "failed"}
      /\ UNCHANGED <<tool, failfast, op, settled, answer>>
  BY DEF Cleaning, Clear, Cleaner, ListOrphans, DeleteOrphans, CleanFailed, Running,
         DeleteAll, Stay, Pass, Throw, own
<1>2. Pass => Follows(step, step')
  BY <1>1, PassIsNext DEF StepName
<1>3. step' = step \/ Follows(step, step')
  BY <1>2 DEF Cleaning, Clear, Cleaner, ListOrphans, DeleteOrphans, CleanFailed,
              DeleteAll, Stay, Throw
<1>4. \/ UNCHANGED <<live, state>>
      \/ \E rs \in SUBSET Resource : Delete(rs)
  <2>1. Cleared \subseteq Resource /\ Cleaned \subseteq Resource /\ Checked \subseteq Resource
    BY DEF Cleared, Cleaned, Checked, Resource
  <2>2. doomed \subseteq Resource
    BY DEF DeployTypeOK
  <2>3. \A rs \in SUBSET Resource : DeleteAll(rs) => \E some \in SUBSET Resource : Delete(some)
    BY DEF DeleteAll
  <2>. QED
    BY <2>1, <2>2, <2>3 DEF Cleaning, Clear, Cleaner, ListOrphans, DeleteOrphans, CleanFailed
<1>5. /\ live' \in [Resource -> {"absent", "old", "new"}]
      /\ state' \in [Resource -> {"none", "waiting", "ready", "failed"}]
      /\ \A r \in Resource : live[r] = "absent" => live'[r] = "absent"
  BY <1>4 DEF Delete, DeployTypeOK
<1>6. doomed' \in SUBSET Resource
  BY DEF Cleaning, Clear, Cleaner, ListOrphans, DeleteOrphans, CleanFailed, Orphans,
         DeployTypeOK
<1>7. DeployTypeOK'
  BY <1>1, <1>3, <1>5, <1>6 DEF DeployTypeOK, Follows, StepName
<1>8. NotYetDeployed' /\ AppliedIsLive' /\ SettledIsDone' /\ KubectlWatches' /\ OkIsBuilt'
  BY <1>1, <1>3 DEF NotYetDeployed, AppliedIsLive, SettledIsDone, KubectlWatches, OkIsBuilt,
              AllApplied, Follows
<1>9. DoomedAreOrphans'
  <2>1. CASE ListOrphans
    <3>1. doomed' = {} \/ (doomed' = Orphans /\ (Orphans # {} => Stay))
      BY <2>1 DEF ListOrphans
    <3>2. Orphans' = Orphans
      BY <2>1 DEF ListOrphans, Orphans
    <3>. QED
      BY <1>1, <2>1, <3>1, <3>2 DEF DoomedAreOrphans, ListOrphans, Stay, Running
  <2>2. CASE ~ListOrphans
    <3>1. doomed' = {}
      BY <2>2 DEF Cleaning, Clear, Cleaner, DeleteOrphans, CleanFailed, Running,
                  DoomedAreOrphans
    <3>. QED
      BY <3>1 DEF DoomedAreOrphans
  <2>. QED
    BY <2>1, <2>2
<1>10. OrphansAreGone'
  <2>. SUFFICES ASSUME "clean-orphan" \in plugins, NEW r \in Strays,
                       step' \in {"clean-failed", "deploy-with"}
                PROVE  live'[r] = "absent"
    BY <1>1 DEF OrphansAreGone, Strays
  <2>1. r \in Resource /\ r \notin Manifest
    BY PreDeployType DEF Strays, Resource
  <2>2. CASE step \in {"clean-failed", "deploy-with"}
    BY <1>5, <2>1, <2>2 DEF OrphansAreGone
  <2>3. CASE step = "clean-orphan"
    <3>1. r \in Orphans <=> live[r] # "absent"
      BY <2>1 DEF Orphans, Strays, Labelled
    <3>2. CASE ListOrphans
      <4>1. ~Stay /\ ~Throw
        BY <2>3 DEF Stay, Throw
      <4>2. Orphans = {}
        BY <3>2, <4>1 DEF ListOrphans
      <4>. QED
        BY <1>5, <2>1, <3>1, <4>2
    <3>3. CASE DeleteOrphans
      <4>1. ~Throw
        BY <2>3 DEF Throw
      <4>2. Delete(Orphans)
        BY <3>3, <4>1 DEF DeleteOrphans, DeleteAll, DoomedAreOrphans
      <4>. QED
        BY <1>5, <2>1, <3>1, <4>2 DEF Delete
    <3>. QED
      BY <2>3, <3>2, <3>3 DEF Cleaning, Clear, Cleaner, CleanFailed, Running
  <2>. QED
    BY <1>1, <1>3, <2>2, <2>3 DEF Follows
<1>. QED
  BY <1>7, <1>8, <1>9, <1>10

-----------------------------------------------------------------------------
(* The deployment, as the manifests are applied.                            *)

\* A step of the deployer: what was cleaned stays so, and there is nothing
\* else to show of the earlier plugins.
AtWork ==
  /\ step = "deploy-with" /\ outcome = "running" /\ UNCHANGED <<plugins, step, own, doomed>>
  /\ live' \in [Resource -> {"absent", "old", "new"}]
  /\ state' \in [Resource -> {"none", "waiting", "ready", "failed"}]
  /\ \A r \in Earlier : live[r] = "absent" => live'[r] = "absent"

LEMMA AtWorkKeepsClean ==
  ASSUME DeployInv, AtWork
  PROVE  /\ NotYetDeployed' /\ DoomedAreOrphans' /\ OrphansAreGone'
         /\ doomed' \in SUBSET Resource
         /\ step' \in StepName /\ tool' = tool /\ failfast' = failfast
<1>1. doomed = {} /\ doomed' = {}
  BY DEF AtWork, DoomedAreOrphans
<1>2. OrphansAreGone'
  BY DEF AtWork, OrphansAreGone, Strays
<1>. QED
  BY <1>1, <1>2 DEF AtWork, own, NotYetDeployed, DoomedAreOrphans, DeployTypeOK, StepName

\* The objects of the manifests, as kubectl applies one of them.
LEMMA OneApplied ==
  ASSUME DeployInv, NEW r \in Manifest, Deploying("kubectl"),
         Stay \/ Throw, UNCHANGED <<own, settled, answer, doomed>>,
         NEW o \in {"deleting", "applying", "redeleting", "reapplying", "applied"},
         \/ UNCHANGED op
         \/ Goes(r, o),
         \/ UNCHANGED <<live, state>> /\ (o = "applied" => UNCHANGED op)
         \/ Delete({r}) /\ op[r] # "applied" /\ (o = "applied" => UNCHANGED op)
         \/ Applied(r)
  PROVE  DeployInv'
<1>1. /\ tool = "kubectl" /\ outcome = "running" /\ ~settled /\ r \in Resource
      /\ UNCHANGED <<tool, failfast, settled, answer, step>>
      /\ outcome' \in {"running", "failed"}
  BY DEF Deploying, Running, KubectlWatches, own, Stay, Throw, Resource
<1>2. op' \in [Manifest -> {"pending", "deleting", "applying", "redeleting",
                          "reapplying", "applied"}]
  BY DEF Goes, DeployTypeOK
<1>3. AtWork
  <2>1. /\ live' \in [Resource -> {"absent", "old", "new"}]
        /\ state' \in [Resource -> {"none", "waiting", "ready", "failed"}]
    BY <1>1 DEF DeployTypeOK, Delete, Applied
  <2>2. \A q \in Earlier : live[q] = "absent" => live'[q] = "absent"
    BY PreDeployType, <1>1 DEF DeployTypeOK, Delete, Applied, Resource
  <2>. QED
    BY <1>1, <2>1, <2>2 DEF AtWork, Deploying, Running, Stay, Throw, own
<1>4. AppliedIsLive'
  <2>. SUFFICES ASSUME NEW q \in Manifest, op'[q] = "applied"
                PROVE  live'[q] = "new"
    BY DEF AppliedIsLive
  <2>1. q \in Resource
    BY DEF Resource
  <2>2. CASE q = r
    BY <1>1, <2>1, <2>2 DEF AppliedIsLive, Goes, Delete, Applied, DeployTypeOK
  <2>3. CASE q # r
    <3>1. op[q] = "applied"
      BY <2>3 DEF Goes, DeployTypeOK
    <3>. QED
      BY <1>1, <2>1, <2>3, <3>1 DEF AppliedIsLive, Delete, Applied, DeployTypeOK
  <2>. QED
    BY <2>2, <2>3
<1>5. DeployTypeOK'
  BY <1>1, <1>2, <1>3, AtWorkKeepsClean DEF AtWork, DeployTypeOK
<1>6. SettledIsDone' /\ KubectlWatches' /\ OkIsBuilt'
  BY <1>1 DEF SettledIsDone, KubectlWatches, OkIsBuilt
<1>. QED
  BY <1>3, <1>4, <1>5, <1>6, AtWorkKeepsClean

LEMMA KubectlKeeps ==
  ASSUME DeployInv, NEW r \in Manifest,
         \/ \E i \in DOMAIN Order : r = Order[i] /\ StartApply(i)
         \/ DeleteFirst(r, "deleting") \/ DeleteFirst(r, "redeleting")
         \/ Apply(r) \/ Reapply(r)
  PROVE  DeployInv'
<1>1. CASE \E i \in DOMAIN Order : r = Order[i] /\ StartApply(i)
  <2>1. /\ Deploying("kubectl") /\ Stay /\ UNCHANGED <<own, settled, answer, live, state, doomed>>
        /\ Goes(r, "deleting") \/ Goes(r, "applying")
    BY <1>1 DEF StartApply, In, objects
  <2>. QED
    BY <2>1, OneApplied
<1>2. ASSUME NEW o \in {"deleting", "redeleting"}, DeleteFirst(r, o)
      PROVE  DeployInv'
  <2>1. /\ Deploying("kubectl") /\ UNCHANGED <<own, settled, answer, doomed>>
        /\ Stay \/ Throw
        /\ UNCHANGED op \/ Goes(r, "applying") \/ Goes(r, "reapplying")
        /\ op[r] # "applied"
        /\ Delete({r}) \/ UNCHANGED <<live, state>>
    BY <1>2 DEF DeleteFirst
  <2>. QED
    BY <2>1, OneApplied
<1>3. CASE Apply(r)
  <2>1. /\ Deploying("kubectl") /\ UNCHANGED <<own, settled, answer, doomed>>
        /\ \/ Stay /\ Goes(r, "applied") /\ Applied(r)
           \/ Stay /\ Goes(r, "redeleting") /\ UNCHANGED <<live, state>>
           \/ Throw /\ UNCHANGED <<op, live, state>>
    BY <1>3 DEF Apply, In, AfterConflict
  <2>. QED
    BY <2>1, OneApplied
<1>4. CASE Reapply(r)
  <2>1. /\ Deploying("kubectl") /\ UNCHANGED <<own, settled, answer, doomed>>
        /\ \/ Stay /\ Goes(r, "applied") /\ Applied(r)
           \/ Throw /\ UNCHANGED <<op, live, state>>
    BY <1>4 DEF Reapply, In
  <2>. QED
    BY <2>1, OneApplied
<1>. QED
  BY <1>1, <1>2, <1>3, <1>4

LEMMA WatchKeeps ==
  ASSUME DeployInv, NEW r \in Manifest, Watch(r)
  PROVE  DeployInv'
<1>1. /\ step = "deploy-with" /\ outcome = "running" /\ outcome' = outcome
      /\ UNCHANGED <<plugins, step, live, state, doomed, own, tool, failfast, op, settled>>
  BY DEF Watch, Running, Stay, objects, own
<1>2. AtWork
  BY <1>1 DEF AtWork, DeployTypeOK
<1>3. answer' \in [Manifest -> {"none", "ready", "failed", "closed"}]
  BY DEF Watch, DeployTypeOK
<1>4. DeployTypeOK'
  BY <1>1, <1>3 DEF DeployTypeOK
<1>5. AppliedIsLive' /\ SettledIsDone' /\ KubectlWatches' /\ OkIsBuilt'
  BY <1>1 DEF AppliedIsLive, SettledIsDone, KubectlWatches, OkIsBuilt, AllApplied
<1>. QED
  BY <1>2, <1>4, <1>5, AtWorkKeepsClean

LEMMA RolledOutKeeps ==
  ASSUME DeployInv, RolledOut
  PROVE  DeployInv'
<1>1. /\ step = "deploy-with" /\ outcome = "running" /\ outcome' \in {"ok", "failed"}
      /\ UNCHANGED <<plugins, step, live, state, doomed, own, tool, failfast, op, settled, answer>>
  BY DEF RolledOut, Running, objects, own
<1>2. AtWork
  BY <1>1 DEF AtWork, DeployTypeOK
<1>3. DeployTypeOK'
  BY <1>1 DEF DeployTypeOK
<1>4. AppliedIsLive' /\ SettledIsDone' /\ KubectlWatches'
  BY <1>1 DEF AppliedIsLive, SettledIsDone, KubectlWatches, AllApplied
<1>5. OkIsBuilt'
  <2>. SUFFICES ASSUME outcome' = "ok"
                PROVE  /\ AllApplied
                       /\ \A r \in Watched : answer[r] \in {"ready", "closed"}
                       /\ tool = "kapp" => \A r \in Manifest : state[r] = "ready"
    BY <1>1 DEF OkIsBuilt, AllApplied, Watched
  <2>1. ~AnyFailed(Watched) /\ \A r \in Watched : answer[r] # "none"
    BY DEF RolledOut
  <2>2. \A r \in Watched : answer[r] \in {"ready", "closed"}
    BY <2>1 DEF AnyFailed, Watched, DeployTypeOK
  <2>3. AllApplied /\ (tool = "kapp" => \A r \in Manifest : state[r] = "ready")
    BY DEF RolledOut, Watching, KubectlWatches, SettledIsDone
  <2>. QED
    BY <2>2, <2>3
<1>. QED
  BY <1>2, <1>3, <1>4, <1>5, AtWorkKeepsClean

LEMMA SpawnKeeps ==
  ASSUME DeployInv, Spawn
  PROVE  DeployInv'
<1>1. /\ step = "deploy-with" /\ outcome = "running" /\ tool \in {"helm", "kapp"}
      /\ UNCHANGED <<plugins, step, doomed, own, tool, failfast, answer>>
  BY DEF Spawn, Deploying, Running, Throw, own
<1>2. \E some \in SUBSET Manifest :
        /\ live' = [r \in Resource |-> IF r \in some THEN "new" ELSE live[r]]
        /\ state' = [r \in Resource |-> IF r \in some THEN "waiting" ELSE state[r]]
        /\ \/ /\ some = Manifest /\ op' = [r \in Manifest |-> "applied"]
              /\ IF tool = "helm" THEN Resolve ELSE UNCHANGED <<settled, outcome>>
           \/ outcome' = "failed" /\ UNCHANGED <<op, settled>>
  <2>1. CASE Throw /\ UNCHANGED <<live, state, op, settled>>
    <3>1. /\ live' = [r \in Resource |-> IF r \in {} THEN "new" ELSE live[r]]
          /\ state' = [r \in Resource |-> IF r \in {} THEN "waiting" ELSE state[r]]
      BY <2>1 DEF DeployTypeOK
    <3>2. outcome' = "failed" /\ UNCHANGED <<op, settled>>
      BY <2>1 DEF Throw
    <3>. WITNESS {} \in SUBSET Manifest
    <3>. QED
      BY <3>1, <3>2
  <2>. QED
    BY <2>1 DEF Spawn, Throw
<1>3. AtWork
  BY <1>1, <1>2, PreDeployType DEF AtWork, DeployTypeOK, Resource
<1>4. \A r \in Manifest : op[r] = "pending"
  BY DEF Spawn
<1>5. DeployTypeOK'
  <2>1. /\ op' \in [Manifest -> {"pending", "deleting", "applying", "redeleting",
                                 "reapplying", "applied"}]
        /\ settled' \in BOOLEAN /\ outcome' \in {"running", "ok", "failed"}
    BY <1>1, <1>2 DEF DeployTypeOK, Resolve
  <2>. QED
    BY <1>1, <1>3, <2>1, AtWorkKeepsClean DEF AtWork, DeployTypeOK
<1>6. AppliedIsLive'
  BY <1>2, <1>4 DEF AppliedIsLive, Resource
<1>7. SettledIsDone'
  <2>1. ~settled \/ Manifest = {}
    BY <1>4 DEF SettledIsDone, AllApplied
  <2>2. settled' => AllApplied'
    BY <1>2, <2>1 DEF AllApplied
  <2>3. settled' => (tool' = "kapp" => \A r \in Manifest : state'[r] = "ready")
    BY <1>1, <1>2, <2>1 DEF Resolve
  <2>. QED
    BY <2>2, <2>3 DEF SettledIsDone
<1>8. KubectlWatches'
  BY <1>1 DEF KubectlWatches
<1>9. OkIsBuilt'
  <2>. SUFFICES ASSUME outcome' = "ok"
                PROVE  AllApplied' /\ ~failfast' /\ tool' = "helm"
    BY DEF OkIsBuilt
  <2>. QED
    BY <1>1, <1>2 DEF Resolve, AllApplied
<1>. QED
  BY <1>3, <1>5, <1>6, <1>7, <1>8, <1>9, AtWorkKeepsClean

LEMMA CloseKeeps ==
  ASSUME DeployInv, Close
  PROVE  DeployInv'
<1>1. /\ step = "deploy-with" /\ outcome = "running" /\ tool = "kapp"
      /\ UNCHANGED <<plugins, step, live, state, doomed, own, tool, failfast, op, answer>>
  BY DEF Close, Deploying, Running, objects, own
<1>2. \/ settled' = TRUE /\ (\A r \in Manifest : state[r] = "ready")
         /\ outcome' = IF failfast THEN "running" ELSE "ok"
      \/ UNCHANGED settled /\ outcome' = "failed"
  BY <1>1 DEF Close, Resolve
<1>3. AtWork
  BY <1>1 DEF AtWork, DeployTypeOK
<1>4. DeployTypeOK'
  BY <1>1, <1>2 DEF DeployTypeOK
<1>5. AppliedIsLive' /\ SettledIsDone' /\ KubectlWatches' /\ OkIsBuilt'
  BY <1>1, <1>2 DEF Close, AppliedIsLive, SettledIsDone, KubectlWatches, OkIsBuilt, AllApplied
<1>. QED
  BY <1>3, <1>4, <1>5, AtWorkKeepsClean

LEMMA MovesKeeps ==
  ASSUME DeployInv, NEW r \in Resource, Moves(r)
  PROVE  DeployInv'
<1>1. /\ outcome = "running" /\ state[r] = "waiting"
      /\ UNCHANGED <<plugins, step, outcome, live, doomed, tool, failfast, op, settled, answer>>
  BY DEF Moves, own
<1>2. \E s \in {"ready", "failed"} : state' = [state EXCEPT ![r] = s]
  BY DEF Moves
<1>3. DeployTypeOK'
  BY <1>1, <1>2 DEF DeployTypeOK
<1>4. SettledIsDone'
  <2>1. \A q \in Manifest : state[q] = "ready" => state'[q] = "ready"
    BY <1>1, <1>2 DEF DeployTypeOK, Resource
  <2>. QED
    BY <1>1, <2>1 DEF SettledIsDone, AllApplied
<1>5. Orphans' = Orphans
  BY <1>1 DEF Orphans
<1>. QED
  BY <1>1, <1>3, <1>4, <1>5
  DEF NotYetDeployed, AppliedIsLive, KubectlWatches, DoomedAreOrphans, OrphansAreGone, OkIsBuilt

LEMMA InitDeploy == Init => DeployInv
<1>. SUFFICES ASSUME Init
              PROVE  DeployInv
  OBVIOUS
<1>1. step = "namespaces"
  BY DEF Init, Steps
<1>2. /\ tool \in {"kubectl", "helm", "kapp"} /\ failfast \in BOOLEAN
      /\ tool = "kubectl" => ~failfast
  BY PlainDeployType DEF Init, Sidecar
<1>3. /\ live \in [Resource -> {"absent", "old", "new"}]
      /\ state \in [Resource -> {"none", "waiting", "ready", "failed"}]
  <2>1. PICK there \in {{}, Manifest, Resource} :
          live = [r \in Resource |->
                    IF r \in there /\ phase[NsOf[r]] = "Active" THEN "old" ELSE "absent"]
    BY DEF Init
  <2>2. PICK failed \in SUBSET {r \in Manifest : live[r] = "old" /\ KindOf[r] \in Builtin} :
          state = [r \in Resource |->
                     IF live[r] = "absent" THEN "none"
                     ELSE IF r \in failed THEN "failed" ELSE "ready"]
    BY DEF Init
  <2>. QED
    BY <2>1, <2>2
<1>4. DeployTypeOK
  BY <1>1, <1>2, <1>3 DEF Init, DeployTypeOK, StepName
<1>. QED
  BY <1>1, <1>2, <1>4
  DEF Init, NotYetDeployed, AppliedIsLive, SettledIsDone, KubectlWatches,
      DoomedAreOrphans, OrphansAreGone, OkIsBuilt

-----------------------------------------------------------------------------
(* The theorems.                                                            *)

PlainInv == DeployInv /\ SecretsInv

LEMMA PlainInvHolds == Spec => []PlainInv
<1>1. Init => PlainInv
  BY InitDeploy, InitSecrets DEF PlainInv
<1>2. PlainInv /\ [Next]_vars => PlainInv'
  <2>. SUFFICES ASSUME PlainInv, [Next]_vars
                PROVE  PlainInv'
    OBVIOUS
  <2>. USE DEF PlainInv
  <2>1. SecretsInv'
    BY KindsForTheImport, NotImportingKeeps, ImportingKeeps
  <2>2. DeployInv'
    <3>1. CASE Prepare
      <4>1. /\ outcome = "running" /\ UNCHANGED <<own, op, settled, answer>>
            /\ Elsewhere \/ Importing \/ Cleaning
        BY <3>1, KindsOfPrepare
      <4>2. CASE Elsewhere
        BY <4>1, <4>2, ObjectsUntouched DEF Elsewhere
      <4>3. CASE Importing
        BY <4>1, <4>3, ObjectsUntouched DEF Importing
      <4>4. CASE Cleaning
        BY <4>1, <4>4, CleaningKeeps
      <4>. QED
        BY <4>1, <4>2, <4>3, <4>4
    <3>2. ASSUME NEW i \in DOMAIN Order, StartApply(i)
          PROVE  DeployInv'
      <4>1. Order[i] \in Manifest
        BY PlainDeployType
      <4>. QED
        BY <3>2, <4>1, KubectlKeeps
    <3>3. ASSUME NEW r \in Manifest,
                 DeleteFirst(r, "deleting") \/ Apply(r) \/ DeleteFirst(r, "redeleting")
                 \/ Reapply(r) \/ Watch(r)
          PROVE  DeployInv'
      BY <3>3, KubectlKeeps, WatchKeeps
    <3>4. ASSUME NEW r \in Resource, Moves(r)
          PROVE  DeployInv'
      BY <3>4, MovesKeeps
    <3>5. CASE UNCHANGED vars
      <4>1. /\ UNCHANGED <<plugins, step, outcome, live, state, doomed>>
            /\ UNCHANGED <<tool, failfast, op, settled, answer>>
        BY <3>5 DEF vars, preVars, objects, own
      <4>2. Orphans' = Orphans /\ Watched' = Watched
        BY <4>1 DEF Orphans, Watched
      <4>. QED
        BY <4>1, <4>2
        DEF DeployTypeOK, NotYetDeployed, AppliedIsLive, SettledIsDone, KubectlWatches,
            DoomedAreOrphans, OrphansAreGone, OkIsBuilt, AllApplied
    <3>. QED
      BY <3>1, <3>2, <3>3, <3>4, <3>5, RolledOutKeeps, SpawnKeeps, CloseKeeps
      DEF Next, Finished
  <2>. QED
    BY <2>1, <2>2
<1>. QED
  BY <1>1, <1>2, PTL DEF Spec

\* Whatever the plugins and the calls that fail, each variable keeps its type.
THEOREM TypesHold == Spec => [](SecretsTypeOK /\ DeployTypeOK)
<1>1. PlainInv => SecretsTypeOK /\ DeployTypeOK
  BY DEF PlainInv, SecretsInv
<1>. QED
  BY <1>1, PlainInvHolds, PTL

\* Once the import is over no namespace an entry is for is without the secret,
\* unless it was logged or the entry may be left out (02-import-secrets.js).
THEOREM SecretsHaveArrived == Spec => []SecretsArrive
<1>1. PlainInv => SecretsArrive
  BY DEF PlainInv, SecretsInv, SecretsArrive, ItemsServed, ImportIsOver, Served
<1>. QED
  BY <1>1, PlainInvHolds, PTL

\* A deployment that says it succeeded left every manifest applied and no orphan
\* of those that are listed, and saw no failure where it watched
\* (deploy-with/*.js, 03.2-clean-orphan.js, lib/rollout-status-manifests.js).
THEOREM SuccessIsTrue == Spec => []SuccessIsWhatWasBuilt
<1>1. PlainInv => SuccessIsWhatWasBuilt
  <2>. SUFFICES ASSUME DeployInv, outcome = "ok"
                PROVE  /\ \A r \in Manifest : live[r] = "new"
                       /\ "clean-orphan" \in plugins =>
                            \A r \in Strays : live[r] = "absent"
    BY DEF PlainInv, SuccessIsWhatWasBuilt, Strays, OkIsBuilt
  <2>1. step = "deploy-with"
    BY DEF NotYetDeployed
  <2>. QED
    BY <2>1 DEF OkIsBuilt, AllApplied, AppliedIsLive, OrphansAreGone
<1>. QED
  BY <1>1, PlainInvHolds, PTL

=============================================================================
