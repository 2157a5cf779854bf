SPECIFICATION Spec
CONSTANTS
  base = base
  migrate = migrate
  search = search
  gone = gone
  theirs = theirs
  kept = kept
  Namespace <- MCNamespace
  Nsplease = {"nsp"}
  Rancher = {"app"}
  Manifest = {base, migrate, search}
  Earlier = {gone, theirs, kept}
  KindOf <- MCKindOf
  CustomWaitableKinds = {"Cluster"}
  NsOf <- MCNsOf
  EnvOf <- MCEnvOf
  Env = "mine"
  Given <- MCGiven
  CopyAllNeeded = TRUE
  SecretsOf <- MCSecretsOf
  Provided = {"tls"}
  InCi = {"kubeconfig", "pg"}
  ImportLimit = 2
  PluginSets <- MCPluginSets
  Tries = 2
  MaxErrors = 1
  Deployers = {"kubectl", "helm", "kapp"}
  Order <- MCOrder
  Recreate = {}
  Forced = {base}
  Immutable = {base, search}
  ApplyLimit = 2
INVARIANTS
  SecretsArrive
  SuccessIsWhatWasBuilt
