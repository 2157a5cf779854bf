--------------------------- MODULE PipelineRequest ---------------------------
(***************************************************************************)
(* Which Job a request is about.  The service makes it from a hook         *)
(* (operations/hooks/, services/{pushed,deleted,custom,pipeline}.js): the  *)
(* name from the event, the environment, the branch and the chart, the     *)
(* cluster from the environment, both by the configuration that it reads   *)
(* in the repository at that moment.  A client that follows the log        *)
(* (kontinuous/src/logs/index.js, operations/logs/pipeline.get.js) must    *)
(* come to the same name, cluster and commit from its own configuration.   *)
(*                                                                         *)
(* The git platform delivers its events in any order, more than once and   *)
(* late, while branches move, change their configuration and go away.      *)
(* A commit is its place in history; 0 is the sha of zeros.  What becomes  *)
(* of a Job that others replace is in PipelineJobs.                        *)
(***************************************************************************)
EXTENDS Naturals, Sequences, FiniteSets, PipelinePod

CONSTANTS
  Branch,      \* branches and tags
  Default,     \* the default branch, which HEAD stands for
  Hash,        \* hashes of custom manifests
  Env, Cluster, Chart,
  Setting,     \* what the configuration file of a repository may say
  Plain,       \* what holds without a file
  EnvOf,       \* EnvOf[s][ref]: by the environmentPatterns of s
  ClusterOf,   \* ClusterOf[s][env]: by the clusterEnvironments of s
  MaxCommits,  \* pushes
  MaxJobs      \* Jobs at a time

None == "none"
Ref == Branch \union {"HEAD"} \union Hash

ASSUME RequestType ==
  /\ Default \in Branch /\ "HEAD" \notin Branch
  /\ Plain \in Setting
  /\ None \notin Env \union Cluster \union Chart \union Setting
  /\ EnvOf \in [Setting -> [Ref -> Env \union {None}]]
  /\ ClusterOf \in [Setting -> [Env -> Cluster \union {None}]]
  /\ MaxCommits \in Nat \ {0}

VARIABLES
  service,  \* how the service is configured for the repository
  history,  \* the commits: their branch and the setting in their tree
  tip,      \* tip[b]: the last commit of b, 0 for a branch that is gone
  events,   \* what the git platform has to tell, and may tell again
  jobs      \* the Jobs on the clusters, with the request they come from

forge == <<history, tip, events>>
requestVars == <<service, forge, jobs>>

\* The repository is private, the service has a file with its deploy key, its
\* Jobs a secret with that key or with a token for git, and a kubeconfig.
Service == [private : BOOLEAN, keyFile : BOOLEAN, deployKey : BOOLEAN,
            gitAuth : BOOLEAN, mount : BOOLEAN]
Sha == 1..MaxCommits
Event == {"pushed", "deleted", "custom"}

\* A request, with the setting that the service read for it; None if it read
\* no repository, or could not.
Request == [event : Event, env : Env \union {None}, ref : Branch \union Hash,
            commit : Sha \union {0}, chart : Chart \union {None, "deactivate"},
            read : Setting \union {None}]
Address == [event : Event, env : Env, ref : Branch \union Hash,
            chart : Chart \union {None, "deactivate"}, cluster : Cluster]

RequestTypeOK ==
  /\ service \in Service
  /\ history \in Seq([branch : Branch, setting : Setting])
  /\ Len(history) <= MaxCommits
  /\ tip \in [Branch -> 0..Len(history)]
  /\ events \subseteq [event : {"pushed", "deleted"}, ref : Branch,
                       after : Sha \union {0}]
  /\ jobs \subseteq [of : Request, at : Address]

RequestInit ==
  /\ service \in Service
  /\ history = << [branch |-> Default, setting |-> Plain] >>
  /\ tip = [b \in Branch |-> IF b = Default THEN 1 ELSE 0]
  /\ events = {} /\ jobs = {}

\* A push that may bring another configuration.
Push(b, s) ==
  /\ Len(history) < MaxCommits
  /\ history' = Append(history, [branch |-> b, setting |-> s])
  /\ tip' = [tip EXCEPT ![b] = Len(history) + 1]
  /\ events' = events \union
       {[event |-> "pushed", ref |-> b, after |-> Len(history) + 1]}
  /\ UNCHANGED <<service, jobs>>

RemoveBranch(b) ==
  /\ b # Default /\ tip[b] # 0
  /\ tip' = [tip EXCEPT ![b] = 0]
  /\ events' = events \union {[event |-> "deleted", ref |-> b, after |-> 0]}
  /\ UNCHANGED <<service, history, jobs>>

-----------------------------------------------------------------------------
\* The ref whose configuration is read.
Loaded(event, ref) == IF event = "deleted" THEN "HEAD" ELSE ref

\* Faulty variant: the file of the default branch, whatever the ref.
FileOfDefault(ref) == history[tip[Default]].setting

\* The file at a ref; a branch that is gone cannot be cloned.
FileAt(ref) ==
  LET b == IF ref = "HEAD" THEN Default ELSE ref IN
  IF b \in Branch /\ tip[b] # 0 THEN history[tip[b]].setting ELSE None

\* What can be read now for an event of ref, a private repository being open to
\* those who have its key.  Any clone may fail (get-repository-file.js:62).
\* The configuration of custom manifests is not read in the repository.
Readable(event, ref, hasKey) ==
  {None} \union
  (IF event = "custom" \/ (service.private /\ ~hasKey) THEN {}
   ELSE {FileAt(Loaded(event, ref))})

\* What a hook may read: it looks the key up under another name than it is kept
\* (services/pipeline.js:42, config/index.js:71).
ReadableByHook(event, ref) == Readable(event, ref, FALSE)

\* What the logs endpoint may read (pipeline.get.js:92).
ReadableByLogs(event, ref) == Readable(event, ref, service.keyFile)

\* A repository that could not be read counts as one without file.
Config(read) == IF read = None THEN Plain ELSE read

\* The environment and the cluster of a request, by the configuration read.
EnvBy(r) ==
  IF r.env # None THEN r.env ELSE EnvOf[Config(r.read)][Loaded(r.event, r.ref)]
ClusterBy(r) ==
  IF EnvBy(r) = None THEN None ELSE ClusterOf[Config(r.read)][EnvBy(r)]

\* The name and the cluster of its Job.
AddressOf(r) ==
  [event |-> r.event, env |-> EnvBy(r), ref |-> r.ref, chart |-> r.chart,
   cluster |-> ClusterBy(r)]

\* What its Job mounts, whatever is asked for.
Mounted ==
  {f \in {"kubeconfig"} : service.mount}
  \union {f \in {"deployKey"} : service.private /\ service.deployKey}
  \union {f \in {"gitAuth"} : service.gitAuth}

\* The name of a volume is a DNS label for the API server: no capitals.
Accepted == Volumes(Mounted) \subseteq {"workspace", "kubeconfig"}

\* The Job of r replaces that of the same name: the delete comes first, and
\* stays when the API server refuses the Job.  A request without environment or
\* cluster is answered with 204.
Launch(r) ==
  LET at == AddressOf(r)
      others == {j \in jobs : j.at # at} IN
  /\ at.env # None /\ at.cluster # None
  /\ Cardinality(others) < MaxJobs
  /\ jobs' = others \union (IF Accepted THEN {[of |-> r, at |-> at]} ELSE {})
  /\ UNCHANGED <<service, forge>>

\* A removal is a deployment of the chart "deactivate".
ChartAsked(event, chart) == IF event = "deleted" THEN "deactivate" ELSE chart

\* hooks/github: an event of the platform, the chart being in the query of the
\* webhook.  A push without commit is a no-op.
Github(e, chart) ==
  /\ e.event = "pushed" => e.after # 0
  /\ \E read \in ReadableByHook(e.event, e.ref) :
       Launch([event |-> e.event, env |-> None, ref |-> e.ref, commit |-> e.after,
               chart |-> ChartAsked(e.event, chart), read |-> read])

\* hooks/user: a workflow asks for a branch, with or without its commit and an
\* environment, of which a removal hears nothing.
User(event, b, commit, env, chart) ==
  /\ commit # 0 => commit <= Len(history) /\ history[commit].branch = b
  /\ \E read \in ReadableByHook(event, b) :
       Launch([event |-> event, env |-> IF event = "deleted" THEN None ELSE env,
               ref |-> b, commit |-> commit,
               chart |-> ChartAsked(event, chart), read |-> read])

\* hooks/custom: the manifests of a client, under their hash.
Custom(hash, env) ==
  \E read \in ReadableByHook("custom", hash) :
    Launch([event |-> "custom", env |-> env, ref |-> hash, commit |-> 0,
            chart |-> None, read |-> read])

\* Two days after its end.
JobExpires(j) == jobs' = jobs \ {j} /\ UNCHANGED <<service, forge>>

RequestNext ==
  \/ \E b \in Branch, s \in Setting : Push(b, s)
  \/ \E b \in Branch : RemoveBranch(b)
  \/ \E e \in events, chart \in Chart \union {None} : Github(e, chart)
  \/ \E event \in {"pushed", "deleted"}, b \in Branch, commit \in Sha \union {0},
        env \in Env \union {None}, chart \in Chart \union {None} :
       User(event, b, commit, env, chart)
  \/ \E hash \in Hash, env \in Env : Custom(hash, env)
  \/ \E j \in jobs : JobExpires(j)

RequestSpec == RequestInit /\ [][RequestNext]_requestVars

-----------------------------------------------------------------------------
\* What the logs client asks for after request r, in a checkout of its commit
\* with the environment of r if it was given one.
Query(r) ==
  [event |-> r.event, ref |-> r.ref, commit |-> r.commit,
   chart |-> IF r.event = "deleted" THEN None ELSE r.chart,
   env |-> IF r.env # None THEN r.env
           ELSE EnvOf[history[r.commit].setting][r.ref]]

\* The Job that the service follows for query q once it has read a
\* configuration.
Followed(q, read) ==
  AddressOf([event |-> q.event, ref |-> q.ref, commit |-> q.commit, read |-> read,
             env |-> IF q.env # None THEN q.env ELSE EnvOf[Config(read)][q.ref],
             chart |-> IF q.chart = None /\ q.event = "deleted"
                         THEN "deactivate" ELSE q.chart])

\* The branch of commit c has not changed its configuration since.
SameSince(c) ==
  \A i \in c..Len(history) :
    history[i].branch = history[c].branch => history[i].setting = history[c].setting

\* The client of a pipeline is led to the Job that was made for it: the service
\* reads the repository twice, for the hook and for the log, each time as it is
\* then, and the client a third time, in its checkout.  Late, repeated and
\* overtaken hooks, later commits, removals of the branch and pushes to others
\* change nothing, as long as the branch keeps the configuration of the commit;
\* and a read that fails, if the commit has none of its own.  A client of custom
\* manifests is led to its Job whatever happens to the repository (services/
\* pipeline.js:44-88, pipeline.get.js:94-140, logs/index.js:28-61).
ClientsFindTheirJob ==
  \A j \in jobs : \A read \in ReadableByLogs(j.of.event, j.of.ref) :
    \/ j.of.event = "custom"
    \/ /\ j.of.event = "pushed" /\ j.of.commit # 0
       /\ SameSince(j.of.commit)
       /\ None \in {j.of.read, read} => history[j.of.commit].setting = Plain
    => Followed(Query(j.of), read) = j.at

=============================================================================
