# TLA+ models of kontinuous

Kontinuous builds the manifests of an application out of helm charts and
plugins, deploys them on a Kubernetes cluster, and has a webhook service that
does so for the pushes of a git platform. Three parts of it are modelled here,
checked with TLC and, as far as it reaches, proved with TLAPS: the life of a
deployment (a task per manifest, sidecars, a status server, signals), the
service, where requests replace one another's Job while clients follow its log,
and what comes before: the loading of the configuration and the build, which are
sequential but long, each step relying on what the others left.

Paths below are relative to the root of the repository; `packages/` stands for
`src/packages/` and `contrib/` for `src/plugins/contrib/`.

## 1. The system

| Component | State it keeps | Operations | Talks to | What makes it correct |
|---|---|---|---|---|
| Event bus, `packages/common/utils/events-bucket.js` | per event name the whole log (`fullstack`), per subscription a stack and a resolver (`next`) | `emit`, `on`, a turn of the iterator | everything below, in process | a handler hears the log of its name, each event once and in order, whenever it subscribed |
| Deployer, `contrib/deploy-with/kubectl-dependency-tree.js` | a task per manifest, an apply queue, the promises of its needs, the cluster | wait for needs, delete, apply, resolve conflicts, watch, report | bus, kubectl, rollout-status | order of the needs, width of the queue, honest success, an end |
| Deploy command, `packages/kontinuous/src/deploy/` | the step, the errors gathered, the exit code | build, hooks, deployer and sidecars side by side, join, report | deployer, sidecars, status server | exit code, status and deployment agree; nothing is left running |
| Process end, `packages/kontinuous/src/cli/index.js` | abort signal, shutdown timer, exit code | signals, `exit` | all of the above | a process that has a verdict or a signal ends |
| Sidecars, `contrib/deploy-sidecars/{progressing,stern}.js` | processes that follow logs | spawn, kill when ready or finished | bus | they end when the deployer does |
| Logs client, `packages/kontinuous/src/logs/index.js` | the line under reassembly, the end flag, the final state | request, reassembly, retry, exit | webhook service | it exits with 0 on the service's word only, and it ends |
| Webhook hooks, `packages/webhook/src/api/v1/operations/hooks/`, `services/pipeline.js`, `k8s/command/` | none in the process; one Job per branch on the cluster | answer 202, then delete and apply the Job | kubectl | concurrent hooks leave the branch with a Job |
| Requests of pipelines, `packages/webhook/src/api/v1/services/`, `k8s/resources/pipeline.job.js`, and who follows them | the repository's commits, branches and their configuration, read at each request | read the configuration, name the Job and its cluster, make its pod; find it again for a client of the logs | git platform, hooks, logs client | the client is led to the Job that was made of its request |
| Webhook logs endpoint, `.../logs/pipeline.get.js`, `packages/common/utils/kubejob-tail.js` | the turn of a tail | wait for a pod of the commit, tail, write the verdict | kubectl, logs client | every follower gets an answer, and an ok has a reason |
| Deploy on webhook, `packages/kontinuous/src/deploy/deploy-on-webhook.js` | the lines shown, the turn of the tail | upload, follow the Job of the hash, read the status | service, kubectl | an exit with 0 stands for a deployment that succeeded; it ends |
| Artifacts and statuses of the service, `.../artifacts/`, `cron/clean-artifact.js` | files by commit | write, read, clean by age | deploy command, pods | a success read was written by a success |
| kubectl runner, `packages/common/utils/kubectl-retry.js` | attempts, the process | run, retry | kubectl | an error that passes is retried, another is not |
| Watch of a resource, `packages/common/utils/wait-for-resource.js`, `wait-appear.js`, `rollout-status*.js`, `kubectl-wait-for-ready.js` | attempts, timer, the tool that runs | run a tool, retry, sleep, stop | rollout-status, kubectl | one answer, true of the resource; it ends when told to |
| Failfast, `contrib/deploy-sidecars/failfast.js`, and the deployers kubectl, helm, kapp | a watch per manifest, applies in flight | apply, delete and apply again, watch | kubectl | a success left what was built |
| Pre-deploy plugins, `contrib/pre-deploy/` | secrets, namespaces on the cluster | create, wait, copy, clean | kubectl | what the deployment needs is there, or the log says so |
| Configuration, `packages/common/config/load-config.js` | one configuration object, which values are defaults | passes over two tables, merges of layers, reloads | git, files, environment | precedence; derived values follow their sources; an end |
| Build, `packages/kontinuous/src/build/` | values, manifests, the step | compilers, helm, patches, validators | configuration, plugins | what is selected is built; a refusal has a reason |
| Compilers of values, `contrib/values-compilers/`, `packages/kontinuous/src/build/load-dependencies/` | the tree of the charts | select, unfold, resolve, enable, compile jobs | build | the options have the last word; needs reach their runs |
| Needs, `contrib/patches/05.*`, `contrib/lib/get-needs-deps.js`, `contrib/validators/needs-require.js` | none | match, order, refuse | build, deployer | waves follow the needs, needs that are met are found |

Hard behaviours: the interleaving of the tasks with the bus's replay; a
`Promise.all` that rejects without stopping the other tasks; events that never
come (a watch given up, a resource that nobody watches, a disabled step);
signals and a shutdown timer that may cut any step; kubectl calls that fail
after having taken effect; a log cut into chunks anywhere; unordered hooks that
delete and apply the same object; values that are computed before what they are
computed from is known; compilers and patches that undo one another. The list `hazards` of `PROJECT.json` places
each of them at its line and names the properties that watch it.

## 2. The modules

| Module | Models | Abstract specification |
|---|---|---|
| `EventsBucket` | the event bus | `EventLog`: one append-only log per name, handlers that read it |
| `DependencyTree` | the deployer | `DeployOrder`: begin, report, one verdict |
| `DeployLifecycle` | the deploy command, the end of the process, the two sidecars; its deployer is an instance of `DeployOrder` | |
| `ResourceWatch` | the wait for one resource, by rollout-status or by polls | `WatchOutcome`: one answer, ready only of what is ready |
| `LogStream` | the logs client and the stream of the service | |
| `PipelineJobs` | the hooks, the Job of a branch, the followers of the service | |
| `PipelineRequest` | which Job a hook or a request makes, by the configuration of which commit, and which Job a client of the logs is led to | |
| `DeployOnWebhook` | `deploy --on-webhook`: the client, its Job, the pod, the tail of its log, the status store | |
| `ConfigTable`, `ConfigLoad`, `PipelinePod` | the tables of configuration keys; the loading of a configuration; what the service gives to its pods | |
| `ChartValues`, `JobRuns`, `Manifests`, `BuildPipeline` | the values of the charts; the runs of jobs; the manifests with patches and validators; the steps of a build | |
| `PreDeploy`, `PlainDeploy` | the pre-deploy plugins; then the deployers kubectl, helm and kapp, and failfast | |

`MC*` modules give constants to TLC; `*Proofs` modules hold theorems. `MCPipeline`
puts `PipelineRequest` and `BuildPipeline` in one run: a behaviour is of one of the
two, which share no state, so that it is no composition of them.

The composition goes through the abstract specifications. `EventsBucket`
implements `EventLog`, in which an event once published reaches every handler,
also a later one; so `DependencyTree` and `DeployLifecycle` enable the reaction
to an event by the event having been emitted, instead of carrying the bus.
`DependencyTree` implements `DeployOrder`, and `DeployLifecycle` runs
`DeployOrder!Next` as its deployer: what holds of the command holds with the
real deployer for every behaviour that does not depend on its liveness, which
the command's fairness does not assume. `ResourceWatch`
implements `WatchOutcome`, which is what the three outcomes of a watch in
`DependencyTree` rest on: `WatchReady` asks for the new resource, `WatchClosed`
for a signal or the timer (a killed tool counts as one), `WatchFailed` for
nothing. A poll that finds nothing says ready too (`kubectl-wait-for-ready.js:45`):
`WatchOutcome` allows it, and `DependencyTree` leaves it out, since it watches what
it has applied.

### EventsBucket

A promise that was resolved reaches its consumer in a later microtask. The
module keeps that moment: `inflight[h]` is the value resolved and not consumed.
`On` is the synchronous `on()`, replay and first turn of the generator included;
`Emit` is `emit()` with the push on every iterator; `Deliver` is one turn of
`for await`: the callback, then the next pull. A callback that throws is not
modelled.

### DependencyTree

`phase[m]` is where the task of `m` stands: waiting for its needs, in the queue,
in one of up to four kubectl calls of its slot (the queue counts the slot, not the
calls), watching, and ended or rejected.
`status[m]` is the last `resource:*` event emitted for it, `cluster[m]` its
resource. Every call may fail, may be killed by the terminal's signal and then
resolves as a success (`kubectl-retry.js:63`), and a delete that failed may have
taken place. After the first rejection `outcome` is fixed and the other tasks go
on, as they do in the code, until `Exit`.

`Unresolvable` and `Labelled` are the two ways a need can be unmet: it matches
no manifest, or it matches one that nobody watches since it has no
`kontinuous/resourceName` label. A need is a set of manifests here; the matching
of names is in the needs patches. `dry-run` changes nothing and is left out.

### ResourceWatch

One call of `waitForResource`. `polled` and `survive` are its options. `at` says
where the loop of `wait-appear.js` is; `tries` is `retryCount`, which belongs to
one run of the tool. An answer of a tool is a class of outputs: what the wrappers
tell apart by code, type or a part of the message. The classes a tool can give
depend on the resource at the moment it ends. `Retried` and `Says` translate the
two wrappers: which errors are thrown again, which end the watch and how.
`Transient` is what the repository says should be tried again, which is more than
`Retried`: kubectl's timeouts are listed (`retriable-network.js:13-15`) and missed. The
rules by kind of `kubectl-wait-for-ready.js` only say whether an item is ready.

### DeployLifecycle

`main` follows `deploy()`, its `catch` and the tail of `cli()`. Sidecars are
enabled by the events they subscribe to. `stern` subscribes only once its binary
is there, and kills a process when its resource is ready or the deployer
finished. A call of the status server may be lost (`status/index.js:17`), which
`lost` records. `Signal` aborts; `Kill` stands for the second SIGINT and for the
shutdown timer and may come at any later moment.

### LogStream

The stream of the service is a sequence of tokens: the constant `Log`, which is any
log, then the flag and the verdict. `MCLogStream` takes a log with a progress dot, a line of the
job that looks like a verdict, the two halves of the end flag, the verdict. A
chunk is any interval of it, so that every cut between two tokens is a case;
`handleOut` is modelled by what it does with the newlines and the pop of the last
part. A chunk that holds several lines handles them as concurrent promises,
whence the choice in `final'`. Requests may be refused, not reachable, cut short
or broken.

### PipelineJobs

One branch. A Job is named by the hook that created it, as its uid would.
`runJob` is four steps: delete, the read of apply, then its create or its patch;
each is atomic on the API server and anything may come between two of them. A
lost answer makes the call run again. The two ends of a follower's tail are the
state of the Job and the eleven turns. `Lose` is a restart of the service, which
keeps no trace of the hooks it answered.

### PipelineRequest

A commit is its place in `history`, with its branch and what its configuration
file says (`Setting`); `EnvOf` and `ClusterOf` are the environmentPatterns and the
clusterEnvironments of each setting. `Push` and `RemoveBranch` are the git platform,
which may tell its events late, twice and in any order; `Github`, `User` and `Custom`
are the endpoints with everything they call up to the Job: `Readable` is what the
service may get of the file (`get-repo-config.js`, `get-repository-file.js`), where a
clone may fail at any time and does for a branch that is gone and for a private
repository without key. A hook has no key, whatever the service has
(`ReadableByHook`), a request of the logs has it (`ReadableByLogs`). `AddressOf` is the
name and the cluster of the Job, `Mounted` and `Volumes` what its pod mounts. A
record `Request` also keeps what was read for it. `Query` is what the logs client
sends from its own checkout (`logs/index.js`) and `Followed` the Job that the service
takes it to mean (`pipeline.get.js`) by the configuration that it reads then. What
becomes of a Job is in `PipelineJobs`; here it is there until it is replaced or
expires.

`ClientsFindTheirJob` compares three readings of the repository, at the hook, at the
request of the log and in the client's checkout, whatever happened in between. It
holds while the branch keeps the configuration of the commit (`SameSince`) and, if one
of the service's readings fails, for a commit whose configuration is the default
one. The two conditions are those under which the code does what it should: without
either, TLC finds a client that is led to another Job. Removals are left out of it:
the service reads the default branch for them, and the client the patterns of its
own.

### DeployOnWebhook

A run is a request of a client, with its Job and its pod. Jobs are named after
the hash of the manifests (`HashOf`) and statuses stored by commit (`CommitOf`),
and nothing tells two runs of one name apart, as in the code. `Delete` and `Apply`
are the un-awaited `runJob` of the service; `Drop` is a restart or a kubectl that
gives up. `Start`, `Deploy`, `Report` and `Stop` are the pod; each post of a status
may be lost. `Attach`, `ReadLine`, `Lose`, `LogEnds` and `Check` are
`kubejob-tail.js`: a line is a number, its timestamp; `Pieces` is what the cut of a
chunk makes of it, and `Word` stands for a word of the text that is taken for a
timestamp. `Disavow` is the failure that the command itself posts. `Clean` is the
cron of the service.

### ConfigLoad

`ConfigTable` translates the two tables of `load-config.js`: for each key, where it
is looked up, which keys its default reads, and whether it is asked for. `ConfigLoad`
runs the passes over these tables (`loadStructuredConfig`), merges the layers
where the code does, and keeps the stack of the calls of `loadConfig` to itself.
A value is the layer that gave it; a computed value also records the values it was
computed from, so that one computed too early shows. `PipelinePod` lists what the
Jobs of the service give to the kontinuous in their pods, which is one of the
scenarios of `ConfigLoad`.

Some details of values are not in it: objects are replaced where the code fills
them in (`load-config.js:1040-1041`), the merges of organizations and repositories are
not told apart from that of the project, and `KS_GIT_REPOSITORY_URL`, which wins over
the option (128-131), goes by the order of the other keys. No property depends on
them.

### BuildPipeline

Values are the user's entries by key, and the tree of charts by path; of an entry
only what decides its fate or that of its manifests is kept. The chart templates
are constants: the kinds of manifests of each chart (`Kinds`) and the runs of each
job of a plugin (`Uses`). A dotted name is the sequence of its parts, since prefixes
of names are what needs go by. The steps are actions, each the whole of its step,
and the abort signal comes between two of them. `ToolFails` is a download of
dependencies, helm or the loading of its output that throws. Merges of files,
templates in values, the `if` and `enabled` of a run and everything that changes only
the text of a manifest are left out; an empty list of needs is no needs.

### PreDeploy and PlainDeploy

The plugins run in the order of their names. Namespaces and entries of secrets go
concurrently inside their plugin, each with its own state (`task`, `item`), and
a plugin ends with its slowest. A call of kubectl that fails is one that failed
for good: `MaxErrors` bounds them, and the code catches some, logs others and lets
the rest end the deployment. `live[r]` is the object of the cluster, old or new,
and `state[r]` what its controller makes of it, which may change at any moment.
`endAll` (`rollout-status-manifests.js:15`) sleeps and stops nothing: it is no
action, and watches go on. A kubectl that is killed on its own, and then counts as
having worked (`kubectl-retry.js:63`), is in none of the models: only the signal of
the terminal kills one, in `DependencyTree`.

## 3. What the runs check

| Run | Instance | Shows |
|---|---|---|
| `events_bucket` | 2 names, 3 handlers (two of one name), 2 payloads, 2 events per name | types; a registered handler's history, value in flight and stack are the log; every event is heard; the bus implements `EventLog` |
| `dependency_tree` | 5 manifests: `db` and `api` without needs, `job` after `db`, `app` after all three, `cfg` not watched; width 2; a recreated job, a forced conflict, failures, timeouts, a signal | needs ready first; a success is complete; `DeployOrder`; a result comes unless a watch was given up |
| `deploy_lifecycle` | 2 manifests, a status server, signals | a 0 means deployed; the last status and the exit code agree; nothing runs at the hooks and the exit; no verdict is replaced; a verdict or a signal ends the process |
| `resource_watch` | one watch of each kind, with and without `surviveOnBrokenCluster`, the real 10 retries, any moves of the resource | a watch fails on the eleventh transient error, on a timeout of kubectl or on an error that does not pass; a signal ends it wherever it is; `WatchOutcome` |
| `log_stream` | the real 10 retries, all cuts of a log of 6 tokens with the flag and the verdict behind it | a 0 is the service's last word, received to its end; streams cut at the service's writes are understood; the client ends |
| `pipeline_jobs` | 3 hooks (one redelivered) of 2 commits, a follower of the first, 2 turns | the branch is left with a Job; an ok to a follower has its reason; followers get an answer |
| `deploy_on_webhook` | two clients of one hash, the second detached, after an earlier run of the first one's commit; 2 turns, 2 tries | a client that followed exits with 0 only if a deployment of its commit succeeded; no line is shown twice or before an older one; the command ends |
| `config_load` | the two tables whole; any two values of six keys, and of the dependencies of the command line, given in any two of ten layers, and what the pods are given | values follow what they were computed from; environment and options win for the second table; a pod reports where its client looks; loading ends, or goes on for ever in the one case of `Endless` |
| `pipeline`, its requests | a default branch and a feature, two configurations that send a branch to different environments and clusters, any settings of the service, two more commits, one Job at a time | a client of a pipeline is led to the Job made of its request |
| `pipeline`, its build | a project over fabrique and contrib with the charts app, pg, job and jobs; about eight thousand scenarios of flags, selections, needs, changed paths, rules, waves, init containers, disabled steps, uses of jobs, circles of needs | what is selected is built and nothing else; needs of runs reach the runs meant; a failure has a reason; waves follow needs |
| `pre_deploy` | 2 namespaces in any phase, 3 secrets (one needed by a manifest), 3 manifests over 3 older objects, one failing call, the three deployers, with and without failfast | secrets arrive or the log says why not; a success left what was built and no orphan |

Two more runs show statements of the repository that the code does not keep:

| Run | Statement | What happens |
|---|---|---|
| `pipeline_jobs_gitlab` | "accepted" (`gitlab.post.js:59`) | the gitlab endpoint never calls the function that launches the Job |
| `resource_watch_timeouts` | "kubectl network error(timeout stuff)", among the errors to try again (`retriable-network.js:13-15`) | the expression has no room for the newline at the end of kubectl's messages: a poll that ends on a timeout fails the watch at once. `FailedHasReason` and the theorem `OnlyTimeoutsAreMissed` say that it is the only transient error that does |

### Behaviours modelled and not stated as properties

These were met while modelling. The models have them; the properties leave them
out by naming the case, since the code promises no more.

Deployment:

* After the first failure gave the deployer its result, its other tasks still
  delete and apply manifests while the post-deploy hooks run.
* A watch that ends on its 60 minutes is taken for one that was "killed"
  (`kubectl-dependency-tree.js:300`): a deployment succeeds with a resource that was
  never ready.
* `--disable-step` with `deploy-with` leaves the sidecars waiting for an event that
  nobody emits (`progressing.js:122`): the command does not end.
* `01-namespaces` makes a namespace Active before `01-nsplease-namespaces` looks at
  it, whose first check passes on that: the state of nsplease is not waited for.
* `from === to` (`02-import-secrets.js:179`) compares an array with a string, so
  that a secret is applied to the namespace it comes from too. Whether an entry is
  needed is decided for all namespaces together: a secret missing in one is copied
  over in all. A get that fails counts as an absence.
* `kubectl.js:159` passes a list where options are taken apart: manifests of custom
  kinds are counted and not watched. `endAll` stops nothing, so that failfast does
  not fail fast. `helm` without `--wait` succeeds before anything is ready.

Service and its clients:

* A tail that used up its eleven turns, or that meets a Job without pod, tells its
  follower ok while the Job runs.
* A cut line leaves a piece whose first word becomes `lastTimestamp`: the lines that
  compare lower are lost (`kubejob-tail.js:49-60`).
* A chunk without newline is lost by the logs client, with the flag it may begin
  (`logs/index.js:90,130`); a network error ends the client at its first request
  with "retry limit reached", since the `catch` returns (`logs/index.js:127,150`).
* The status read by `deploy --on-webhook` may be that of an earlier run of the same
  commit, and the Job followed that of an earlier request. A client that gives up
  posts a failure over the status of a pod that goes on.
* The deploy key of a repository is kept as `deployKey` (`config/index.js:71`) and
  looked up as `deployKeyFile` (`services/pipeline.js:42`): the hooks of a private
  repository read no configuration, while its log requests do
  (`pipeline.get.js:92`). A clone that fails counts as a repository without file
  (`get-repository-file.js:62`).
* The volumes `deployKey` and `gitAuth` (`pipeline.job.js:312,328`) have names that are
  no DNS labels. The API server refuses a Job with one of them, after `jobDelete`
  removed the Job it replaces, whereas the comment of lines 331-333 has a project
  without a token "degrade to anonymous git with a warning, rather than a pipeline
  that cannot start at all".
* A hook reads the file at the tip of the branch, not at the commit it deploys, and
  for a removal that of the default branch. A late push event brings back the
  deployment of a branch that is gone.
* A request of a user without commit deploys the HEAD of the repository, whatever
  branch it names (`pipeline.job.js:119-122`). gitlab's removal gives the event
  "deleted " (`gitlab.post.js:10`), which has no handler.
* `clean-artifact.js` goes by the age of the directory of the project, which a
  status written deep inside does not change.

Configuration:

* `--config-set` and `--inline-config` of a key that has a default do not reach the
  values computed from it (`load-config.js:943-956`), and a dependency's `config:`
  wins over them. Root keys in files win over the environment, whereas
  `docs/advanced/configuration.md` has the environment override the files.
* `dependencies` on the command line with an existing repository of the organization
  make loading call itself for ever (`load-config.js:947-961,1015-1020`). The
  scenarios have the combination: `LoadEnds` says that loading goes on for ever with
  it and ends without it, `SomeLoadsGoOn` that it never gets to an end.

Build:

* A job that uses a job that uses a job gets needs that name nothing
  (`05-jobs.js:310`), although `docs/advanced/plugins.md` says that `use` nests; the
  scenarios have one level. Jobs that use one another in a circle are copied for
  ever; `UsesType` excludes them.
* Needs in a circle: with sync waves the search for the deepest one exhausts the
  stack and the build fails (`Circular`); without them the build passes, and in the
  deployer their tasks wait for one another.
* The template of a Job writes `kontinuous/onChangedPaths` (`_job.yaml:53`) and the
  patch reads `kontinuous/plugin.onChangedPaths`: changed paths of a run do nothing.
* The rules "unbind" and "cascade" look for annotations of kapp that a later patch
  sets. A manifest left out as unchanged makes the build fail when another one that
  is built needs it.
* With init containers, needs of a custom kind that is waited for (`Cluster`) end the
  build on a TypeError: the patch looks for the template of its pods
  (`05.1-needs-using-initcontainers.js:49`). `FailureHasReason` lists it.
* A selected key that names no chart gives an empty build and no error.
* Disabling the patches or the post-renderer makes the writing of the manifests
  throw (`builder.js:73`).

### Bounds

* `MaxLog = 2` in `EventsBucket`: a handler's state depends on whether its stack
  is empty, has one or more than one event, and whether the replay finds none,
  one or several; two events of two payloads show a loss, a duplicate and a
  swap. The proofs have no bound.
* Five manifests have a chain (`db`, `job`, `app`), several needs of one manifest,
  a direct need that is also an indirect one, and an unwatched manifest; width 2 is
  the first at which two sequences overlap and a third waits.
* `Retries = 10` is the real value: a request differs from the previous one only
  in what the client kept (flag, line, final state).
* Three hooks are what it takes for two of them to race while a third deletes
  what one created. `MaxTurns = 2` stands for 11: the first turn, the last.
* `PipelineRequest`: three commits are what it takes for a branch to change its
  configuration after its first hook; Jobs do not meet one another here, so that one
  at a time is enough (`MaxJobs = 1`), the others having expired.
* `DeployOnWebhook`: `MaxTurns = 2` and `MaxTries = 2` stand for 11, so that a tail
  attaches from the start again, and then with an overlap. Two clients of one hash
  are what it takes to replace a Job that is followed; a pod writes two lines.
* `ConfigLoad`: two values are enough for a conflict between layers and for a value
  that is late for another; the six keys are one of each way to be computed (asked
  for, kept, of the first table, of the second, without row), and "dependencies" on
  the command line is what makes a nested call load them. A loading whose calls
  nest more than `MaxDepth = 3` deep forgets the outermost, so that an endless
  recursion is a cycle that `LoadEnds` finds.
* `BuildPipeline`: four entries have a chart, a copy of a chart under another key, a
  chart of another plugin and jobs; the scenarios vary one feature in full beside
  defaults for the others, since TLC cannot take the product of all.
* `PreDeploy`: one failing call (`MaxErrors = 1`) at any place; two namespaces, one of
  nsplease and one of Rancher; `Tries = 2` stands for 11. Three manifests with two
  applies at a time leave one waiting.

`CHECK_DEADLOCK FALSE` is in the configurations because each of these systems
does stop: the log is full, the process exited, the client has its code, the
hooks are settled.

### Fairness

* `EventsBucket`: the event loop runs pending microtasks (`Deliver`). Nobody has
  to emit or to subscribe.
* `DependencyTree`: a task that can move moves. kubectl and rollout-status are
  external processes with timeouts; the queue is FIFO. Nobody has to signal.
* `DeployLifecycle`: the main flow, the sidecars' own turns and a SIGKILL take
  effect, and the shutdown timer fires. The deployer need not give a verdict, and
  `stern` need not end by itself: `VerdictEnds` is conditional for that reason.
* `ResourceWatch`: timers fire and `kubectl get` answers; rollout-status ends when
  it was told to. It may watch a Job for as long as the Job runs, which is why
  `WatchEnds` promises an end by the timer to the polls only.
* `LogStream`: the stream ends, since the Job has a deadline of one hour
  (`pipeline.job.js:91`), and async-retry sends its next request.
* `DeployOnWebhook`: the command's own steps only. `CommandEnds` holds although the
  service, the pods and the API server owe it nothing: waits have a timeout, tails
  a number of turns and tries.
* `ConfigLoad`: a sequential program goes on.
* `BuildPipeline`, `PreDeploy`, `PlainDeploy`, `PipelineRequest`: safety only.
* `PipelineJobs`: kubectl calls end after a bounded number of retries, pods start
  and end, a follower's own turn comes. Hooks need not arrive and a delete need
  not ever be answered.

## 4. What is proved

For every value of the constants that satisfies the assumptions of the modules:
that constants have their types (`DepthType`, `NameOfType`, `ManifestType`, `LifecycleType`,
`WatchType`, `PipelineType`, `NoJobType`, `OnWebhookType`, `RequestType`,
`PreDeployType`, `PlainDeployType`, `TargetsAreNamespaces`), that the log of a Job does
not contain the flag that ends it (`LogStreamType`), and for the build that charts,
runs and kinds are finitely many, jobs do not use one another in a circle, Jobs come
from runs only (`ChartsType`, `UsesType`, `KindsType`, `BuildScenariosType`) and names
are not empty (`NamesType`), and that entries are of
charts of plugins that have no charts of their own, are not disabled and go by no
global flag (`LeavesType`): one that disables a chart above another's would have a
say on both. TLC evaluates all of them on the instances of the runs.

* `EventsBucketProofs`: `TypeCorrect`, `NoSleepingConsumer`, `Delivery`,
  `Refinement`. `ExactlyOnceInOrder` is not inductive without
  `ParkedIsIdle`: an event given directly to a parked consumer would overtake one
  that sat in its stack. The invariant adds that a handler which is not registered
  has nothing (`Silent`).
* `DependencyTreeProofs`: `TypeCorrect`, `NeedsAreReadyFirst`, `WidthKept`,
  `SuccessComplete`, `FinalReports`, `UnmetNeedsAreHeld`, `Refinement`. The invariant
  relates the phase of a task to its status (only a watched task that reached its
  watch has a report), the needs a task has heard to their being ready, and the
  queue to the phase "queued". It gives the steps of `DeployOrder` their guards.
  `UnmetNeedsAreHeld` adds, for every graph of needs, that a task with a need that
  matches nothing goes nowhere (`Unresolved`) and that only what is watched has a
  report (`OnlyWatchedReported`).
* `DeployLifecycleProofs`: `TypeCorrect`, `Honest`, `StatusAgrees`, `NothingLeft`,
  `VerdictKept`. The invariant says, for each value of `main`, which exit code and
  remote status are possible, and that a joined run has no process left: the
  deployer goes on after the join, so that the verdict must be known not to
  change.
* `ResourceWatchProofs`: `TypeCorrect`, `FailuresHaveReasons`, `OnlyTimeoutsAreMissed`,
  `Refinement`. What is tried again is an error (`RetriedAreErrors`), and what fails a
  watch is either none that passes, or was counted to the last, or is missed. The
  invariant adds that a tool which may still be tried has a try left, that a watch
  is ended exactly when it has a result, and that a killed tool ends it: without
  the last, what stopped the watch could be forgotten.
* `WebhookProofs`, in three parts. `LogTypesHold`, `ExitZeroMeansOk` and
  `WholeStreamsAreHeard`: for every log and every cut of its bytes. The client
  keeps the rest of a line, so that the invariant says what `line` is for each
  position in the stream (`LineOK`), whatever was received with it. `TypeCorrect`,
  `BranchIsDeployed` and `FollowersAreTold`: for any number of hooks, a hook that
  ended with `launched` or `conflict` either left a Job or met one, and whoever
  deleted it since is itself before its apply. `RequestTypesHold` and
  `ClientsAreLedToTheirJob`: for any configurations of a repository and any order of
  pushes, hooks and requests; a Job is where its request puts it, whatever became
  of the repository since (`Placed`), and the commit of an event is in the history
  for good (`Told`) and on its branch (`OnItsBranch`). A tip is the last commit of
  its branch (`TipsAreLast`), and what a hook read is the configuration of a commit of
  the branch no older than the one it is about, or nothing (`ReadSince`): if the
  branch kept its configuration, all readings agree (`SameIsRead`).
* `DeployOnWebhookProofs`: `TypeCorrect`, `OnlyEarnedSuccess`, `TailInOrder`. A status
  "ok" is backed by an outcome of its commit (`Backed`); for that an outcome must
  never be taken back, so that a pod that has yet to deploy has none and a pod is
  made once (`FreshPods`), although Jobs of one name replace one another. The lines
  shown are in order because none is after `lastTimestamp` (`LastIsLast`), whatever
  word was taken for it.
* `PlainDeployProofs`: `TypesHold`, `SecretsHaveArrived`, `SuccessIsTrue`. Both speak
  of the end, so that the invariants say what must not be undone on the way: an
  entry of secrets in the middle of its import has served the namespaces before
  (`ItemsServed`), and nothing is left to import once the plugin is over
  (`ImportIsOver`); what is applied is live (`AppliedIsLive`), orphans that were
  listed are orphans until they are gone (`DoomedAreOrphans`, `OrphansAreGone`), and
  an "ok" is given when all is built (`OkIsBuilt`), failfast included.
* `BuildProofs`, the configuration: `TheUsersWord` and `PodsReport`. A pass over the
  table is a recursion on keys that read one another; it is shown to be well
  founded (`PassExists`, `OverrideIs`). What the environment and the options say is
  then found by every later pass, because no layer merged after it has such a key
  (`AskedStands`), and in a pod repository, branch and commit come from the file of
  the workspace before a status URL is made of them (`PodReports`).
* `BuildProofs`, the defaults: `SomeLoadsGoOn`, from `Calls` below, and
  `DefaultsFollow`, for any values in any layers, with
  or without an organization, whatever the dependencies extend. It is the fixpoint
  that the reloads are there for. A pass leaves what it computes in agreement with
  what it read (`PassComputes`), because a row reads keys above its own, keys of the
  other table, or, from the first table, "chart", which is looked up and never
  computed (`RowReadsAbove`, shown row by row; one that read one
  below would break it). A pass over the second table, the files before it and the
  command line after it could then change what a computed key has read. `Settled`
  says why they do not in the later calls: what is given by one layer alone is there
  since the first call, projects[projectName] is read again as it was, an extension
  replaces nothing in the last call but keys of the command line; values of which
  this is not true are those that the property excepts (`Late`). `Derived` says at
  which step of which call all defaults agree. There are at most two calls in progress
  (`Calls`), unless an organization and dependencies given on the command line make
  loading endless, in which case nothing is ever loaded: so `DepthType` asks for
  `MaxDepth` of 2 at least, with which the model forgets no call that returns. TLC
  checked the conjuncts beforehand on any two values of nine keys and on 2800 random
  sets of values over all the keys.
* `BuildProofs`, the build: `SelectionIsBuilt` and `WavesInOrder`. `BuildInv` says what
  each step has made of what was asked, through every step that may be disabled,
  fail or be aborted. For the first, an entry's own chart has nothing below it and
  nothing disabled above it (`Alone`), so that it is kept, then rendered, as its
  flags say (`RenderedIsSought`), and a run gives at least one Job unless a plugin job
  is missing (`RunsAreMade`). A wave is defined by the waves of what is needed:
  `RecursionEnds` proves, from the least element of a set that has no circle, that
  such a recursion has a solution; it is used for the jobs that use jobs
  (`MissingIs`, and `InsideIs`, by which manifests are finitely many) and for the waves
  (`LevelIs`, for manifests that are in no circle).
* `BuildProofs`, the needs: `RunsAreReached` and `RefusalsHaveReasons`, which have
  `PlainJobs` as a hypothesis: the jobs of the plugins use no other job and need
  their own runs, in no circle. It is what the plugins of the repository have, TLC
  evaluates it on the instance of the run, and without it both are false (section 3,
  "Build": needs inside a job used by a job name nothing). Then every
  manifest has one of three shapes: of a kind of an entry, of a run of its own, of run
  b of the job that run r uses (`CompileIsFlat`, `LabelledAre`, `ShapesAre`; the
  patches take the first "~" key down a path, and nothing is said above an entry,
  `NothingAbove`). `ShapeKeys` bounds the names each of them can be needed by: those of
  its run, its entry, or a name that starts with a place, a kind or a stage; so that
  "r", "r..b" and nothing else reach what they mean (`CalledBy`, `LiftedTo`).
  `RefusalInv` says at which step a build was refused and for what, and each case is
  traced back: an unmet need to a name nobody answers (`AnsweredIs`: what is asked for
  and built is found, and what a job needs of its own is always there,
  `OwnNeedsAreThere`), two manifests of a name to two charts of a name (`NamedOnce`), a
  circle of manifests to a circle of entries and runs (`CircularIsAsked`: the part of
  it inside one use of a job cannot close), a job that is not there to the
  entry that uses it (`UnknownIsMissing`).

Each theorem about an invariant follows the same path: an inductive invariant as
a conjunction of named parts, `Init` implies it, one step per action of `Next`
keeps it, one `PTL` step at the end. `Refinement` shows that initial states map to
initial states and that each action maps to a step of the abstract specification
or to a stutter.

Only model-checked: every liveness property (`EverythingHeard`,
`EndsUnlessClosed`, `VerdictEnds`, `WatchEnds`, `ClientEnds`, `FollowersEnd`,
`CommandEnds`, `LoadEnds`), which the proof system cannot treat with its fairness
and ENABLED.

## 5. What is not modelled, and the plan

The parts above are modelled, and every safety property that a passing run checks is
proved. What could be added:

1. The effects of a delete or an apply that is retried after its answer was lost,
   as a refinement of the outcomes that `DependencyTree` assumes of a call.
2. The listing of a whole CI namespace by the import of secrets; a post-renderer of
   the project; the binary `wait-needs` as watches in an init container.

Not modelled: the download of charts and plugins and the copies of files around
the build (`packages/helm-tree`, `load-dependencies/dependencies.js`), of which the
build's model takes the tree that results; the patches and validators that
rewrite or read one manifest at a time (names, labels, resources, certificates,
sealed secrets, order of the output); the webhook's reading of its projects and
tokens from the environment; helm, kapp and rollout-status themselves (external
programs); the degit copier, developer tools, argocd packaging, charts and
boilerplates (no state of their own); loggers and wording.
