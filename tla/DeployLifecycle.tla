--------------------------- MODULE DeployLifecycle --------------------------
(***************************************************************************)
(* A "kontinuous deploy": the steps of packages/kontinuous/src/deploy/     *)
(* index.js, the deployer and the two sidecars it runs side by side, the   *)
(* status it reports to a server, the signals, and the end of the process  *)
(* (packages/kontinuous/src/cli/index.js).                                 *)
(*                                                                         *)
(* The deployer is what DeployOrder says of it, which DependencyTree       *)
(* implements: begun, ready and verdict are its variables.  The sidecars   *)
(* hear its events through the bus: an event once emitted reaches every    *)
(* handler, also one that subscribes later (EventsBucket), so a handler's  *)
(* action is enabled by the event having been emitted.                     *)
(***************************************************************************)
EXTENDS Naturals

CONSTANTS
  Manifest,  \* the watched manifests, each followed by a stern process
  Need,      \* Need[m]: the manifests m must wait for
  Disabled,  \* steps named by --disable-step
  HasStatus  \* whether a status server was given (--status-url)

Steps == {"pre-deploy", "deploy", "deploy-with", "deploy-sidecars", "post-deploy"}

ASSUME LifecycleType ==
  /\ Need \in [Manifest -> SUBSET Manifest]
  /\ Disabled \subseteq Steps
  /\ HasStatus \in BOOLEAN

VARIABLES
  main,      \* where deploy() stands, then "closing" in cli()
  code,      \* the exit code to be
  failed,    \* errors were gathered from the deployer or the sidecars
  deployer,  \* "on" once deployWith() was called
  begun, ready, verdict,  \* the deployer, see DeployOrder
  progress,  \* the progressing sidecar
  sidecar,   \* the stern sidecar
  stern,     \* stern[m]: the process that follows the logs of m
  remote,    \* the status the server holds
  lost,      \* a status call failed
  aborted,   \* a signal was received
  exit       \* how the process ended

order == <<begun, ready, verdict>>
logs == <<progress, sidecar, stern>>
vars == <<main, code, failed, deployer, order, logs, remote, lost, aborted, exit>>

Order == INSTANCE DeployOrder

TypeOK ==
  /\ main \in {"preparing", "loading", "pre", "deploying", "post",
               "reporting", "catching", "closing"}
  /\ code \in {0, 1} /\ failed \in BOOLEAN
  /\ deployer \in {"off", "on"}
  /\ begun \subseteq Manifest /\ ready \subseteq begun
  /\ verdict \in {"pending", "success", "fail"}
  /\ progress \in {"off", "waiting", "done"}
  /\ sidecar \in {"off", "preparing", "spawned", "failed"}
  /\ stern \in [Manifest -> {"none", "running", "done", "error"}]
  /\ remote \in {"none", "loading", "success", "failed"}
  /\ lost \in BOOLEAN /\ aborted \in BOOLEAN
  /\ exit \in {"none", "ok", "error", "killed"}

Init ==
  /\ main = "preparing" /\ code = 0 /\ failed = FALSE
  /\ deployer = "off" /\ Order!Init
  /\ progress = "off" /\ sidecar = "off"
  /\ stern = [m \in Manifest |-> "none"]
  /\ remote = "none" /\ lost = FALSE
  /\ aborted = FALSE /\ exit = "none"

-----------------------------------------------------------------------------
(* Faulty variants of the definitions below, each a slip this code could    *)
(* contain.                                                                 *)

\* Stern stopped by the readiness of its resource alone.
StopWhenReady(m) == m \in ready
\* A join that does not wait for the sidecars.
DeployerAlone == deployer = "on" => verdict # "pending"
\* The errors of the deployer and the sidecars not gathered.
NoErrors == FALSE
\* The fields status and ok of the call swapped.
SwappedFields(s) == remote' = "ok" /\ UNCHANGED lost
\* An exception that leaves the exit code at 0.
ThrowSilently ==
  /\ main' = IF HasStatus THEN "catching" ELSE "closing"
  /\ UNCHANGED code
\* One more check of the abort signal after the status was reported.
ReportThenCheck(from, s) ==
  /\ main = from
  /\ remote' = s
  /\ main' = IF aborted /\ from # "catching" THEN "catching" ELSE "closing"
  /\ code' = IF aborted THEN 1 ELSE code
  /\ UNCHANGED <<failed, deployer, order, logs, lost, aborted, exit>>

-----------------------------------------------------------------------------
\* The event deploy-with:finish (deploy-with.js:40).
Finished == verdict # "pending"

\* A call to the status server; whatever goes wrong is logged and swallowed
\* (status/index.js:17).
SetStatus(s) ==
  \/ remote' = s /\ UNCHANGED lost
  \/ lost' = TRUE /\ UNCHANGED remote

\* An exception inside deploy()'s try: the catch reports the failure first.
Throw ==
  /\ main' = IF HasStatus THEN "catching" ELSE "closing"
  /\ code' = 1

\* abortSignal.throwIfAborted(), then step.
UnlessAborted(step) ==
  \/ aborted /\ Throw
  \/ ~aborted /\ main' = step /\ UNCHANGED code

-----------------------------------------------------------------------------
(* deploy(), from the build to the hooks.                                   *)

\* The manifests are built and the needed binary is there.
Prepare ==
  /\ main = "preparing"
  /\ main' = "loading"
  /\ UNCHANGED <<code, failed, deployer, order, logs, remote, lost, aborted, exit>>

\* The build fails inside the try, or the plugins' build before it (line 25).
PrepareFails ==
  /\ main = "preparing"
  /\ \/ Throw
     \/ main' = "closing" /\ code' = 1
  /\ UNCHANGED <<failed, deployer, order, logs, remote, lost, aborted, exit>>

ReportLoading ==
  /\ main = "loading"
  /\ IF HasStatus THEN SetStatus("loading") ELSE UNCHANGED <<remote, lost>>
  /\ UnlessAborted("pre")
  /\ UNCHANGED <<failed, deployer, order, logs, aborted, exit>>

\* The pre-deploy hooks passed or were disabled: the deployer and the
\* sidecars start together.
StartDeploy ==
  LET on(step) == ~aborted /\ Disabled \intersect {"deploy", step} = {} IN
  /\ main = "pre"
  /\ UnlessAborted("deploying")
  /\ deployer' = IF on("deploy-with") THEN "on" ELSE "off"
  /\ progress' = IF on("deploy-sidecars") THEN "waiting" ELSE "off"
  /\ sidecar' = IF on("deploy-sidecars") THEN "preparing" ELSE "off"
  /\ UNCHANGED <<failed, order, stern, remote, lost, aborted, exit>>

PreHookFails ==
  /\ main = "pre" /\ "pre-deploy" \notin Disabled
  /\ Throw
  /\ UNCHANGED <<failed, deployer, order, logs, remote, lost, aborted, exit>>

-----------------------------------------------------------------------------
(* The deployer and the sidecars.                                           *)

\* Until the process ends: Promise.all rejects without stopping the tasks.
Deploy ==
  /\ deployer = "on"
  /\ Order!Next
  /\ UNCHANGED <<main, code, failed, deployer, logs, remote, lost, aborted, exit>>

\* progressing.js resolves on deploy-with:finish.
ProgressEnds ==
  /\ progress = "waiting" /\ Finished
  /\ progress' = "done"
  /\ UNCHANGED <<main, code, failed, deployer, order, sidecar, stern, remote,
                 lost, aborted, exit>>

\* stern.js waits for its binary, spawns a process per manifest, subscribes.
SpawnStern ==
  /\ sidecar = "preparing"
  /\ \/ /\ sidecar' = "spawned"
        /\ stern' = [m \in Manifest |-> "running"]
     \/ /\ sidecar' = "failed"
        /\ UNCHANGED stern
  /\ UNCHANGED <<main, code, failed, deployer, order, progress, remote, lost,
                 aborted, exit>>

\* What makes stern.js kill the process that follows m (lines 138-151).
StopStern(m) == m \in ready \/ Finished

\* A process is killed, or ends by itself with or without an error.
SternCloses(m) ==
  /\ stern[m] = "running"
  /\ \E how \in {"done", "error"} : stern' = [stern EXCEPT ![m] = how]
  /\ UNCHANGED <<main, code, failed, deployer, order, progress, sidecar,
                 remote, lost, aborted, exit>>

SternKilled(m) ==
  /\ stern[m] = "running" /\ StopStern(m)
  /\ stern' = [stern EXCEPT ![m] = "done"]
  /\ UNCHANGED <<main, code, failed, deployer, order, progress, sidecar,
                 remote, lost, aborted, exit>>

-----------------------------------------------------------------------------
(* The join, the hooks after it, the verdict.                               *)

SternErrors ==
  \/ sidecar = "failed"
  \/ \E m \in Manifest : stern[m] = "error"

SternClosed ==
  sidecar = "spawned" => \A m \in Manifest : stern[m] \in {"done", "error"}

\* stern.js waits for all its processes; Promise.all over the two sidecars
\* rejects with its error without waiting for the other.
SidecarsSettled ==
  /\ sidecar # "preparing" /\ SternClosed
  /\ progress = "waiting" => SternErrors

\* promiseAll over the deployer and the sidecars (line 136).
Joined == (deployer = "on" => Finished) /\ SidecarsSettled

\* The errors gathered (lines 138-142).
Errors == SternErrors \/ (deployer = "on" /\ verdict = "fail")

Join ==
  /\ main = "deploying" /\ Joined
  /\ failed' = Errors
  /\ UnlessAborted("post")
  /\ UNCHANGED <<deployer, order, logs, remote, lost, aborted, exit>>

\* The post-deploy hooks ran, on success and on failure, or were disabled.
PostHooks ==
  /\ main = "post"
  /\ IF failed THEN Throw
     ELSE /\ main' = (IF HasStatus THEN "reporting" ELSE "closing")
          /\ UNCHANGED code
  /\ UNCHANGED <<failed, deployer, order, logs, remote, lost, aborted, exit>>

PostHookFails ==
  /\ main = "post" /\ "post-deploy" \notin Disabled
  /\ Throw
  /\ UNCHANGED <<failed, deployer, order, logs, remote, lost, aborted, exit>>

Report(from, s) ==
  /\ main = from
  /\ SetStatus(s)
  /\ main' = "closing"
  /\ UNCHANGED <<code, failed, deployer, order, logs, aborted, exit>>

ReportSuccess == Report("reporting", "success")
ReportFailure == Report("catching", "failed")

\* After Sentry.close, with the code gathered on the way.
Exit ==
  /\ main = "closing"
  /\ exit' = IF code = 0 THEN "ok" ELSE "error"
  /\ UNCHANGED <<main, code, failed, deployer, order, logs, remote, lost, aborted>>

-----------------------------------------------------------------------------
(* Signals (cli/index.js:47-75).                                            *)

Signal ==
  /\ ~aborted
  /\ aborted' = TRUE
  /\ UNCHANGED <<main, code, failed, deployer, order, logs, remote, lost, exit>>

\* A second SIGINT, or the graceful shutdown timeout: exit(1) on the spot.
Kill ==
  /\ aborted
  /\ exit' = "killed"
  /\ UNCHANGED <<main, code, failed, deployer, order, logs, remote, lost, aborted>>

Main ==
  \/ Prepare
  \/ PrepareFails
  \/ ReportLoading
  \/ StartDeploy
  \/ PreHookFails
  \/ Join
  \/ PostHooks
  \/ PostHookFails
  \/ ReportSuccess
  \/ ReportFailure
  \/ Exit

Sidecars ==
  \/ ProgressEnds
  \/ SpawnStern
  \/ \E m \in Manifest : SternKilled(m)

Next ==
  /\ exit = "none"
  /\ \/ Main
     \/ Deploy
     \/ Sidecars
     \/ \E m \in Manifest : SternCloses(m)
     \/ Signal
     \/ Kill

\* Builds, hooks and calls end; a SIGKILL takes effect; the timer fires.  The
\* deployer need not give a verdict (DependencyTree says when it does), stern
\* need not end by itself, and nobody has to send a signal.
Fairness ==
  /\ WF_vars(exit = "none" /\ Main)
  /\ WF_vars(exit = "none" /\ (ProgressEnds \/ SpawnStern))
  /\ \A m \in Manifest : WF_vars(exit = "none" /\ SternKilled(m))
  /\ WF_vars(exit = "none" /\ Kill)

Spec == Init /\ [][Next]_vars /\ Fairness

-----------------------------------------------------------------------------
\* A process that exits with 0 has deployed: the deployer, if there was one,
\* succeeded, no log follower failed, and the server was told so unless the
\* call was lost (deploy/index.js:136-167).
HonestSuccess ==
  exit = "ok" =>
    /\ deployer = "on" => verdict = "success"
    /\ ~SternErrors
    /\ HasStatus => remote = "success" \/ lost

\* When the process ends by itself, the server's last word is its exit code,
\* unless a call was lost; "none" is a failure before the deployment began.
StatusTellsTheEnd ==
  exit \in {"ok", "error"} /\ HasStatus /\ ~lost =>
    \/ exit = "ok" /\ remote = "success"
    \/ exit = "error" /\ remote \in {"none", "failed"}

\* The server never goes from a verdict to another status, nor back to
\* loading.
VerdictStands ==
  [][remote' # remote => remote \in {"none", "loading"} /\ remote' # "none"]_vars

\* The post-deploy hooks and the exit of the process find the deployer
\* settled and no log follower running, unless the process was killed.
NothingLeftRunning ==
  main \in {"post", "reporting"} \/ exit \in {"ok", "error"} =>
    /\ deployer = "on" => verdict # "pending"
    /\ \A m \in Manifest : stern[m] # "running"

\* Once the deployer gave its verdict or a signal arrived, the process ends.
VerdictEnds == (verdict # "pending" \/ aborted) ~> exit # "none"

=============================================================================
