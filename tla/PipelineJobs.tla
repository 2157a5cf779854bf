----------------------------- MODULE PipelineJobs ---------------------------
(***************************************************************************)
(* The webhook service (packages/webhook/src): a hook of a git platform, a *)
(* user or "deploy --on-webhook" asks for a pipeline; the service answers  *)
(* 202 and, without waiting, replaces the Job of that branch: delete, then *)
(* apply.  The name of the Job does not contain the commit (pipeline.      *)
(* job-name.js), so all the hooks of a branch share one Job, and nothing   *)
(* orders them.                                                            *)
(*                                                                         *)
(* Followers ("kontinuous logs") wait until a pod labelled with their      *)
(* commit runs, then tail the Job by its name until it is no longer        *)
(* active (common/utils/kubejob-tail.js).                                  *)
(*                                                                         *)
(* This module has one branch.  A Job is named here by the hook that       *)
(* created it, as the cluster names it by its uid.                         *)
(***************************************************************************)
EXTENDS Naturals, FiniteSets

CONSTANTS
  Hook,      \* requests for the branch
  Commit,    \* commits of the branch
  CommitOf,  \* the commit a hook is about
  Gitlab,    \* the hooks that arrive at the endpoint hooks/gitlab
  Follower,  \* followers
  Wanted,    \* the commit a follower asks for
  Catch,     \* the followers that wait for the Job of their commit (--catch)
  MaxTurns   \* iterations of the tail: 11

ASSUME PipelineType ==
  /\ IsFiniteSet(Hook)
  /\ CommitOf \in [Hook -> Commit] /\ Wanted \in [Follower -> Commit]
  /\ Gitlab \subseteq Hook /\ Catch \subseteq Follower
  /\ MaxTurns \in Nat \ {0}

NoJob == "none"
ASSUME NoJobType == NoJob \notin Hook

VARIABLES
  hook,     \* hook[h]: where the request and its un-awaited runJob() are
  job,      \* the hook that created the Job of the branch, or NoJob
  pod,      \* pod[h]: the pod of the Job that h created
  follow,   \* follow[f]: where f's request is
  turns,    \* turns[f]: iterations of f's tail
  replaced  \* history: the commits whose Job was deleted by a hook

vars == <<hook, job, pod, follow, turns, replaced>>
tails == <<follow, turns>>

Pending == {"deleting", "looking", "creating", "patching"}
Settled == {"declined", "launched", "conflict", "failed", "lost"}

TypeOK ==
  /\ hook \in [Hook -> {"new", "accepted"} \union Pending \union Settled]
  /\ job \in Hook \union {NoJob}
  /\ pod \in [Hook -> {"none", "created", "running", "stopping",
                    "ended", "gone"}]
  /\ follow \in [Follower -> {"waiting", "reading", "checking",
                              "ok", "error", "notfound"}]
  /\ turns \in [Follower -> 0..MaxTurns]
  /\ replaced \subseteq Commit

Init ==
  /\ hook = [h \in Hook |-> "new"]
  /\ job = NoJob
  /\ pod = [h \in Hook |-> "none"]
  /\ follow = [f \in Follower |-> IF f \in Catch THEN "waiting" ELSE "reading"]
  /\ turns = [f \in Follower |-> 0]
  /\ replaced = {}

-----------------------------------------------------------------------------
\* Two hooks whose manifests are the same: the Job depends on the commit.
Same(h, g) == CommitOf[h] = CommitOf[g]

Settle(h, as) == hook' = [hook EXCEPT ![h] = as]

\* The request is answered 202 and runJob() started; the gitlab endpoint
\* answers 202 and drops runJob.
Accept(h) ==
  /\ hook[h] = "new"
  /\ Settle(h, IF h \in Gitlab THEN "accepted" ELSE "deleting")
  /\ UNCHANGED <<job, pod, tails, replaced>>

\* No environment, no cluster or no kubeconfig matches the branch: 204.
Decline(h) ==
  /\ hook[h] = "new" /\ h \notin Gitlab
  /\ Settle(h, "declined")
  /\ UNCHANGED <<job, pod, tails, replaced>>

\* The Job is deleted by its name, whichever it is: its pod is told to stop.
Remove ==
  /\ job' = NoJob
  /\ pod' = [g \in Hook |->
               IF g # job THEN pod[g]
               ELSE IF pod[g] = "running" THEN "stopping" ELSE "gone"]
  /\ replaced' = replaced \union {CommitOf[g] : g \in {job} \ {NoJob}}

-----------------------------------------------------------------------------
(* Faulty variants of the definitions below, each a slip this code could    *)
(* contain: a delete that is not awaited, the last turn not recognised, a   *)
(* wait without limit, a selector without the commit.                       *)

NotAwaited(h) ==
  \/ /\ hook[h] = "deleting" /\ Settle(h, "looking")
     /\ UNCHANGED <<job, pod, tails, replaced>>
  \/ /\ hook[h] \in {"looking", "creating", "patching", "launched"}
     /\ Remove
     /\ UNCHANGED <<hook, tails>>
NeverLast(f) == FALSE
WaitForEver(f) == follow[f] = "waiting" /\ UNCHANGED vars
AnyCommit(f) == Hook

-----------------------------------------------------------------------------
\* kubectl delete.  When its answer is lost it is run again (kubectl-retry.js).
Delete(h) ==
  /\ hook[h] = "deleting"
  /\ Settle(h, "looking") \/ UNCHANGED hook
  /\ Remove
  /\ UNCHANGED tails

\* kubectl apply reads the Job first: nothing there, the same, or another.
Look(h) ==
  /\ hook[h] = "looking"
  /\ Settle(h, IF job = NoJob THEN "creating"
               ELSE IF Same(job, h) THEN "launched" ELSE "patching")
  /\ UNCHANGED <<job, pod, tails, replaced>>

\* It creates the Job unless another hook did in between.  When the answer is
\* lost, apply is run again, or given up.
Create(h) ==
  /\ hook[h] = "creating"
  /\ IF job = NoJob
     THEN /\ job' = h
          /\ pod' = [pod EXCEPT ![h] = "created"]
          /\ \E as \in {"launched", "looking", "failed"} : Settle(h, as)
     ELSE Settle(h, "conflict") /\ UNCHANGED <<job, pod>>
  /\ UNCHANGED <<tails, replaced>>

\* The template of a Job is immutable; a Job deleted in between is not found.
Patch(h) ==
  /\ hook[h] = "patching"
  /\ Settle(h, IF job # NoJob /\ Same(job, h) THEN "launched" ELSE "conflict")
  /\ UNCHANGED <<job, pod, tails, replaced>>

\* kubectl gave up: runJob throws, and nobody awaits it.
Fail(h) ==
  /\ hook[h] \in Pending
  /\ Settle(h, "failed")
  /\ UNCHANGED <<job, pod, tails, replaced>>

\* The service stops: it keeps no trace of the hooks it answered.
Lose(h) ==
  /\ hook[h] \in Pending \union {"accepted"}
  /\ Settle(h, "lost")
  /\ UNCHANGED <<job, pod, tails, replaced>>

-----------------------------------------------------------------------------
(* The cluster.                                                             *)

\* The Job controller starts the pod of a new Job; a pod ends by itself or,
\* told to stop, within its grace period.
PodMoves(h, from, to) ==
  /\ pod[h] = from /\ pod' = [pod EXCEPT ![h] = to]
  /\ UNCHANGED <<hook, job, tails, replaced>>

PodStarts(h) == PodMoves(h, "created", "running")
PodEnds(h) == PodMoves(h, "running", "ended")
PodStops(h) == PodMoves(h, "stopping", "gone")

\* A Job that ended is removed after two days (pipeline.job.js:92), longer
\* than any call or tail lasts.
Expire ==
  /\ job # NoJob /\ pod[job] = "ended"
  /\ \A h \in Hook : hook[h] \notin Pending
  /\ \A f \in Follower : follow[f] \notin {"reading", "checking"}
  /\ job' = NoJob
  /\ UNCHANGED <<hook, pod, tails, replaced>>

-----------------------------------------------------------------------------
(* Followers.                                                               *)

Turn(f, as) == follow' = [follow EXCEPT ![f] = as]

\* The hooks whose pod ends f's wait: the selector has the commit.
Awaited(f) == {h \in Hook : CommitOf[h] = Wanted[f]}

\* A pod of the commit runs or ended (an expired Job takes its pod with it).
Find(f) ==
  /\ follow[f] = "waiting"
  /\ \E h \in Awaited(f) :
       pod[h] \in {"running", "stopping"} \/ (pod[h] = "ended" /\ job = h)
  /\ Turn(f, "reading")
  /\ UNCHANGED <<hook, job, pod, turns, replaced>>

\* waitJobExists gives up after 300 retries.
NotFound(f) ==
  /\ follow[f] = "waiting"
  /\ Turn(f, "notfound")
  /\ UNCHANGED <<hook, job, pod, turns, replaced>>

\* kubectl logs job/<name> ends: with the pod, or before, when the log is
\* rotated or the connection times out.  Without a pod it is an error.
LogEnds(f) ==
  /\ follow[f] = "reading"
  /\ Turn(f, IF job = NoJob \/ pod[job] = "created"
             THEN "error" ELSE "checking")
  /\ UNCHANGED <<hook, job, pod, turns, replaced>>

\* status.active !== 1: the Job ended, or has no pod yet.
Inactive == pod[job] # "running"

\* Whether f's tail is at its last iteration.
LastTurn(f) == turns[f] + 1 >= MaxTurns

\* kubectl get job <name>: the Job ended, or the tail starts again.
Check(f) ==
  /\ follow[f] = "checking"
  /\ IF job = NoJob
     THEN Turn(f, "error") /\ UNCHANGED turns
     ELSE /\ turns' = [turns EXCEPT ![f] = @ + 1]
          /\ Turn(f, IF Inactive \/ LastTurn(f) THEN "ok" ELSE "reading")
  /\ UNCHANGED <<hook, job, pod, replaced>>

\* kubectl logs or get fails for good.
TailFails(f) ==
  /\ follow[f] \in {"reading", "checking"}
  /\ Turn(f, "error")
  /\ UNCHANGED <<hook, job, pod, turns, replaced>>

Serve(h) ==
  \/ Accept(h)
  \/ Decline(h)
  \/ Delete(h)
  \/ Look(h)
  \/ Create(h)
  \/ Patch(h)
  \/ Fail(h)
  \/ Lose(h)

TailLog(f) ==
  \/ Find(f)
  \/ NotFound(f)
  \/ LogEnds(f)
  \/ Check(f)
  \/ TailFails(f)

Next ==
  \/ \E h \in Hook : Serve(h)
  \/ \E h \in Hook : PodStarts(h) \/ PodEnds(h) \/ PodStops(h)
  \/ Expire
  \/ \E f \in Follower : TailLog(f)

\* kubectl calls end, after a bounded number of retries, and so do waits and
\* tails; a Job has a deadline.  Hooks need not arrive.
Fairness ==
  /\ \A h \in Hook : WF_vars(Look(h) \/ Create(h) \/ Patch(h) \/ Fail(h))
  /\ \A h \in Hook : WF_vars(PodStarts(h) \/ PodEnds(h) \/ PodStops(h))
  /\ \A f \in Follower : WF_vars(TailLog(f))

Spec == Init /\ [][Next]_vars /\ Fairness

-----------------------------------------------------------------------------
\* However many hooks replace the Job of the branch at the same time, and
\* though each of them deletes before it applies, they never leave the branch
\* without any: when all are settled and none was cut short by an error or a
\* restart, the Job of one of them runs, ran to its end, or is about to run.
SomeCommitIsDeployed ==
  /\ \A h \in Hook : hook[h] \in {"new", "declined", "launched", "conflict"}
  /\ \E h \in Hook : hook[h] \in {"launched", "conflict"}
  => \E h \in Hook : pod[h] \in {"created", "running", "ended"}

\* A follower that waited for its commit is told ok only if a Job of that
\* commit ended or was replaced, unless its tail ran out of turns.
FollowerIsToldTheEnd ==
  \A f \in Catch : follow[f] = "ok" =>
    \/ \E h \in Hook : CommitOf[h] = Wanted[f] /\ pod[h] = "ended"
    \/ Wanted[f] \in replaced
    \/ turns[f] = MaxTurns

\* Every follower gets an answer.
FollowersEnd == \A f \in Follower : <>(follow[f] \in {"ok", "error", "notfound"})

-----------------------------------------------------------------------------
(* Statements of the repository that the code does not keep.                *)

\* "accepted" (gitlab.post.js:59): the pipeline is launched, or fails to be.
AcceptedIsRun == \A h \in Hook : hook[h] = "accepted" ~> hook[h] \in Settled

=============================================================================
