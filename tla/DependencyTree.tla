--------------------------- MODULE DependencyTree ---------------------------
(***************************************************************************)
(* The default deployer, plugins/contrib/deploy-with/                      *)
(* kubectl-dependency-tree.js.  One asynchronous task per manifest:        *)
(*                                                                         *)
(*   await dependenciesReady(m)        its needs reported resource:ready   *)
(*   await applyManifest(m)            through a queue of limited width:   *)
(*                                     [delete] apply [delete apply]       *)
(*   await rolloutStatusManifest(m)    watch it and report the outcome     *)
(*                                                                         *)
(* and Promise.all over the tasks.  The tasks talk through the event bus   *)
(* of the run (EventsBucket.tla): status[m] is the last event emitted for  *)
(* m, heard[m] the needs whose event m's task has received.                *)
(*                                                                         *)
(* Promise.all rejects on the first failure and stops nothing: the other   *)
(* tasks go on until the process exits.                                    *)
(***************************************************************************)
EXTENDS Integers, Sequences, FiniteSets

CONSTANTS
  Manifest,     \* the manifests of the deployment
  Needs,        \* Needs[m]: manifests matched by m's annotation plugin.needs
  Waitable,     \* manifests of a kind that can be watched (kind-is-waitable)
  Labelled,     \* manifests that carry the label kontinuous/resourceName
  Unresolvable, \* manifests with a need that matches nothing
  Recreate,     \* manifests deleted before they are applied (Jobs, annotation)
  Forcible,     \* manifests that may be deleted on an immutable field conflict
  Existing,     \* manifests whose resource is on the cluster beforehand
  Limit,        \* applyConcurrencyLimit
  CanTimeOut    \* whether a watch may reach its 60 minutes timeout

ASSUME ManifestType ==
  /\ IsFiniteSet(Manifest)
  /\ Needs \in [Manifest -> SUBSET Waitable]
  /\ Waitable \subseteq Manifest /\ Labelled \subseteq Manifest
  /\ Unresolvable \subseteq Manifest /\ Recreate \subseteq Manifest
  /\ Forcible \subseteq Manifest /\ Existing \subseteq Manifest
  /\ Limit \in Nat \ {0} /\ CanTimeOut \in BOOLEAN

VARIABLES
  phase,     \* phase[m]: where m's task is
  heard,     \* heard[m]: the needs of m whose resource:ready m received
  queue,     \* tasks waiting in the apply queue
  status,    \* status[m]: the last resource:<event> emitted for m
  cluster,   \* cluster[m]: m's resource on the cluster
  outcome,   \* how Promise.all over the tasks settled
  aborted,   \* the run's abortSignal
  exited     \* the process is gone

vars == <<phase, heard, queue, status, cluster, outcome, aborted, exited>>

Applying == {"deleting", "applying", "redeleting", "reapplying"}
Phase == {"deps", "queued", "watching", "done", "blocked", "rejected"}
           \union Applying
Status == {"none", "waiting", "ready", "closed", "failed"}
Outcome == {"pending", "success", "fail"}

TypeOK ==
  /\ phase \in [Manifest -> Phase]
  /\ heard \in [Manifest -> SUBSET Manifest]
  /\ queue \in Seq(Manifest)
  /\ status \in [Manifest -> Status]
  /\ cluster \in [Manifest -> {"absent", "old", "new"}]
  /\ outcome \in Outcome
  /\ aborted \in BOOLEAN
  /\ exited \in BOOLEAN

\* Only a watchable manifest honours its needs (kubectl-dependency-tree.js:187).
Awaited(m) == IF m \in Waitable THEN Needs[m] ELSE {}

Running == {m \in Manifest : phase[m] \in Applying}

Init ==
  /\ phase = [m \in Manifest |-> "deps"]
  /\ heard = [m \in Manifest |-> {}]
  /\ queue = <<>>
  /\ status = [m \in Manifest |-> "none"]
  /\ cluster = [m \in Manifest |-> IF m \in Existing THEN "old" ELSE "absent"]
  /\ outcome = "pending"
  /\ aborted = FALSE
  /\ exited = FALSE

-----------------------------------------------------------------------------
(* Faulty variants of the definitions below, each a slip this code could    *)
(* contain.                                                                 *)

\* A dependent released by any last event of its need.
ReleasedByAnyEnd(d) == status[d] \in {"ready", "closed"}
\* Promise.all settled without waiting for the watches.
AppliedIsEnough(p) ==
  IF \A m \in Manifest : p[m] \in {"watching", "done"} THEN "success" ELSE "pending"
\* Promise.all never settled.
NeverSettled(p) == "pending"
\* The outcome lost (a callback without a return).
OutcomeLost == "none"

-----------------------------------------------------------------------------
\* A manifest without the label is applied and never watched (line 260).
Watched == Waitable \intersect Labelled

\* Where a task is once its resource was reported ready or closed.
Resolved == "done"

\* The event that releases a dependent.
Released(d) == status[d] = "ready"

\* Room for one more task of the queue (async.queue, line 172).
Room == Cardinality(Running) < Limit

\* Promise.all: what it becomes when the tasks reach the phases p and none
\* has rejected yet.
Fulfilled(p) ==
  IF \A m \in Manifest : p[m] = "done" THEN "success" ELSE "pending"

\* Promise.all settles once: the first rejection is its outcome.
Rejection == "fail"

SettleWith(p) ==
  outcome' = IF outcome = "pending" THEN Fulfilled(p) ELSE outcome

Reject(m, final) ==
  /\ phase' = [phase EXCEPT ![m] = final]
  /\ outcome' = IF outcome = "pending" THEN Rejection ELSE outcome

-----------------------------------------------------------------------------
(* dependenciesReady: one promise per need, settled by the first of the     *)
(* events resource:ready and resource:failed of that need.                  *)

HearReady(m, d) ==
  /\ phase[m] = "deps" /\ m \notin Unresolvable
  /\ d \in Awaited(m) \ heard[m]
  /\ Released(d)
  /\ heard' = [heard EXCEPT ![m] = @ \union {d}]
  /\ UNCHANGED <<phase, queue, status, cluster, outcome, aborted, exited>>

HearFailed(m, d) ==
  /\ phase[m] = "deps" /\ m \notin Unresolvable
  /\ d \in Awaited(m) \ heard[m]
  /\ status[d] = "failed"
  /\ Reject(m, "blocked")
  /\ UNCHANGED <<heard, queue, status, cluster, aborted, exited>>

\* A need that matches no manifest makes the task throw before it waits.
NeedMissing(m) ==
  /\ phase[m] = "deps" /\ m \in Unresolvable
  /\ Reject(m, "blocked")
  /\ UNCHANGED <<heard, queue, status, cluster, aborted, exited>>

Enqueue(m) ==
  /\ phase[m] = "deps" /\ m \notin Unresolvable
  /\ Awaited(m) \subseteq heard[m]
  /\ phase' = [phase EXCEPT ![m] = "queued"]
  /\ queue' = Append(queue, m)
  /\ UNCHANGED <<heard, status, cluster, outcome, aborted, exited>>

-----------------------------------------------------------------------------
(* applyManifest: the head of the queue is deleted first if it must be      *)
(* recreated, then applied; on an immutable field it is deleted and applied *)
(* again if force allows.  Each kubectl call succeeds, fails, or, when the  *)
(* terminal's signal killed kubectl, resolves as if it had succeeded        *)
(* (kubectl-retry.js:63, code == null).                                     *)

FirstCall(m) == IF m \in Recreate THEN "deleting" ELSE "applying"

StartApply(m) ==
  /\ queue # <<>> /\ m = Head(queue)
  /\ Room
  /\ queue' = Tail(queue)
  /\ phase' = [phase EXCEPT ![m] = FirstCall(m)]
  /\ UNCHANGED <<heard, status, cluster, outcome, aborted, exited>>

Delete(m, from, to) ==
  /\ phase[m] = from
  /\ phase' = [phase EXCEPT ![m] = to]
  /\ \/ cluster' = [cluster EXCEPT ![m] = "absent"]
     \/ aborted /\ UNCHANGED cluster
  /\ UNCHANGED <<heard, queue, status, outcome, aborted, exited>>

DeleteFirst(m) == Delete(m, "deleting", "applying")
DeleteConflict(m) == Delete(m, "redeleting", "reapplying")

\* The call that follows a successful apply: watch the resource and say so,
\* or end the task.
AfterApply(m) ==
  LET next == IF m \in Watched THEN "watching" ELSE "done" IN
  /\ phase' = [phase EXCEPT ![m] = next]
  /\ status' = [status EXCEPT ![m] = IF m \in Watched THEN "waiting" ELSE @]
  /\ SettleWith(phase')

\* A kubectl killed by the signal of the terminal resolves as if it had succeeded
\* (kubectl-retry.js:63), here and in Delete; none is killed on its own.
Apply(m) ==
  /\ phase[m] \in {"applying", "reapplying"}
  /\ \/ cluster' = [cluster EXCEPT ![m] = "new"]
     \/ aborted /\ UNCHANGED cluster
  /\ AfterApply(m)
  /\ UNCHANGED <<heard, queue, aborted, exited>>

\* The API server refuses to change an immutable field of an old resource.
ImmutableField(m) ==
  /\ phase[m] = "applying" /\ cluster[m] = "old"
  /\ IF m \in Forcible
     THEN /\ phase' = [phase EXCEPT ![m] = "redeleting"]
          /\ UNCHANGED outcome
     ELSE Reject(m, "rejected")
  /\ UNCHANGED <<heard, queue, status, cluster, aborted, exited>>

\* Any other error of delete or apply, once kubectl gave up retrying.  A
\* delete that failed on a timeout may have taken place.
KubectlFails(m) ==
  /\ phase[m] \in Applying
  /\ Reject(m, "rejected")
  /\ \/ UNCHANGED cluster
     \/ /\ phase[m] \in {"deleting", "redeleting"}
        /\ cluster' = [cluster EXCEPT ![m] = "absent"]
  /\ UNCHANGED <<heard, queue, status, aborted, exited>>

-----------------------------------------------------------------------------
(* rolloutStatusManifest: waitForResource answers ready, failed, or neither *)
(* when the watch was killed by the abort signal or reached its timeout.    *)

\* It is only asked for what this run applied; that a poll takes an empty list
\* for ready (kubectl-wait-for-ready.js:45) is in ResourceWatch.
WatchReady(m) ==
  /\ phase[m] = "watching" /\ cluster[m] = "new"
  /\ status' = [status EXCEPT ![m] = "ready"]
  /\ phase' = [phase EXCEPT ![m] = Resolved]
  /\ SettleWith(phase')
  /\ UNCHANGED <<heard, queue, cluster, aborted, exited>>

WatchClosed(m) ==
  /\ phase[m] = "watching"
  /\ aborted \/ CanTimeOut
  /\ status' = [status EXCEPT ![m] = "closed"]
  /\ phase' = [phase EXCEPT ![m] = Resolved]
  /\ SettleWith(phase')
  /\ UNCHANGED <<heard, queue, cluster, aborted, exited>>

WatchFailed(m) ==
  /\ phase[m] = "watching"
  /\ status' = [status EXCEPT ![m] = "failed"]
  /\ Reject(m, "rejected")
  /\ UNCHANGED <<heard, queue, cluster, aborted, exited>>

-----------------------------------------------------------------------------
(* The environment: a signal aborts the run (cli/index.js:57-64); the       *)
(* process ends once the run has a result or was aborted (cli/index.js:69,  *)
(* 127).                                                                    *)

Abort ==
  /\ ~aborted
  /\ aborted' = TRUE
  /\ UNCHANGED <<phase, heard, queue, status, cluster, outcome, exited>>

Exit ==
  /\ outcome # "pending" \/ aborted
  /\ exited' = TRUE
  /\ UNCHANGED <<phase, heard, queue, status, cluster, outcome, aborted>>

\* What the task of m does.
Step(m) ==
  \/ \E d \in Manifest : HearReady(m, d)
  \/ \E d \in Manifest : HearFailed(m, d)
  \/ NeedMissing(m)
  \/ Enqueue(m)
  \/ StartApply(m)
  \/ DeleteFirst(m)
  \/ DeleteConflict(m)
  \/ Apply(m)
  \/ ImmutableField(m)
  \/ KubectlFails(m)
  \/ WatchReady(m)
  \/ WatchClosed(m)
  \/ WatchFailed(m)

Next ==
  /\ ~exited
  /\ \/ \E m \in Manifest : Step(m)
     \/ Abort
     \/ Exit

\* Microtasks run, kubectl and rollout-status end (they carry timeouts): a
\* task that can move moves.  Nobody has to send a signal.
Fairness == \A m \in Manifest : WF_vars(~exited /\ Step(m))

Spec == Init /\ [][Next]_vars /\ Fairness

-----------------------------------------------------------------------------
\* Manifests the run started to put on the cluster.
Begun == {m \in Manifest : phase[m] \notin {"deps", "queued", "blocked"}}

\* No manifest is queued or applied before each of its needs was reported
\* ready: a failed or closed need holds its dependents back for good
\* (kubectl-dependency-tree.js:217-243 and 322-329).
NeedsReadyFirst ==
  \A m \in Manifest : phase[m] \notin {"deps", "blocked"} =>
    \A d \in Awaited(m) : status[d] = "ready"

\* A manifest whose need matches nothing, or matches a manifest that nobody
\* watches, is never put on the cluster, and the deployer does not succeed.
UnmetNeedsHold ==
  \A m \in Manifest :
    m \in Unresolvable \/ ~(Awaited(m) \subseteq Labelled) =>
      m \notin Begun /\ outcome # "success"

\* At most Limit kubectl sequences run at the same time, conflicts and
\* recreations included (line 172).
ConcurrencyBound == Cardinality(Running) <= Limit

\* The deployer succeeds only when every task ended: each manifest is on the
\* cluster in its new version, unless a signal arrived, and each watched one
\* was reported ready or given up.
SuccessIsComplete ==
  outcome = "success" =>
    \A m \in Manifest :
      /\ phase[m] = "done"
      /\ cluster[m] = "new" \/ aborted
      /\ m \in Watched => status[m] \in {"ready", "closed"}

\* A resource is reported at most one end, after it was watched, and its
\* report never changes: a dependent that hears late hears the same.
ReportsAreFinal ==
  [][\A m \in Manifest : status'[m] # status[m] =>
       \/ status[m] = "none" /\ status'[m] = "waiting"
       \/ status[m] = "waiting" /\ status'[m] \in {"ready", "closed", "failed"}]_vars

\* Without a missing need or a cycle, the deployer gives a result, unless a
\* watch was given up (or the process is gone).
EndsUnlessClosed ==
  <>(outcome # "pending" \/ exited \/ \E m \in Manifest : status[m] = "closed")

\* The deployer keeps the promise made to the users of needs.
Order == INSTANCE DeployOrder
  WITH Need <- [m \in Manifest |-> Awaited(m)],
       begun <- Begun,
       ready <- {m \in Manifest : status[m] = "ready"},
       verdict <- outcome
ImplementsDeployOrder == Order!Spec

=============================================================================
