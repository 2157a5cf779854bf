---------------------------- MODULE ResourceWatch ---------------------------
(***************************************************************************)
(* One call of packages/common/utils/wait-for-resource.js, by which the    *)
(* deployer and the failfast sidecar learn what became of a resource.      *)
(*                                                                         *)
(* A loop (wait-appear.js) runs a tool until it has an answer: the program *)
(* rollout-status for the kinds it handles, else a poll by kubectl get.    *)
(* Each run of a tool is retried by async-retry on the errors its wrapper  *)
(* (rollout-status.js, kubectl-retry.js) takes for transient, ten times.   *)
(*                                                                         *)
(* The signal reaches rollout-status itself (rollout-status-exec.js:41);   *)
(* kubectl gets it as a variable of its environment (kubectl-retry.js:36)  *)
(* and goes on, and so does a wait between two retries: they are noticed   *)
(* by the loop, after its callback.                                        *)
(***************************************************************************)
EXTENDS Naturals

CONSTANT Retries  \* retries of async-retry: 10

ASSUME WatchType == Retries \in Nat

VARIABLES
  polled,    \* the kind is not one that rollout-status handles
  survive,   \* config surviveOnBrokenCluster
  resource,  \* the resource on the cluster
  at,        \* where the loop is
  tries,     \* retryCount of this run of the tool
  last,      \* what the tool last answered
  aborted,   \* the run's abortSignal
  late,      \* timeoutReached
  result     \* "none", then "ready", "closed" or "failed"

options == <<polled, survive>>
vars == <<options, resource, at, tries, last, aborted, late, result>>

Resource == {"absent", "pending", "ready", "broken"}
Answer == {"none", "ready", "not-found", "rollout", "image", "program",
           "network", "timeout", "cluster", "other", "killed", "empty", "pending"}

TypeOK ==
  /\ polled \in BOOLEAN /\ survive \in BOOLEAN
  /\ resource \in Resource
  /\ at \in {"loop", "running", "backoff", "sleeping", "ended"}
  /\ tries \in 0..(Retries + 1)
  /\ last \in Answer
  /\ aborted \in BOOLEAN /\ late \in BOOLEAN
  /\ result \in {"none", "ready", "closed", "failed"}

Init ==
  /\ polled \in BOOLEAN /\ survive \in BOOLEAN
  /\ resource \in Resource
  /\ at = "loop" /\ tries = 0 /\ last = "none"
  /\ aborted \in BOOLEAN /\ late = FALSE
  /\ result = "none"

-----------------------------------------------------------------------------
(* The tools.                                                               *)

\* rollout-status: the resource's end, or an error of its own or of what lies
\* between; without JSON on its output, the exit code, null if it was killed.
RolloutAnswers ==
  CASE resource = "ready"   -> {"ready"}
    [] resource = "absent"  -> {"not-found"}
    [] resource = "broken"  -> {"rollout", "image"}
    [] resource = "pending" -> {"image"}

\* kubectl get -l: a list.
KubectlAnswers ==
  CASE resource = "ready"  -> {"ready"}
    [] resource = "absent" -> {"empty", "not-found"}
    [] OTHER               -> {"pending"}

Errors == {"network", "timeout", "cluster", "other", "killed"}

Answers ==
  Errors \union
  (IF polled THEN KubectlAnswers ELSE RolloutAnswers \union {"program"})

\* The errors of the API server that --survive-on-broken-cluster bears.
BrokenCluster(a) == survive /\ a = "cluster"

\* What rollout-status.js throws to be tried again.
RolloutRetried(a) ==
  a \in {"network", "image", "program"} \/ BrokenCluster(a)

\* What kubectl-retry.js throws to be tried again.  The messages of kubectl
\* end with a newline, which the expression for "timeout stuff" (retriable-
\* network.js:15) does not cross: a timeout is not among them.
KubectlRetried(a) == a = "network" \/ BrokenCluster(a)

Retried(a) == IF polled THEN KubectlRetried(a) ELSE RolloutRetried(a)

-----------------------------------------------------------------------------
(* Faulty variants of the definitions below, each a slip this code could    *)
(* contain.                                                                 *)

\* A count that tells the retries and the first try apart no more.
OneTooMany == tries <= Retries
OneTooFew == tries + 1 < Retries
\* A loop that looks at the signal only.
SignalOnly == ~aborted
\* A resource that is not there taken for ready by both tools.
MissingIsReady(a) ==
  IF a \in {"ready", "not-found"} THEN "ready"
  ELSE IF a = "killed" THEN "closed" ELSE "failed"

-----------------------------------------------------------------------------
\* Whether async-retry grants one more try.
MoreTries == tries < Retries

\* The loop's condition (wait-appear.js:21).
GoesOn == ~aborted /\ ~late

\* What the callback returns to the loop, "none" to go on.
RolloutSays(a) ==
  CASE a = "ready"     -> "ready"
    [] a = "not-found" -> "none"
    [] a = "killed"    -> "closed"
    [] OTHER           -> "failed"

\* An empty list has no item that is not ready; a kubectl that was killed
\* gives an empty output, which is not JSON.
KubectlSays(a) ==
  CASE a \in {"ready", "empty"}       -> "ready"
    [] a \in {"pending", "not-found"} -> "none"
    [] OTHER                          -> "failed"

Says(a) == IF polled THEN KubectlSays(a) ELSE RolloutSays(a)

\* waitForResource answers r, or the loop sleeps.
Return(r) ==
  /\ result' = r
  /\ at' = IF r = "none" THEN "sleeping" ELSE "ended"

-----------------------------------------------------------------------------
(* The loop.                                                                *)

Run ==
  /\ at = "loop" /\ GoesOn
  /\ at' = "running" /\ tries' = 0
  /\ UNCHANGED <<options, resource, last, aborted, late, result>>

Stop ==
  /\ at = "loop" /\ ~GoesOn
  /\ Return("closed")
  /\ UNCHANGED <<options, resource, tries, last, aborted, late>>

\* The tool ends with an answer that is returned, or an error that is not
\* retried.
Answered(a) ==
  /\ at = "running" /\ a \in Answers /\ ~Retried(a)
  /\ last' = a
  /\ Return(Says(a))
  /\ UNCHANGED <<options, resource, tries, aborted, late>>

\* It ends with an error that is retried, until the retries are used up.
Rejected(a) ==
  /\ at = "running" /\ a \in Answers /\ Retried(a)
  /\ last' = a
  /\ tries' = tries + 1
  /\ IF MoreTries
     THEN at' = "backoff" /\ UNCHANGED result
     ELSE Return("failed")
  /\ UNCHANGED <<options, resource, aborted, late>>

Retry ==
  /\ at = "backoff"
  /\ at' = "running"
  /\ UNCHANGED <<options, resource, tries, last, aborted, late, result>>

Wake ==
  /\ at = "sleeping"
  /\ at' = "loop"
  /\ UNCHANGED <<options, resource, tries, last, aborted, late, result>>

-----------------------------------------------------------------------------
(* The environment.                                                         *)

\* Pods start, become ready, fail, come back; somebody deletes the resource.
ResourceMoves ==
  /\ result = "none"
  /\ resource' \in Resource \ {resource}
  /\ UNCHANGED <<options, at, tries, last, aborted, late, result>>

Abort ==
  /\ result = "none" /\ ~aborted
  /\ aborted' = TRUE
  /\ UNCHANGED <<options, resource, at, tries, last, late, result>>

\* The timer of 60 minutes: a flag that the loop reads.
TimeOut ==
  /\ result = "none" /\ ~late
  /\ late' = TRUE
  /\ UNCHANGED <<options, resource, at, tries, last, aborted, result>>

Next ==
  \/ Run
  \/ Stop
  \/ \E a \in Answer : Answered(a)
  \/ \E a \in Answer : Rejected(a)
  \/ Retry
  \/ Wake
  \/ ResourceMoves
  \/ Abort
  \/ TimeOut

\* Timers fire and kubectl get answers; rollout-status has to end only once
\* it was told to.
Ends == \E a \in Answer : Answered(a) \/ Rejected(a)

Fairness ==
  /\ WF_vars(Run \/ Stop \/ Retry \/ Wake)
  /\ WF_vars((polled \/ aborted) /\ Ends)

Spec == Init /\ [][Next]_vars /\ Fairness

-----------------------------------------------------------------------------
\* The errors that the repository says will pass: those of the network, which
\* are tried again, kubectl's timeouts being listed among them (retriable-
\* network.js:5-31); images that cannot be pulled and failures of the program
\* (rollout-status.js:87-107); the API server's, if they are to be survived.
Transient(a) ==
  \/ a = "network" \/ BrokenCluster(a)
  \/ IF polled THEN a = "timeout" ELSE a \in {"image", "program"}

\* A transient error never fails a watch by itself: it was the eleventh in a row
\* of one run of the tool (retriable-network.js:13-15 has "timeout stuff" among
\* the errors to try again).
TransientErrorsAreRetried ==
  result = "failed" /\ Transient(last) => tries = Retries + 1

\* kubectl's timeouts, which its wrapper does not recognise.
MissedTimeout == polled /\ last = "timeout"

\* A watch fails for an error, and not for an answer that has it go on; the error
\* is none that passes, or came eleven times in a row of one run of the tool, or
\* is the timeout that TransientErrorsAreRetried is about: every other transient
\* error is tried again as often as it should be (rollout-status.js:24-66,
\* kubectl-retry.js:114-164).
FailedHasReason ==
  result = "failed" =>
    /\ last \notin {"none", "ready", "not-found", "empty", "pending"}
    /\ ~Transient(last) \/ MissedTimeout \/ tries = Retries + 1

\* A signal ends every watch, and the timer ends a poll, wherever the loop
\* is: in the tool, between two tries or asleep (wait-appear.js:17-34).
WatchEnds == (aborted \/ (late /\ polled)) ~> result # "none"

\* The watch keeps what the deployer relies on.
Outcome == INSTANCE WatchOutcome
  WITH stopped <- aborted \/ late \/ last = "killed"
ImplementsWatchOutcome == Outcome!Spec

=============================================================================
