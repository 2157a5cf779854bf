------------------------- MODULE ResourceWatchProofs ------------------------
(***************************************************************************)
(* For any number of retries: a watch that fails has a reason, and every   *)
(* watch keeps WatchOutcome.                                               *)
(*                                                                         *)
(* FailedHasReason counts the errors of one run of the tool: Counting says *)
(* that a tool which may still be tried has a retry left, so that the      *)
(* error that ends it is the eleventh.  An answer is given once            *)
(* (EndedOnce), also the kill of the tool (KilledEnds), without which what *)
(* stopped a watch could be forgotten by its next answer.                  *)
(***************************************************************************)
EXTENDS ResourceWatch, TLAPS

Counting == at \in {"running", "backoff"} => tries <= Retries

EndedOnce == at = "ended" <=> result # "none"

KilledEnds == last = "killed" => at = "ended"

Inv == TypeOK /\ Counting /\ EndedOnce /\ KilledEnds /\ FailedHasReason

USE WatchType DEF WatchType

LEMMA InitInv == Init => Inv
<1>. SUFFICES ASSUME Init PROVE Inv
  OBVIOUS
<1>1. TypeOK
  <2>1. tries \in 0..(Retries + 1)
    BY DEF Init
  <2>2. last \in Answer
    BY DEF Init, Answer
  <2>3. late \in BOOLEAN
    BY Zenon DEF Init
  <2>. QED
    BY <2>1, <2>2, <2>3 DEF Init, TypeOK
<1>2. Counting /\ EndedOnce /\ KilledEnds /\ FailedHasReason
  BY DEF Init, Counting, EndedOnce, KilledEnds, FailedHasReason
<1>. QED
  BY <1>1, <1>2 DEF Inv

-----------------------------------------------------------------------------
\* A kill is never retried, and is never followed by another run.
LEMMA KillIsFinal ==
  /\ ~Retried("killed")
  /\ Says("killed") \in {"closed", "failed"}
BY DEF Retried, RolloutRetried, KubectlRetried, BrokenCluster, Says,
   RolloutSays, KubectlSays

\* The answers that are no error.
NoErrors == {"none", "ready", "not-found", "empty", "pending"}

\* What is retried is an error.
LEMMA RetriedAreErrors ==
  ASSUME NEW a, Retried(a)
  PROVE  a \notin NoErrors
BY DEF NoErrors, Retried, RolloutRetried, KubectlRetried, BrokenCluster

\* What the callback can return, and for which answers it fails: of those that
\* pass, for a timeout of kubectl only.
LEMMA SaysWhat ==
  ASSUME NEW a \in Answers, ~Retried(a), resource \in Resource,
         polled \in BOOLEAN
  PROVE  /\ a \in Answer
         /\ Says(a) \in {"none", "ready", "closed", "failed"}
         /\ Says(a) = "failed" =>
              /\ a \notin NoErrors
              /\ Transient(a) => polled /\ a = "timeout"
<1>. USE DEF NoErrors
<1>1. CASE polled
  <2>1. a \in {"ready", "not-found", "empty", "pending", "network",
               "timeout", "cluster", "other", "killed"}
    BY <1>1 DEF Answers, Errors, KubectlAnswers, Resource
  <2>2. a # "network" /\ (a = "cluster" => ~survive)
    BY <1>1 DEF Retried, KubectlRetried, BrokenCluster
  <2>3. Says(a) = KubectlSays(a)
    BY <1>1 DEF Says
  <2>. QED
    BY <1>1, <2>1, <2>2, <2>3 DEF KubectlSays, Answer, Transient, BrokenCluster
<1>2. CASE ~polled
  <2>1. a \in {"ready", "not-found", "rollout", "image", "program",
               "network", "timeout", "cluster", "other", "killed"}
    BY <1>2 DEF Answers, Errors, RolloutAnswers, Resource
  <2>2. /\ a \notin {"network", "image", "program"}
        /\ a = "cluster" => ~survive
    BY <1>2 DEF Retried, RolloutRetried, BrokenCluster
  <2>3. Says(a) = RolloutSays(a)
    BY <1>2 DEF Says
  <2>. QED
    BY <1>2, <2>1, <2>2, <2>3 DEF RolloutSays, Answer, Transient, BrokenCluster
<1>. QED
  BY <1>1, <1>2

LEMMA AnsweredInv ==
  ASSUME Inv, NEW a \in Answer, Answered(a)
  PROVE  Inv'
<1>. USE DEF Inv, Answered, Return, options
<1>1. a \in Answers /\ ~Retried(a) /\ resource \in Resource /\ polled \in BOOLEAN
  BY DEF TypeOK
<1>2. /\ Says(a) \in {"none", "ready", "closed", "failed"}
      /\ Says(a) = "failed" =>
           /\ a \notin NoErrors
           /\ Transient(a) => polled /\ a = "timeout"
  BY <1>1, SaysWhat
<1>3. TypeOK'
  BY <1>2 DEF TypeOK
<1>4. Counting' /\ EndedOnce'
  BY <1>2 DEF Counting, EndedOnce
<1>5. KilledEnds'
  BY KillIsFinal DEF KilledEnds
<1>6. FailedHasReason'
  BY <1>2 DEF FailedHasReason, NoErrors, MissedTimeout, Transient, BrokenCluster
<1>. QED
  BY <1>3, <1>4, <1>5, <1>6

LEMMA RejectedInv ==
  ASSUME Inv, NEW a \in Answer, Rejected(a)
  PROVE  Inv'
<1>. USE DEF Inv, Rejected, Return, options
<1>1. tries \in Nat /\ tries <= Retries /\ at = "running" /\ result = "none"
  BY DEF TypeOK, Counting, EndedOnce
<1>2. a # "killed" /\ a \notin NoErrors
  BY KillIsFinal, RetriedAreErrors
<1>3. CASE MoreTries
  <2>1. at' = "backoff" /\ result' = "none" /\ tries' <= Retries
    BY <1>1, <1>3 DEF MoreTries
  <2>2. TypeOK'
    BY <1>1, <2>1 DEF TypeOK
  <2>. QED
    BY <1>2, <2>1, <2>2 DEF Counting, EndedOnce, KilledEnds, FailedHasReason
<1>4. CASE ~MoreTries
  <2>1. at' = "ended" /\ result' = "failed" /\ tries' = Retries + 1
    BY <1>1, <1>4 DEF MoreTries
  <2>2. TypeOK'
    BY <1>1, <2>1 DEF TypeOK
  <2>. QED
    BY <1>2, <2>1, <2>2 DEF Counting, EndedOnce, KilledEnds, FailedHasReason,
       NoErrors
<1>. QED
  BY <1>3, <1>4

LEMMA NextInv == Inv /\ [Next]_vars => Inv'
<1>. SUFFICES ASSUME Inv, [Next]_vars PROVE Inv'
  OBVIOUS
<1>. USE DEF Inv, TypeOK, Counting, EndedOnce, KilledEnds, FailedHasReason,
     MissedTimeout, Transient, BrokenCluster, options
<1>1. CASE Run
  BY <1>1 DEF Run, GoesOn
<1>2. CASE Stop
  BY <1>2 DEF Stop, Return
<1>3. CASE \E a \in Answer : Answered(a)
  BY <1>3, AnsweredInv
<1>4. CASE \E a \in Answer : Rejected(a)
  BY <1>4, RejectedInv
<1>5. CASE Retry
  BY <1>5 DEF Retry
<1>6. CASE Wake
  BY <1>6 DEF Wake
<1>7. CASE ResourceMoves
  BY <1>7 DEF ResourceMoves
<1>8. CASE Abort
  BY <1>8 DEF Abort
<1>9. CASE TimeOut
  BY <1>9 DEF TimeOut
<1>10. CASE UNCHANGED vars
  BY <1>10 DEF vars
<1>. QED
  BY <1>1, <1>2, <1>3, <1>4, <1>5, <1>6, <1>7, <1>8, <1>9, <1>10 DEF Next

\* Inv holds in every reachable state of a watch.
THEOREM Invariance == Spec => []Inv
<1>. QED
  BY InitInv, NextInv, PTL DEF Spec

\* The types of a watch: the count of errors never passes the eleventh
\* (rollout-status.js:24-26, kubectl-retry.js:117-118).
THEOREM TypeCorrect == Spec => []TypeOK
<1>1. Inv => TypeOK
  BY DEF Inv
<1>. QED
  BY <1>1, Invariance, PTL

\* A watch fails for an error; one that passes, a timeout of kubectl apart, fails
\* it only as the eleventh in a row of one run of the tool (rollout-status.js:
\* 24-66, kubectl-retry.js:114-164).
THEOREM FailuresHaveReasons == Spec => []FailedHasReason
<1>1. Inv => FailedHasReason
  BY DEF Inv
<1>. QED
  BY <1>1, Invariance, PTL

\* What the run over TransientErrorsAreRetried finds is all there is to find: no
\* transient error but a timeout of kubectl fails a watch before its time
\* (retriable-network.js:13-15).
THEOREM OnlyTimeoutsAreMissed ==
  Spec => [](TransientErrorsAreRetried \/ MissedTimeout)
<1>1. FailedHasReason => TransientErrorsAreRetried \/ MissedTimeout
  BY DEF FailedHasReason, TransientErrorsAreRetried
<1>. QED
  BY <1>1, FailuresHaveReasons, PTL

-----------------------------------------------------------------------------
Stopped == aborted \/ late \/ last = "killed"

LEMMA InitOutcome == Init => Outcome!Init
BY DEF Init, Outcome!Init, Resource, Outcome!Resource

\* What a run of the tool says of the resource it looked at.
LEMMA AnswersAreTrue ==
  ASSUME NEW a \in Answers, TypeOK, polled \in BOOLEAN
  PROVE  /\ Says(a) = "ready" =>
              resource = "ready" \/ (polled /\ resource = "absent")
         /\ Says(a) = "closed" => a = "killed"
<1>1. CASE polled
  BY <1>1 DEF Answers, Errors, KubectlAnswers, Says, KubectlSays, TypeOK,
     Resource
<1>2. CASE ~polled
  BY <1>2 DEF Answers, Errors, RolloutAnswers, Says, RolloutSays, TypeOK,
     Resource
<1>. QED
  BY <1>1, <1>2

LEMMA AnsweredOutcome ==
  ASSUME Inv, NEW a \in Answer, Answered(a)
  PROVE  Outcome!Next \/ UNCHANGED Outcome!vars
<1>. USE DEF Inv, Answered, Return, options
<1>1. a \in Answers /\ ~Retried(a) /\ resource \in Resource /\ polled \in BOOLEAN
  BY DEF TypeOK
<1>2. /\ Says(a) \in {"none", "ready", "closed", "failed"}
      /\ Says(a) = "ready" =>
           resource = "ready" \/ (polled /\ resource = "absent")
      /\ Says(a) = "closed" => a = "killed"
  BY <1>1, SaysWhat, AnswersAreTrue
<1>3. result = "none" /\ last # "killed"
  BY DEF EndedOnce, KilledEnds
<1>4. Stopped' \in {Stopped, TRUE}
  BY <1>3 DEF Stopped, TypeOK
<1>5. CASE Says(a) = "none"
  BY <1>1, <1>3, <1>4, <1>5 DEF Outcome!Next, Outcome!Environment,
     Outcome!Stopping, Outcome!Resource, Resource, Stopped
<1>6. CASE Says(a) = "ready"
  BY <1>2, <1>3, <1>4, <1>6 DEF Outcome!Next, Outcome!Ready,
     Outcome!Stopping, Stopped
<1>7. CASE Says(a) = "closed"
  BY <1>2, <1>3, <1>7 DEF Outcome!Next, Outcome!Closed
<1>8. CASE Says(a) = "failed"
  BY <1>3, <1>4, <1>8 DEF Outcome!Next, Outcome!Failed, Outcome!Stopping,
     Stopped
<1>. QED
  BY <1>2, <1>5, <1>6, <1>7, <1>8

LEMMA RejectedOutcome ==
  ASSUME Inv, NEW a \in Answer, Rejected(a)
  PROVE  Outcome!Next \/ UNCHANGED Outcome!vars
<1>. USE DEF Inv, Rejected, Return, options
<1>1. result = "none" /\ last # "killed" /\ a # "killed"
  BY KillIsFinal DEF EndedOnce, KilledEnds
<1>2. CASE MoreTries
  BY <1>1, <1>2 DEF Outcome!vars
<1>3. CASE ~MoreTries
  BY <1>1, <1>3 DEF Outcome!Next, Outcome!Failed, Outcome!Stopping, TypeOK
<1>. QED
  BY <1>2, <1>3

\* Every step of a watch is one of WatchOutcome, or a stutter.
LEMMA NextOutcome ==
  ASSUME Inv, [Next]_vars
  PROVE  Outcome!Next \/ UNCHANGED Outcome!vars
<1>1. CASE Run
  BY <1>1 DEF Run, options, Outcome!vars
<1>2. CASE Stop
  BY <1>2 DEF Stop, Return, options, GoesOn, Inv, EndedOnce, TypeOK,
     Outcome!Next, Outcome!Closed
<1>3. CASE \E a \in Answer : Answered(a)
  BY <1>3, AnsweredOutcome
<1>4. CASE \E a \in Answer : Rejected(a)
  BY <1>4, RejectedOutcome
<1>5. CASE Retry \/ Wake
  BY <1>5 DEF Retry, Wake, options, Outcome!vars
<1>6. CASE ResourceMoves
  BY <1>6 DEF ResourceMoves, options, Inv, TypeOK, Resource, Outcome!Next,
     Outcome!Environment, Outcome!Stopping, Outcome!Resource
<1>7. CASE Abort \/ TimeOut
  BY <1>7 DEF Abort, TimeOut, options, Inv, TypeOK, Resource, Outcome!Next,
     Outcome!Environment, Outcome!Stopping, Outcome!Resource
<1>8. CASE UNCHANGED vars
  BY <1>8 DEF vars, options, Outcome!vars
<1>. QED
  BY <1>1, <1>2, <1>3, <1>4, <1>5, <1>6, <1>7, <1>8 DEF Next

\* A watch keeps what the deployer relies on (wait-for-resource.js:6-11).
THEOREM Refinement == Spec => ImplementsWatchOutcome
<1>1. Inv /\ [Next]_vars => [Outcome!Next]_(Outcome!vars)
  BY NextOutcome
<1>. QED
  BY <1>1, InitOutcome, Invariance, PTL DEF Spec, ImplementsWatchOutcome,
     Outcome!Spec

=============================================================================
