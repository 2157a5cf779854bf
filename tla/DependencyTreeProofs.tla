------------------------ MODULE DependencyTreeProofs ------------------------
(***************************************************************************)
(* For every set of manifests, needs and queue width: no manifest is       *)
(* applied before its needs are ready or if they cannot be met, the queue  *)
(* keeps its width, a success is complete, reports are final, and the      *)
(* deployer implements DeployOrder.                                        *)
(*                                                                         *)
(* NeedsReadyFirst is not inductive: it says nothing of where the queue's  *)
(* tasks stand, nor why a need that was once ready still is.  Inv adds     *)
(* that the queue holds queued tasks, each once; that what a task heard is *)
(* true now; and that the phase of a task and its last report agree.       *)
(***************************************************************************)
EXTENDS DependencyTree, FiniteSetTheorems, TLAPS

QueueHoldsQueued ==
  /\ \A i \in 1..Len(queue) : phase[queue[i]] = "queued"
  /\ \A i, j \in 1..Len(queue) : queue[i] = queue[j] => i = j

HeardIsTrue ==
  \A m \in Manifest : \A d \in heard[m] : status[d] = "ready"

\* A task watches exactly while its report is "waiting".
WatchingIsWaiting ==
  \A m \in Manifest : phase[m] = "watching" <=> status[m] = "waiting"

WatchingIsWatched ==
  \A m \in Manifest : phase[m] = "watching" => m \in Watched

ReportedAfterApply ==
  \A m \in Manifest :
    status[m] # "none" => phase[m] \in {"watching", "done", "rejected"}

\* What a task that ended its apply leaves behind.
Applied ==
  \A m \in Manifest :
    phase[m] \in {"watching", "done"} => cluster[m] = "new" \/ aborted

Ended ==
  \A m \in Manifest :
    phase[m] = "done" /\ m \in Watched => status[m] \in {"ready", "closed"}

SuccessIsDone == outcome = "success" => \A m \in Manifest : phase[m] = "done"

Inv ==
  /\ TypeOK
  /\ QueueHoldsQueued
  /\ HeardIsTrue
  /\ NeedsReadyFirst
  /\ WatchingIsWaiting
  /\ WatchingIsWatched
  /\ ReportedAfterApply
  /\ Applied
  /\ Ended
  /\ SuccessIsDone

\* A need is a manifest.
LEMMA AwaitedType == \A m \in Manifest : Awaited(m) \subseteq Manifest
BY ManifestType DEF Awaited

LEMMA InitInv == Init => Inv
<1>1. ASSUME Init PROVE TypeOK
  <2>1. queue \in Seq(Manifest)
    BY <1>1 DEF Init
  <2>2. cluster \in [Manifest -> {"absent", "old", "new"}]
    BY <1>1 DEF Init
  <2>. QED
    BY <1>1, <2>1, <2>2 DEF Init, TypeOK, Phase, Status, Outcome
<1>2. ASSUME Init PROVE QueueHoldsQueued
  BY <1>2 DEF Init, QueueHoldsQueued
<1>3. ASSUME Init PROVE Inv
  BY <1>1, <1>2, <1>3 DEF Init, Inv, HeardIsTrue, NeedsReadyFirst,
     WatchingIsWaiting, WatchingIsWatched, ReportedAfterApply, Applied,
     Ended, SuccessIsDone
<1>. QED
  BY <1>3

\* A task moves: the phase, report and resource of its manifest become p, s
\* and c.
Moves(m, p, s, c) ==
  /\ phase' = [phase EXCEPT ![m] = p]
  /\ status' = [status EXCEPT ![m] = s]
  /\ cluster' = [cluster EXCEPT ![m] = c]
  /\ UNCHANGED <<heard, queue, aborted, exited>>
  /\ outcome' \in {outcome, "fail", Fulfilled(phase')}

\* What such a move must respect.
MayMove(m, p, s, c) ==
  /\ p \in Phase /\ s \in Status /\ c \in {"absent", "old", "new"}
  /\ phase[m] \notin {"queued", "done"} /\ p \notin {"deps", "queued"}
  /\ p = "blocked" <=> phase[m] = "deps"
  /\ phase[m] # "blocked" /\ status[m] # "ready"
  /\ p = "watching" <=> s = "waiting"
  /\ p = "watching" => m \in Watched
  /\ s # "none" => p \in {"watching", "done", "rejected"}
  /\ p \in {"watching", "done"} => c = "new" \/ aborted
  /\ p = "done" /\ m \in Watched => s \in {"ready", "closed"}

LEMMA MoveKeeps ==
  ASSUME Inv, NEW m \in Manifest, NEW p, NEW s, NEW c,
         Moves(m, p, s, c), MayMove(m, p, s, c)
  PROVE  Inv'
<1>. USE DEF Moves, MayMove
<1>1. TypeOK'
  BY DEF Inv, TypeOK, Outcome, Fulfilled
<1>2. QueueHoldsQueued'
  BY DEF Inv, TypeOK, QueueHoldsQueued
<1>3. HeardIsTrue'
  BY DEF Inv, TypeOK, HeardIsTrue
<1>4. NeedsReadyFirst'
  BY AwaitedType DEF Inv, TypeOK, NeedsReadyFirst
<1>5. WatchingIsWaiting' /\ WatchingIsWatched'
  BY DEF Inv, TypeOK, WatchingIsWaiting, WatchingIsWatched
<1>6. ReportedAfterApply'
  BY DEF Inv, TypeOK, ReportedAfterApply
<1>7. Applied' /\ Ended'
  BY DEF Inv, TypeOK, Applied, Ended
<1>8. SuccessIsDone'
  BY DEF Inv, TypeOK, SuccessIsDone, Fulfilled
<1>. QED
  BY <1>1, <1>2, <1>3, <1>4, <1>5, <1>6, <1>7, <1>8 DEF Inv

\* A task that has not ended its apply reported nothing.
LEMMA Unreported ==
  ASSUME Inv, NEW m \in Manifest,
         phase[m] \notin {"watching", "done", "rejected"}
  PROVE  status[m] = "none"
BY DEF Inv, TypeOK, ReportedAfterApply

LEMMA EnqueueKeeps ==
  ASSUME Inv, NEW m \in Manifest, Enqueue(m) PROVE Inv'
<1>1. /\ phase[m] = "deps" /\ Awaited(m) \subseteq heard[m]
      /\ phase' = [phase EXCEPT ![m] = "queued"]
      /\ queue' = Append(queue, m)
      /\ UNCHANGED <<heard, status, cluster, outcome, aborted, exited>>
  BY DEF Enqueue
<1>2. TypeOK'
  BY <1>1 DEF Inv, TypeOK, Phase
<1>3. \A i \in 1..Len(queue) : queue[i] # m
  BY <1>1 DEF Inv, QueueHoldsQueued
<1>4. QueueHoldsQueued'
  <2>1. /\ Len(queue') = Len(queue) + 1 /\ Len(queue) \in Nat
        /\ queue'[Len(queue) + 1] = m
        /\ \A i \in 1..Len(queue) : queue'[i] = queue[i]
    BY <1>1 DEF Inv, TypeOK
  <2>2. \A i \in 1..Len(queue') :
          i = Len(queue) + 1 \/ i \in 1..Len(queue)
    BY <2>1
  <2>3. \A i \in 1..Len(queue) : phase'[queue'[i]] = "queued"
    BY <1>1, <2>1, <1>3 DEF Inv, TypeOK, QueueHoldsQueued
  <2>4. \A i \in 1..Len(queue') : phase'[queue'[i]] = "queued"
    BY <1>1, <2>1, <2>2, <2>3 DEF Inv, TypeOK
  <2>5. \A i, j \in 1..Len(queue') : queue'[i] = queue'[j] => i = j
    BY <2>1, <2>2, <1>3 DEF Inv, QueueHoldsQueued
  <2>. QED
    BY <2>4, <2>5 DEF QueueHoldsQueued
<1>5. NeedsReadyFirst'
  BY <1>1, AwaitedType DEF Inv, TypeOK, NeedsReadyFirst, HeardIsTrue
<1>. QED
  BY <1>1, <1>2, <1>4, <1>5, Unreported DEF Inv, TypeOK, HeardIsTrue,
     WatchingIsWaiting, WatchingIsWatched, ReportedAfterApply, Applied,
     Ended, SuccessIsDone

\* The head of the queue is a queued task, and is in its tail no more.
LEMMA StartKeeps ==
  ASSUME Inv, NEW m \in Manifest, StartApply(m) PROVE Inv'
<1>1. /\ queue # <<>> /\ m = Head(queue) /\ queue' = Tail(queue)
      /\ phase' = [phase EXCEPT ![m] = FirstCall(m)]
      /\ UNCHANGED <<heard, status, cluster, outcome, aborted, exited>>
  BY DEF StartApply
<1>2. FirstCall(m) \in {"deleting", "applying"}
  BY DEF FirstCall
<1>3. /\ Len(queue) \in Nat \ {0} /\ m = queue[1]
      /\ queue' \in Seq(Manifest) /\ Len(queue') = Len(queue) - 1
      /\ \A i \in 1..Len(queue') : queue'[i] = queue[i + 1]
  BY <1>1 DEF Inv, TypeOK
<1>4. phase[m] = "queued"
  BY <1>3 DEF Inv, QueueHoldsQueued
<1>5. TypeOK'
  BY <1>1, <1>2, <1>3 DEF Inv, TypeOK, Phase, Applying
<1>6. QueueHoldsQueued'
  <2>1. \A i \in 1..Len(queue') : i + 1 \in 1..Len(queue) /\ i + 1 # 1
    BY <1>3
  <2>2. \A i \in 1..Len(queue') :
          queue'[i] # m /\ phase[queue'[i]] = "queued"
    BY <1>3, <2>1 DEF Inv, QueueHoldsQueued
  <2>3. \A i \in 1..Len(queue') : phase'[queue'[i]] = "queued"
    BY <1>1, <1>3, <2>2 DEF Inv, TypeOK
  <2>4. \A i, j \in 1..Len(queue') : queue'[i] = queue'[j] => i = j
    BY <1>3, <2>1 DEF Inv, QueueHoldsQueued
  <2>. QED
    BY <2>3, <2>4 DEF QueueHoldsQueued
<1>7. NeedsReadyFirst'
  BY <1>1, <1>4, AwaitedType DEF Inv, TypeOK, NeedsReadyFirst
<1>. QED
  BY <1>1, <1>2, <1>4, <1>5, <1>6, <1>7, Unreported DEF Inv, TypeOK,
     HeardIsTrue, WatchingIsWaiting, WatchingIsWatched, ReportedAfterApply,
     Applied, Ended, SuccessIsDone

LEMMA DeleteKeeps ==
  ASSUME Inv, NEW m \in Manifest, DeleteFirst(m) \/ DeleteConflict(m)
  PROVE  Inv'
<1>1. PICK c \in {"absent", cluster[m]}, p \in {"applying", "reapplying"} :
        /\ phase[m] \in {"deleting", "redeleting"}
        /\ phase' = [phase EXCEPT ![m] = p]
        /\ cluster' = [cluster EXCEPT ![m] = c]
        /\ UNCHANGED <<heard, queue, status, outcome, aborted, exited>>
  BY DEF DeleteFirst, DeleteConflict, Delete, Inv, TypeOK
<1>2. status[m] = "none"
  BY <1>1, Unreported
<1>3. Moves(m, p, "none", c)
  BY <1>1, <1>2 DEF Moves, Inv, TypeOK
<1>4. MayMove(m, p, "none", c)
  BY <1>1, <1>2 DEF MayMove, Inv, TypeOK, Phase, Applying, Status
<1>. QED
  BY <1>3, <1>4, MoveKeeps

LEMMA ApplyKeeps == ASSUME Inv, NEW m \in Manifest, Apply(m) PROVE Inv'
<1>1. PICK c \in {"new", cluster[m]} :
        /\ cluster' = [cluster EXCEPT ![m] = c]
        /\ c = "new" \/ aborted
  BY DEF Apply, Inv, TypeOK
<1>2. /\ phase[m] \in {"applying", "reapplying"}
      /\ UNCHANGED <<heard, queue, aborted, exited>>
      /\ outcome' \in {outcome, Fulfilled(phase')}
  BY DEF Apply, AfterApply, SettleWith
<1>3. status[m] = "none"
  BY <1>2, Unreported
<1>4. PICK p, s :
        /\ phase' = [phase EXCEPT ![m] = p]
        /\ status' = [status EXCEPT ![m] = s]
        /\ \/ m \in Watched /\ p = "watching" /\ s = "waiting"
           \/ m \notin Watched /\ p = "done" /\ s = "none"
  BY <1>3 DEF Apply, AfterApply, Inv, TypeOK
<1>5. Moves(m, p, s, c)
  BY <1>1, <1>2, <1>4 DEF Moves
<1>6. MayMove(m, p, s, c)
  BY <1>1, <1>2, <1>3, <1>4 DEF MayMove, Inv, TypeOK, Phase, Status
<1>. QED
  BY <1>5, <1>6, MoveKeeps

\* A task whose promise rejects before its resource is watched.
LEMMA RejectKeeps ==
  ASSUME Inv, NEW m \in Manifest,
         NEW p \in {"redeleting", "rejected", "blocked"},
         NEW c \in {"absent", cluster[m]},
         phase[m] \in Applying \union {"deps"},
         p = "blocked" <=> phase[m] = "deps",
         phase' = [phase EXCEPT ![m] = p],
         cluster' = [cluster EXCEPT ![m] = c],
         UNCHANGED <<heard, queue, status, aborted, exited>>,
         outcome' \in {outcome, "fail"}
  PROVE  Inv'
<1>1. status[m] = "none"
  BY Unreported DEF Applying
<1>2. Moves(m, p, "none", c)
  BY <1>1 DEF Moves, Inv, TypeOK
<1>3. MayMove(m, p, "none", c)
  BY <1>1 DEF MayMove, Inv, TypeOK, Phase, Applying, Status
<1>. QED
  BY <1>2, <1>3, MoveKeeps

LEMMA ImmutableKeeps ==
  ASSUME Inv, NEW m \in Manifest, ImmutableField(m) PROVE Inv'
<1>1. PICK p \in {"redeleting", "rejected"} :
        /\ phase[m] = "applying"
        /\ phase' = [phase EXCEPT ![m] = p]
        /\ UNCHANGED <<heard, queue, status, cluster, aborted, exited>>
        /\ outcome' \in {outcome, "fail"}
  BY DEF ImmutableField, Reject, Rejection
<1>2. cluster' = [cluster EXCEPT ![m] = cluster[m]]
  BY <1>1 DEF Inv, TypeOK
<1>. QED
  BY <1>1, <1>2, RejectKeeps DEF Applying

LEMMA KubectlFailsKeeps ==
  ASSUME Inv, NEW m \in Manifest, KubectlFails(m) PROVE Inv'
<1>1. PICK c \in {"absent", cluster[m]} :
        /\ phase[m] \in Applying
        /\ phase' = [phase EXCEPT ![m] = "rejected"]
        /\ cluster' = [cluster EXCEPT ![m] = c]
        /\ UNCHANGED <<heard, queue, status, aborted, exited>>
        /\ outcome' \in {outcome, "fail"}
  BY DEF KubectlFails, Reject, Rejection, Inv, TypeOK
<1>. QED
  BY <1>1, RejectKeeps DEF Applying

\* A need that failed or is missing blocks its dependent.
LEMMA BlockKeeps ==
  ASSUME Inv, NEW m \in Manifest, phase[m] = "deps", Reject(m, "blocked"),
         UNCHANGED <<heard, queue, status, cluster, aborted, exited>>
  PROVE  Inv'
<1>1. /\ phase' = [phase EXCEPT ![m] = "blocked"]
      /\ cluster' = [cluster EXCEPT ![m] = cluster[m]]
      /\ outcome' \in {outcome, "fail"}
  BY DEF Reject, Rejection, Inv, TypeOK
<1>. QED
  BY <1>1, RejectKeeps

LEMMA WatchKeeps ==
  ASSUME Inv, NEW m \in Manifest,
         WatchReady(m) \/ WatchClosed(m) \/ WatchFailed(m)
  PROVE  Inv'
<1>1. PICK s \in {"ready", "closed", "failed"}, p \in {"done", "rejected"} :
        /\ phase[m] = "watching"
        /\ phase' = [phase EXCEPT ![m] = p]
        /\ status' = [status EXCEPT ![m] = s]
        /\ p = "done" => s \in {"ready", "closed"}
        /\ UNCHANGED <<heard, queue, cluster, aborted, exited>>
        /\ outcome' \in {outcome, "fail", Fulfilled(phase')}
  BY DEF WatchReady, WatchClosed, WatchFailed, Resolved, SettleWith, Reject,
     Rejection
<1>2. /\ status[m] = "waiting"
      /\ cluster[m] = "new" \/ aborted
  BY <1>1 DEF Inv, WatchingIsWaiting, Applied
<1>3. Moves(m, p, s, cluster[m])
  BY <1>1 DEF Moves, Inv, TypeOK
<1>4. MayMove(m, p, s, cluster[m])
  BY <1>1, <1>2 DEF MayMove, Inv, TypeOK, Phase, Status
<1>. QED
  BY <1>3, <1>4, MoveKeeps

\* One step of a task, by its action.
LEMMA TaskKeeps == ASSUME Inv, NEW m \in Manifest, Step(m) PROVE Inv'
<1>1. ASSUME NEW d \in Manifest, HearReady(m, d) PROVE Inv'
  BY <1>1 DEF Inv, HearReady, Released, TypeOK, QueueHoldsQueued, HeardIsTrue,
     NeedsReadyFirst, WatchingIsWaiting, WatchingIsWatched, ReportedAfterApply,
     Applied, Ended, SuccessIsDone
<1>2. ASSUME NEW d \in Manifest, HearFailed(m, d) PROVE Inv'
  BY <1>2, BlockKeeps DEF HearFailed
<1>3. CASE NeedMissing(m)
  BY <1>3, BlockKeeps DEF NeedMissing
<1>4. CASE Enqueue(m)
  BY <1>4, EnqueueKeeps
<1>5. CASE StartApply(m)
  BY <1>5, StartKeeps
<1>6. CASE DeleteFirst(m) \/ DeleteConflict(m)
  BY <1>6, DeleteKeeps
<1>7. CASE Apply(m)
  BY <1>7, ApplyKeeps
<1>8. CASE ImmutableField(m)
  BY <1>8, ImmutableKeeps
<1>9. CASE KubectlFails(m)
  BY <1>9, KubectlFailsKeeps
<1>10. CASE WatchReady(m) \/ WatchClosed(m) \/ WatchFailed(m)
  BY <1>10, WatchKeeps
<1>. QED
  BY <1>1, <1>2, <1>3, <1>4, <1>5, <1>6, <1>7, <1>8, <1>9, <1>10 DEF Step

LEMMA NextInv == Inv /\ [Next]_vars => Inv'
<1>. SUFFICES ASSUME Inv, [Next]_vars PROVE Inv'
  OBVIOUS
<1>1. CASE \E m \in Manifest : Step(m)
  BY <1>1, TaskKeeps
<1>2. CASE Abort \/ Exit \/ UNCHANGED vars
  <2>1. /\ UNCHANGED <<phase, heard, queue, status, cluster, outcome>>
        /\ aborted' \in BOOLEAN /\ exited' \in BOOLEAN
        /\ aborted => aborted'
    BY <1>2 DEF Abort, Exit, vars, Inv, TypeOK
  <2>2. TypeOK' /\ QueueHoldsQueued' /\ HeardIsTrue' /\ NeedsReadyFirst'
    BY <2>1 DEF Inv, TypeOK, QueueHoldsQueued, HeardIsTrue, NeedsReadyFirst
  <2>3. /\ WatchingIsWaiting' /\ WatchingIsWatched' /\ ReportedAfterApply'
        /\ Applied' /\ Ended' /\ SuccessIsDone'
    BY <2>1 DEF Inv, WatchingIsWaiting, WatchingIsWatched,
       ReportedAfterApply, Applied, Ended, SuccessIsDone
  <2>. QED
    BY <2>2, <2>3 DEF Inv
<1>. QED
  BY <1>1, <1>2 DEF Next

THEOREM Invariance == Spec => []Inv
BY InitInv, NextInv, PTL DEF Spec

\* Every variable keeps its type.
THEOREM TypeCorrect == Spec => []TypeOK
<1>1. Inv => TypeOK
  BY DEF Inv
<1>. QED
  BY <1>1, Invariance, PTL

\* No manifest is queued or applied before each of its needs was reported
\* ready, whatever the needs, the failures and the signals.
THEOREM NeedsAreReadyFirst == Spec => []NeedsReadyFirst
<1>1. Inv => NeedsReadyFirst
  BY DEF Inv
<1>. QED
  BY <1>1, Invariance, PTL

\* A success is complete: every manifest applied, every watch ended.
THEOREM SuccessComplete == Spec => []SuccessIsComplete
<1>1. Inv => SuccessIsComplete
  BY DEF Inv, SuccessIsComplete, SuccessIsDone, Applied, Ended
<1>. QED
  BY <1>1, Invariance, PTL

-----------------------------------------------------------------------------
(* The width of the queue.                                                  *)

\* Only StartApply adds to the running tasks, and it adds one.
LEMMA RunningGrowsByOne ==
  ASSUME Inv, [Next]_vars
  PROVE  \/ Running' \subseteq Running
         \/ Room /\ \E m \in Manifest : Running' \subseteq Running \union {m}
<1>1. ASSUME NEW m \in Manifest, StartApply(m)
      PROVE  Room /\ Running' \subseteq Running \union {m}
  BY <1>1 DEF StartApply, Running, Inv, TypeOK
<1>2. ASSUME NEW m \in Manifest, Step(m), ~StartApply(m)
      PROVE  Running' \subseteq Running
  <2>1. /\ phase'[m] \in Applying => phase[m] \in Applying
        /\ \E p : phase' = [phase EXCEPT ![m] = p]
    <3>1. CASE Apply(m)
      BY <3>1 DEF Apply, AfterApply, Applying, Inv, TypeOK
    <3>2. CASE ~Apply(m)
      BY <1>2, <3>2 DEF Step, HearReady, HearFailed, NeedMissing, Enqueue,
         Delete, DeleteFirst, DeleteConflict, ImmutableField, KubectlFails,
         WatchReady, WatchClosed, WatchFailed, Reject, Resolved, Applying,
         Inv, TypeOK
    <3>. QED
      BY <3>1, <3>2
  <2>. QED
    BY <2>1 DEF Running, Inv, TypeOK
<1>3. CASE Abort \/ Exit \/ UNCHANGED vars
  BY <1>3 DEF Abort, Exit, vars, Running
<1>. QED
  BY <1>1, <1>2, <1>3 DEF Next

LEMMA RunningFinite == Running \in SUBSET Manifest /\ IsFiniteSet(Running)
BY ManifestType, FS_Subset DEF Running

LEMMA BoundKept ==
  Inv /\ ConcurrencyBound /\ [Next]_vars => ConcurrencyBound'
<1>. SUFFICES ASSUME Inv, ConcurrencyBound, [Next]_vars
              PROVE  ConcurrencyBound'
  OBVIOUS
<1>1. IsFiniteSet(Running) /\ Cardinality(Running) \in Nat /\ Limit \in Nat
  BY RunningFinite, FS_CardinalityType, ManifestType
<1>2. CASE Running' \subseteq Running
  <2>1. Cardinality(Running') \in Nat /\ Cardinality(Running') <= Cardinality(Running)
    BY <1>1, <1>2, FS_Subset, FS_CardinalityType
  <2>. QED
    BY <1>1, <2>1 DEF ConcurrencyBound
<1>3. ASSUME Room, NEW m \in Manifest, Running' \subseteq Running \union {m}
      PROVE  ConcurrencyBound'
  <2>1. /\ IsFiniteSet(Running \union {m})
        /\ Cardinality(Running \union {m}) \in
             {Cardinality(Running), Cardinality(Running) + 1}
    BY <1>1, FS_AddElement
  <2>2. /\ Cardinality(Running') \in Nat
        /\ Cardinality(Running') <= Cardinality(Running \union {m})
    BY <1>3, <2>1, FS_Subset, FS_CardinalityType
  <2>. QED
    BY <1>1, <1>3, <2>1, <2>2 DEF ConcurrencyBound, Room
<1>. QED
  BY <1>2, <1>3, RunningGrowsByOne

\* Never more than Limit kubectl sequences at the same time.
THEOREM WidthKept == Spec => []ConcurrencyBound
<1>1. Init => ConcurrencyBound
  <2>1. ASSUME Init PROVE Running = {}
    BY <2>1 DEF Init, Running, Applying
  <2>. QED
    <3>1. Cardinality({}) = 0 /\ 0 <= Limit
      BY FS_EmptySet, ManifestType
    <3>. QED
      BY <2>1, <3>1 DEF ConcurrencyBound
<1>. QED
  BY <1>1, Invariance, BoundKept, PTL DEF Spec

-----------------------------------------------------------------------------
(* Reports.                                                                 *)

\* The report of m is all a step of m's task says, and an ended report stays.
LEMMA ReportStep ==
  ASSUME Inv, NEW m \in Manifest, Step(m)
  PROVE  \/ status' = status
         \/ /\ status[m] = "none"
            /\ status' = [status EXCEPT ![m] = "waiting"]
            /\ Apply(m)
         \/ /\ status[m] = "waiting"
            /\ \E s \in {"ready", "closed", "failed"} :
                 status' = [status EXCEPT ![m] = s]
            /\ WatchReady(m) \/ WatchClosed(m) \/ WatchFailed(m)
<1>1. CASE Apply(m)
  <2>1. status[m] = "none"
    BY <1>1, Unreported DEF Apply
  <2>. QED
    BY <1>1, <2>1 DEF Apply, AfterApply, Inv, TypeOK
<1>2. CASE WatchReady(m) \/ WatchClosed(m) \/ WatchFailed(m)
  <2>1. status[m] = "waiting"
    BY <1>2 DEF WatchReady, WatchClosed, WatchFailed, Inv, WatchingIsWaiting
  <2>. QED
    BY <1>2, <2>1 DEF WatchReady, WatchClosed, WatchFailed
<1>3. CASE ~Apply(m) /\ ~WatchReady(m) /\ ~WatchClosed(m) /\ ~WatchFailed(m)
  BY <1>3 DEF Step, HearReady, HearFailed, NeedMissing, Enqueue, StartApply,
     Delete, DeleteFirst, DeleteConflict, ImmutableField, KubectlFails
<1>. QED
  BY <1>1, <1>2, <1>3

\* A resource is reported at most one end, after it was watched.
THEOREM FinalReports == Spec => ReportsAreFinal
<1>1. ASSUME Inv, [Next]_vars, NEW m \in Manifest, status'[m] # status[m]
      PROVE  \/ status[m] = "none" /\ status'[m] = "waiting"
             \/ status[m] = "waiting" /\ status'[m] \in {"ready", "closed", "failed"}
  <2>1. PICK k \in Manifest : Step(k)
    BY <1>1 DEF Next, Abort, Exit, vars
  <2>. QED
    BY <1>1, <2>1, ReportStep DEF Inv, TypeOK
<1>2. Inv /\ [Next]_vars => [\A m \in Manifest : status'[m] # status[m] =>
         \/ status[m] = "none" /\ status'[m] = "waiting"
         \/ status[m] = "waiting" /\ status'[m] \in {"ready", "closed", "failed"}]_vars
  BY <1>1
<1>. QED
  BY <1>2, Invariance, PTL DEF Spec, ReportsAreFinal

-----------------------------------------------------------------------------
(* Needs that cannot be met.                                                *)

\* Why such a manifest stays where it is: a task with a need that matches
\* nothing throws before it waits, and nobody reports on what is not watched.
Unresolved ==
  \A m \in Manifest : phase[m] \notin {"deps", "blocked"} => m \notin Unresolvable

OnlyWatchedReported ==
  \A m \in Manifest : status[m] # "none" => m \in Watched

\* Every other task can leave "deps" by its queue only.
LEMMA UnresolvedKept ==
  ASSUME Inv, Unresolved, [Next]_vars
  PROVE  Unresolved'
<1>1. ASSUME NEW m \in Manifest, Step(m)
      PROVE  \E p : /\ phase' = phase \/ phase' = [phase EXCEPT ![m] = p]
                    /\ \/ phase[m] \notin {"deps", "blocked"}
                       \/ p = "blocked"
                       \/ phase' = phase
                       \/ m \notin Unresolvable
  <2>1. CASE Enqueue(m) \/ NeedMissing(m) \/ \E d \in Manifest : HearFailed(m, d)
    BY <2>1 DEF Enqueue, NeedMissing, HearFailed, Reject
  <2>2. CASE Apply(m)
    BY <2>2 DEF Apply, AfterApply
  <2>3. CASE StartApply(m)
    <3>1. phase[m] = "queued" /\ phase' = [phase EXCEPT ![m] = FirstCall(m)]
      BY <2>3 DEF StartApply, Inv, TypeOK, QueueHoldsQueued
    <3>. QED
      BY <3>1
  <2>4. CASE \/ \E d \in Manifest : HearReady(m, d)
             \/ DeleteFirst(m) \/ DeleteConflict(m) \/ ImmutableField(m)
             \/ KubectlFails(m) \/ WatchReady(m) \/ WatchClosed(m)
             \/ WatchFailed(m)
    BY <2>4 DEF HearReady, Delete, DeleteFirst, DeleteConflict, ImmutableField,
       KubectlFails, WatchReady, WatchClosed, WatchFailed, Reject, Applying
  <2>. QED
    BY <1>1, <2>1, <2>2, <2>3, <2>4 DEF Step
<1>2. CASE Abort \/ Exit \/ UNCHANGED vars
  BY <1>2 DEF Abort, Exit, vars, Unresolved
<1>. QED
  BY <1>1, <1>2 DEF Next, Unresolved, Inv, TypeOK

\* A report begins when a watch does.
LEMMA OnlyWatchedReportedKept ==
  ASSUME Inv, OnlyWatchedReported, [Next]_vars
  PROVE  OnlyWatchedReported'
<1>1. ASSUME NEW m \in Manifest, Step(m) PROVE OnlyWatchedReported'
  <2>1. CASE Apply(m)
    BY <2>1 DEF Apply, AfterApply, OnlyWatchedReported, Inv, TypeOK
  <2>2. CASE ~Apply(m)
    <3>1. \/ status' = status
          \/ /\ status[m] = "waiting"
             /\ \E s : status' = [status EXCEPT ![m] = s]
      BY <1>1, <2>2, ReportStep
    <3>. QED
      BY <3>1 DEF OnlyWatchedReported, Inv, TypeOK
  <2>. QED
    BY <2>1, <2>2
<1>2. CASE Abort \/ Exit \/ UNCHANGED vars
  BY <1>2 DEF Abort, Exit, vars, OnlyWatchedReported
<1>. QED
  BY <1>1, <1>2 DEF Next

\* A need that matches nothing, or nothing that is watched, holds its dependent
\* for good, and a deployment with such a dependent does not succeed.
THEOREM UnmetNeedsAreHeld == Spec => []UnmetNeedsHold
<1>1. Init => Unresolved /\ OnlyWatchedReported
  BY DEF Init, Unresolved, OnlyWatchedReported
<1>2. Inv /\ Unresolved /\ OnlyWatchedReported => UnmetNeedsHold
  <2>. SUFFICES ASSUME Inv, Unresolved, OnlyWatchedReported, NEW m \in Manifest,
                       m \in Unresolvable \/ ~(Awaited(m) \subseteq Labelled)
                PROVE  m \notin Begun /\ outcome # "success"
    BY DEF UnmetNeedsHold
  <2>1. phase[m] \in {"deps", "blocked"}
    <3>1. CASE m \in Unresolvable
      BY <3>1 DEF Unresolved
    <3>2. ASSUME NEW d \in Awaited(m), d \notin Labelled
          PROVE  phase[m] \in {"deps", "blocked"}
      <4>1. status[d] # "ready"
        BY <3>2, AwaitedType DEF OnlyWatchedReported, Watched
      <4>. QED
        BY <3>2, <4>1 DEF Inv, NeedsReadyFirst
    <3>. QED
      BY <3>1, <3>2
  <2>. QED
    BY <2>1 DEF Begun, Inv, SuccessIsDone
<1>. QED
  BY <1>1, <1>2, UnresolvedKept, OnlyWatchedReportedKept, Invariance, PTL DEF Spec

-----------------------------------------------------------------------------
(* The promise made to the users of needs.                                  *)

Ready == {m \in Manifest : status[m] = "ready"}

\* Only the start of an apply begins a manifest.
LEMMA BegunStep ==
  ASSUME Inv, NEW m \in Manifest, Step(m), ~StartApply(m)
  PROVE  Begun' = Begun
<1>1. PICK p \in Phase :
        /\ phase' = [phase EXCEPT ![m] = p]
        /\ p \in {"deps", "queued", "blocked"} <=>
             phase[m] \in {"deps", "queued", "blocked"}
  <2>1. CASE Apply(m)
    <3>1. \E p \in {"watching", "done"} : phase' = [phase EXCEPT ![m] = p]
      BY <2>1 DEF Apply, AfterApply
    <3>. QED
      BY <2>1, <3>1 DEF Apply, Phase
  <2>2. CASE ~Apply(m)
    BY <2>2 DEF Step, HearReady, HearFailed, NeedMissing, Enqueue, Delete,
       DeleteFirst, DeleteConflict, ImmutableField, KubectlFails, WatchReady,
       WatchClosed, WatchFailed, Reject, Resolved, Phase, Applying, Inv, TypeOK
  <2>. QED
    BY <2>1, <2>2
<1>. QED
  BY <1>1 DEF Begun, Inv, TypeOK

\* Only a report of readiness makes a manifest ready, one it was not.
LEMMA ReadyStep ==
  ASSUME Inv, NEW m \in Manifest, Step(m)
  PROVE  \/ Ready' = Ready
         \/ m \in Begun \ Ready /\ Ready' = Ready \union {m}
<1>1. CASE status' = status
  BY <1>1 DEF Ready
<1>2. ASSUME NEW s \in {"waiting", "ready", "closed", "failed"},
             status[m] # "ready", status' = [status EXCEPT ![m] = s],
             m \in Begun
      PROVE  \/ Ready' = Ready
             \/ m \in Begun \ Ready /\ Ready' = Ready \union {m}
  BY <1>2 DEF Ready, Inv, TypeOK
<1>3. Apply(m) \/ status[m] = "waiting" => m \in Begun
  BY DEF Apply, Inv, ReportedAfterApply, Begun
<1>. QED
  BY <1>1, <1>2, <1>3, ReportStep

\* Promise.all settles once, and succeeds when no task is left.
LEMMA OutcomeStep ==
  ASSUME Inv, Inv', NEW m \in Manifest, Step(m), Begun' = Begun
  PROVE  \/ outcome' = outcome
         \/ outcome = "pending" /\ outcome' = "fail" /\ Ready' = Ready
         \/ outcome = "pending" /\ outcome' = "success" /\ Begun = Manifest
<1>1. outcome' = "success" => Begun = Manifest
  BY DEF Inv, SuccessIsDone, Begun
<1>2. CASE Apply(m) \/ WatchReady(m) \/ WatchClosed(m)
  BY <1>1, <1>2 DEF Apply, AfterApply, WatchReady, WatchClosed, SettleWith,
     Fulfilled
<1>3. CASE ~Apply(m) /\ ~WatchReady(m) /\ ~WatchClosed(m)
  <2>1. outcome' = outcome \/ (outcome = "pending" /\ outcome' = "fail")
    BY <1>3 DEF Step, HearReady, HearFailed, NeedMissing, Enqueue, StartApply,
       Delete, DeleteFirst, DeleteConflict, ImmutableField, KubectlFails,
       WatchFailed, Reject, Rejection
  <2>2. Ready' = Ready
    <3>1. CASE WatchFailed(m)
      BY <3>1 DEF WatchFailed, Inv, TypeOK, WatchingIsWaiting, Ready
    <3>2. CASE ~WatchFailed(m)
      BY <1>3, <3>2, ReportStep DEF Ready
    <3>. QED
      BY <3>1, <3>2
  <2>. QED
    BY <2>1, <2>2
<1>. QED
  BY <1>2, <1>3

\* The variables of DeployOrder are functions of phase, status and outcome.
LEMMA Simulation ==
  ASSUME Inv, Inv', [Next]_vars
  PROVE  [Order!Next]_(Order!vars)
<1>. USE DEF Order!vars, Order!Next, Order!Begin, Order!Report, Order!Succeed,
        Order!Fail
<1>1. ASSUME NEW m \in Manifest, StartApply(m)
      PROVE  Order!Begin(m)
  <2>1. /\ phase[m] = "queued"
        /\ phase' = [phase EXCEPT ![m] = FirstCall(m)]
        /\ FirstCall(m) \in {"deleting", "applying"}
        /\ UNCHANGED <<status, outcome>>
    BY <1>1 DEF StartApply, FirstCall, Inv, TypeOK, QueueHoldsQueued
  <2>2. m \notin Begun /\ Begun' = Begun \union {m}
    BY <2>1 DEF Begun, Inv, TypeOK
  <2>3. Awaited(m) \subseteq Ready
    BY <2>1, AwaitedType DEF Inv, NeedsReadyFirst, Ready
  <2>. QED
    BY <2>1, <2>2, <2>3 DEF Ready
<1>2. ASSUME NEW m \in Manifest, Step(m), ~StartApply(m)
      PROVE  [Order!Next]_(Order!vars)
  <2>1. Begun' = Begun
    BY <1>2, BegunStep
  <2>2. \/ Ready' = Ready
        \/ m \in Begun \ Ready /\ Ready' = Ready \union {m}
    BY <1>2, ReadyStep
  <2>3. \/ outcome' = outcome
        \/ outcome = "pending" /\ outcome' = "fail" /\ Ready' = Ready
        \/ outcome = "pending" /\ outcome' = "success" /\ Begun = Manifest
    BY <1>2, <2>1, OutcomeStep
  <2>. QED
    BY <2>1, <2>2, <2>3 DEF Ready
<1>3. CASE Abort \/ Exit \/ UNCHANGED vars
  BY <1>3 DEF Abort, Exit, vars, Begun
<1>. QED
  BY <1>1, <1>2, <1>3 DEF Next

\* The deployer keeps the promise DeployOrder makes to the users of needs.
THEOREM Refinement == Spec => ImplementsDeployOrder
<1>1. Init => Order!Init
  BY DEF Init, Order!Init, Begun
<1>. QED
  BY <1>1, Simulation, Invariance, PTL
  DEF Spec, ImplementsDeployOrder, Order!Spec

=============================================================================
