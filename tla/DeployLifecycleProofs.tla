------------------------ MODULE DeployLifecycleProofs -----------------------
(***************************************************************************)
(* For every set of manifests, needs and disabled steps: a process that    *)
(* exits with 0 has deployed, the server's last word is the exit code, and *)
(* nothing is left running behind the hooks and the exit.                  *)
(*                                                                         *)
(* The inductive invariant says what each place of deploy() may rely on:   *)
(* past the join the errors were gathered from a settled deployer and      *)
(* closed sidecars (AfterJoin), the exit code and the server's status      *)
(* follow from the path taken (Path), and none of the two can change later *)
(* (a settled deployer keeps its verdict, a closed stern does not reopen). *)
(***************************************************************************)
EXTENDS DeployLifecycle, TLAPS

BeforeJoin == {"preparing", "loading", "pre", "deploying"}

\* Nothing runs before deploy() starts it.
Quiet ==
  main \in {"preparing", "loading", "pre"} =>
    /\ deployer = "off" /\ sidecar = "off"
    /\ \A m \in Manifest : stern[m] = "none"

\* A process that follows logs was spawned by the stern sidecar.
Spawned ==
  sidecar # "spawned" => \A m \in Manifest : stern[m] = "none"

SternSettled ==
  /\ sidecar # "preparing"
  /\ \A m \in Manifest : stern[m] # "running"

\* The deployer and the sidecars run only while deploy() waits at the join;
\* past it, on the path that does not throw, the errors gathered are theirs.
AfterJoin ==
  /\ main # "deploying" => (deployer = "on" => Finished) /\ SternSettled
  /\ main \in {"post", "reporting"} \/ (main = "closing" /\ code = 0) =>
       /\ failed = Errors
       /\ main # "post" => ~failed

\* The server's status along the path, unless a call was lost.
Path ==
  /\ main \in {"reporting", "catching"} => HasStatus
  /\ ~HasStatus \/ main \in {"preparing", "loading"} => remote = "none"
  /\ main # "closing" => remote \in {"none", "loading"}
  /\ main = "catching" => code = 1
  /\ main = "closing" /\ code = 0 /\ HasStatus => remote = "success" \/ lost
  /\ main = "closing" /\ code = 1 /\ ~lost => remote \in {"none", "failed"}

CodeZero == main \in BeforeJoin \union {"post", "reporting"} => code = 0

Ended ==
  /\ exit = "ok" => main = "closing" /\ code = 0
  /\ exit = "error" => main = "closing" /\ code = 1

Inv ==
  /\ TypeOK
  /\ Quiet /\ Spawned /\ AfterJoin
  /\ Path /\ CodeZero /\ Ended

LEMMA InitInv == Init => Inv
BY DEF Init, Order!Init, Inv, TypeOK, Quiet, Spawned, AfterJoin,
   SternSettled, Path,
   BeforeJoin, CodeZero, Ended

\* What the deployer does: a verdict once given stays, and a manifest is
\* ready only after it was begun.
LEMMA DeployerSteps ==
  ASSUME TypeOK, Order!Next
  PROVE  /\ begun' \subseteq Manifest /\ ready' \subseteq begun'
         /\ verdict' \in {"pending", "success", "fail"}
         /\ verdict # "pending" => verdict' = verdict
BY DEF TypeOK, Order!Next, Order!Begin, Order!Report, Order!Succeed,
   Order!Fail

LEMMA DeployKeeps == ASSUME Inv, Deploy PROVE Inv'
<1>1. /\ deployer = "on" /\ Order!Next
      /\ UNCHANGED <<main, code, failed, deployer, logs, remote, lost, aborted, exit>>
  BY DEF Deploy
<1>2. TypeOK'
  BY <1>1, DeployerSteps DEF Inv, TypeOK, logs
<1>3. AfterJoin'
  BY <1>1, DeployerSteps
  DEF Inv, AfterJoin, Finished, SternSettled, Errors, SternErrors, logs
<1>. QED
  BY <1>1, <1>2, <1>3 DEF Inv, Quiet, Spawned, Path, CodeZero, Ended, logs

LEMMA SidecarsKeep ==
  ASSUME Inv, exit = "none",
         Sidecars \/ \E m \in Manifest : SternCloses(m)
  PROVE  Inv'
<1>1. /\ UNCHANGED <<main, code, failed, deployer, order, remote, lost, aborted, exit>>
      /\ progress' \in {progress, "done"}
  BY DEF Sidecars, SternCloses, SternKilled, ProgressEnds, SpawnStern
<1>2. CASE ProgressEnds
  BY <1>1, <1>2 DEF ProgressEnds, Inv, TypeOK, Quiet, Spawned, AfterJoin,
     SternSettled, Errors, SternErrors, Finished, order, Path, CodeZero, Ended
<1>3. CASE SpawnStern
  <2>1. /\ sidecar = "preparing" /\ sidecar' \in {"spawned", "failed"}
        /\ \/ sidecar' = "spawned" /\ stern' = [m \in Manifest |-> "running"]
           \/ sidecar' = "failed" /\ stern' = stern
    BY <1>3 DEF SpawnStern
  <2>2. TypeOK'
    BY <1>1, <2>1 DEF Inv, TypeOK, order
  <2>3. Quiet' /\ Spawned' /\ AfterJoin'
    BY <1>1, <2>1 DEF Inv, Quiet, Spawned, AfterJoin, SternSettled
  <2>. QED
    BY <1>1, <2>2, <2>3 DEF Inv, Path, CodeZero, Ended
<1>4. ASSUME NEW m \in Manifest, SternKilled(m) \/ SternCloses(m) PROVE Inv'
  <2>1. PICK how \in {"done", "error"} :
          /\ stern[m] = "running" /\ stern' = [stern EXCEPT ![m] = how]
          /\ sidecar' = sidecar
    BY <1>4 DEF SternKilled, SternCloses
  <2>2. TypeOK'
    BY <1>1, <2>1 DEF Inv, TypeOK, order
  <2>3. Quiet' /\ Spawned' /\ AfterJoin'
    BY <1>1, <2>1 DEF Inv, TypeOK, Quiet, Spawned, AfterJoin, SternSettled
  <2>. QED
    BY <1>1, <2>2, <2>3 DEF Inv, Path, CodeZero, Ended
<1>. QED
  BY <1>2, <1>3, <1>4 DEF Sidecars

\* While the deployer and the sidecars stand still, so does what is known
\* of them.
LEMMA StandStill ==
  ASSUME UNCHANGED <<deployer, order, logs>>
  PROVE  /\ Errors' = Errors /\ Finished' = Finished
         /\ SternSettled' = SternSettled /\ Spawned' = Spawned
         /\ stern' = stern /\ sidecar' = sidecar /\ deployer' = deployer
         /\ begun' = begun /\ ready' = ready /\ verdict' = verdict
         /\ progress' = progress
BY DEF Errors, SternErrors, Finished, SternSettled, Spawned, order, logs

\* The steps of deploy() leave the deployer and the sidecars alone, but for
\* the one that starts them.
LEMMA MainKeeps == ASSUME Inv, exit = "none", Main PROVE Inv'
<1>. USE DEF Throw, UnlessAborted, SetStatus, BeforeJoin
<1>1. CASE Prepare \/ PrepareFails \/ PreHookFails
  <2>1. UNCHANGED <<deployer, order, logs>>
    BY <1>1 DEF Prepare, PrepareFails, PreHookFails
  <2>. QED
    BY <1>1, <2>1, StandStill DEF Prepare, PrepareFails, PreHookFails, Inv,
       TypeOK, Quiet, AfterJoin, Path, CodeZero, Ended
<1>2. CASE ReportLoading
  <2>1. /\ main = "loading" /\ main' \in {"pre", "catching", "closing"}
        /\ UNCHANGED <<deployer, order, logs, failed, aborted, exit>>
        /\ main' = "pre" => code' = code
        /\ main' # "pre" => code' = 1
    BY <1>2 DEF ReportLoading, Inv, CodeZero
  <2>2. /\ remote' \in {remote, "loading"} /\ lost' \in {lost, TRUE}
        /\ main' = "catching" => HasStatus
        /\ ~HasStatus => remote' = remote
        /\ main' = "closing" => ~HasStatus
    BY <1>2 DEF ReportLoading
  <2>3. TypeOK'
    BY <2>1, <2>2, StandStill DEF Inv, TypeOK
  <2>4. Quiet' /\ Spawned' /\ AfterJoin'
    BY <2>1, StandStill DEF Inv, Quiet, AfterJoin
  <2>5. Path'
    BY <2>1, <2>2 DEF Inv, Path
  <2>6. CodeZero' /\ Ended'
    BY <2>1 DEF Inv, CodeZero, Ended
  <2>. QED
    BY <2>3, <2>4, <2>5, <2>6 DEF Inv
<1>3. CASE StartDeploy
  <2>1. /\ main = "pre" /\ UNCHANGED <<stern, order, failed, remote, lost, aborted, exit>>
        /\ deployer' \in {"off", "on"}
        /\ progress' \in {"off", "waiting"} /\ sidecar' \in {"off", "preparing"}
        /\ \/ main' = "deploying" /\ code' = code
           \/ /\ main' = IF HasStatus THEN "catching" ELSE "closing"
              /\ code' = 1 /\ deployer' = "off" /\ sidecar' = "off"
    BY <1>3 DEF StartDeploy
  <2>2. TypeOK' /\ Path' /\ CodeZero' /\ Ended'
    BY <2>1 DEF Inv, TypeOK, order, Path, CodeZero, Ended
  <2>3. \A m \in Manifest : stern'[m] = "none"
    BY <2>1 DEF Inv, Quiet
  <2>4. Quiet' /\ Spawned' /\ AfterJoin'
    BY <2>1, <2>3 DEF Quiet, Spawned, AfterJoin, SternSettled
  <2>. QED
    BY <2>2, <2>4 DEF Inv
<1>4. CASE Join
  <2>1. deployer = "on" => Finished
    BY <1>4 DEF Join, Joined
  <2>2. SternSettled
    BY <1>4 DEF Join, Joined, SidecarsSettled, SternClosed, SternSettled, Inv,
       Spawned
  <2>3. Errors \in BOOLEAN
    BY DEF Errors, SternErrors
  <2>. QED
    BY <1>4, <2>1, <2>2, <2>3, StandStill DEF Join, Inv, TypeOK, Quiet,
       AfterJoin, Path, CodeZero, Ended
<1>5. CASE PostHooks \/ PostHookFails
  <2>1. UNCHANGED <<deployer, order, logs>>
    BY <1>5 DEF PostHooks, PostHookFails
  <2>. QED
    BY <1>5, <2>1, StandStill DEF PostHooks, PostHookFails, Inv, TypeOK,
       Quiet, AfterJoin, Path, CodeZero, Ended
<1>6. CASE ReportSuccess \/ ReportFailure
  <2>1. PICK s \in {"success", "failed"} :
          /\ s = "success" => main = "reporting"
          /\ s = "failed" => main = "catching"
          /\ main' = "closing"
          /\ UNCHANGED <<code, failed, deployer, order, logs, aborted, exit>>
          /\ \/ remote' = s /\ lost' = lost
             \/ remote' = remote /\ lost' = TRUE
    BY <1>6 DEF ReportSuccess, ReportFailure, Report
  <2>2. TypeOK'
    BY <2>1, StandStill DEF Inv, TypeOK
  <2>3. AfterJoin' /\ Quiet' /\ Spawned'
    BY <2>1, StandStill DEF Inv, AfterJoin, Quiet, Path, CodeZero
  <2>4. Path' /\ CodeZero' /\ Ended'
    BY <2>1 DEF Inv, TypeOK, Path, CodeZero, Ended
  <2>. QED
    BY <2>2, <2>3, <2>4 DEF Inv
<1>7. CASE Exit
  <2>1. UNCHANGED <<deployer, order, logs>>
    BY <1>7 DEF Exit
  <2>. QED
    BY <1>7, <2>1, StandStill DEF Exit, Inv, TypeOK, Quiet, AfterJoin, Path,
       CodeZero, Ended
<1>. QED
  BY <1>1, <1>2, <1>3, <1>4, <1>5, <1>6, <1>7 DEF Main

LEMMA NextInv == Inv /\ [Next]_vars => Inv'
<1>. SUFFICES ASSUME Inv, [Next]_vars PROVE Inv'
  OBVIOUS
<1>1. CASE Next
  <2>1. CASE Signal \/ Kill
    <3>1. /\ UNCHANGED <<deployer, order, logs>>
          /\ UNCHANGED <<main, code, failed, remote, lost>>
          /\ aborted' \in BOOLEAN
          /\ exit' = exit \/ exit' = "killed"
      BY <2>1 DEF Signal, Kill, Inv, TypeOK
    <3>. QED
      BY <3>1, StandStill DEF Inv, TypeOK, Quiet, AfterJoin, Path, CodeZero,
         Ended
  <2>. QED
    BY <1>1, <2>1, MainKeeps, DeployKeeps, SidecarsKeep DEF Next
<1>2. CASE UNCHANGED vars
  <2>1. /\ UNCHANGED <<deployer, order, logs>>
        /\ UNCHANGED <<main, code, failed, remote, lost, aborted, exit>>
    BY <1>2 DEF vars
  <2>. QED
    BY <2>1, StandStill DEF Inv, TypeOK, Quiet, AfterJoin, Path, CodeZero,
       Ended
<1>. QED
  BY <1>1, <1>2

THEOREM Invariance == Spec => []Inv
BY InitInv, NextInv, PTL DEF Spec

\* Every variable keeps its type.
THEOREM TypeCorrect == Spec => []TypeOK
<1>1. Inv => TypeOK
  BY DEF Inv
<1>. QED
  BY <1>1, Invariance, PTL

\* An exit code of 0 means a deployment that succeeded and was reported.
THEOREM Honest == Spec => []HonestSuccess
<1>1. Inv => HonestSuccess
  BY DEF Inv, TypeOK, HonestSuccess, Ended, AfterJoin, Errors, Finished, Path
<1>. QED
  BY <1>1, Invariance, PTL

\* The server's last word is the exit code.
THEOREM StatusAgrees == Spec => []StatusTellsTheEnd
<1>1. Inv => StatusTellsTheEnd
  BY DEF Inv, TypeOK, StatusTellsTheEnd, Ended, Path
<1>. QED
  BY <1>1, Invariance, PTL

\* The hooks after the deployment and the exit find nothing running.
THEOREM NothingLeft == Spec => []NothingLeftRunning
<1>1. Inv => NothingLeftRunning
  BY DEF Inv, NothingLeftRunning, Ended, AfterJoin, SternSettled, Finished
<1>. QED
  BY <1>1, Invariance, PTL

\* No status replaces a verdict.
THEOREM VerdictKept == Spec => VerdictStands
<1>1. Inv /\ [Next]_vars =>
        [remote' # remote => remote \in {"none", "loading"} /\ remote' # "none"]_vars
  <2>. SUFFICES ASSUME Inv, Next, remote' # remote
                PROVE  remote \in {"none", "loading"} /\ remote' # "none"
    BY DEF vars
  <2>1. ReportLoading \/ ReportSuccess \/ ReportFailure
    BY DEF Next, Main, Prepare, PrepareFails, StartDeploy, PreHookFails, Join,
       PostHooks, PostHookFails, Exit, Deploy, Sidecars, ProgressEnds,
       SpawnStern, SternKilled, SternCloses, Signal, Kill
  <2>. QED
    BY <2>1 DEF ReportLoading, ReportSuccess, ReportFailure, Report, SetStatus,
       Inv, Path, BeforeJoin
<1>. QED
  BY <1>1, Invariance, PTL DEF Spec, VerdictStands

=============================================================================
