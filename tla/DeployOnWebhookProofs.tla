------------------------ MODULE DeployOnWebhookProofs ------------------------
(***************************************************************************)
(* For any number of clients, earlier runs, hashes and commits: success is *)
(* earned, and no line is shown twice or before an older one.              *)
(*                                                                         *)
(* A status "ok" is backed by a deployment of its commit (Backed), and     *)
(* what a deployment came to is never taken back (FreshPods): a pod that   *)
(* has yet to deploy has come to nothing, a pod exists only once the       *)
(* service is done with its request, and a Job is of such a request.  The  *)
(* tail has shown nothing after lastTimestamp (LastIsLast).                *)
(***************************************************************************)
EXTENDS DeployOnWebhook, TLAPS

FreshPods ==
  /\ \A c \in Client : client[c] = "posting" => request[c] = "none"
  /\ \A c \in Client : request[c] # "settled" => pod[c] = "none"
  /\ \A h \in Hash : job[h] \in Client => request[job[h]] = "settled"
  /\ \A r \in Run : pod[r] \in {"none", "created", "deploying"} => outcome[r] = "none"

Backed ==
  \A k \in Commit : status[k] = "ok" =>
    \E r \in Run : CommitOf[r] = k /\ outcome[r] = "ok"

Patient ==
  \A c \in Client : client[c] \in {"posting", "waiting", "reading", "checking"} =>
    tail[c].turns < MaxTurns

\* What a tail has shown is in order, and not after lastTimestamp.
InOrder(t) ==
  /\ \A i \in DOMAIN t.shown : t.shown[i] <= t.last
  /\ \A i, j \in DOMAIN t.shown : i < j => t.shown[i] < t.shown[j]

LastIsLast == \A c \in Client : InOrder(tail[c])

Service == TypeOK /\ FreshPods /\ Backed /\ Patient /\ SuccessIsEarned

USE OnWebhookType DEF OnWebhookType, TailState

LEMMA Types ==
  /\ \A r \in Run : HashOf[r] \in Hash /\ CommitOf[r] \in Commit
  /\ Client \subseteq Run /\ Earlier \subseteq Run
  /\ Client \intersect Earlier = {}
  /\ NoRun \notin Client
BY DEF Hash, Commit, Run

LEMMA InitService == Init => Service
<1>. SUFFICES ASSUME Init PROVE Service
  OBVIOUS
<1>1. TypeOK
  <2>1. /\ client \in [Client -> {"posting"} \union Following \union Ended]
        /\ request \in [Client -> {"none", "deleting", "applying", "settled"}]
    BY DEF Init
  <2>2. job \in [Hash -> Run \union {NoRun}]
    BY DEF Init, Run
  <2>3. pod \in [Run -> {"none", "created", "deploying", "reporting",
                         "stopping", "ended", "killed"}]
    BY DEF Init
  <2>4. /\ outcome \in [Run -> {"none", "ok", "ko"}]
        /\ status \in [Commit -> {"none", "loading", "ok", "ko"}]
    BY DEF Init
  <2>5. log \in [Run -> Seq(Nat)] /\ clock \in Nat
    BY DEF Init
  <2>6. NoTail \in TailState
    BY DEF NoTail
  <2>7. tail \in [Client -> TailState]
    BY <2>6 DEF Init
  <2>. QED
    BY <2>1, <2>2, <2>3, <2>4, <2>5, <2>7 DEF TypeOK
<1>2. FreshPods
  <2>1. \A c \in Client : request[c] = "none" /\ pod[c] = "none" /\ outcome[c] = "none"
    BY Types DEF Init
  <2>2. \A h \in Hash : job[h] \notin Client
    BY Types DEF Init
  <2>3. \A r \in Run \ Client : pod[r] \in {"ended", "killed"}
    BY DEF Init
  <2>. QED
    BY <2>1, <2>2, <2>3 DEF FreshPods
<1>3. Backed
  BY Types DEF Init, Backed
<1>4. Patient
  BY DEF Init, Patient, NoTail
<1>5. SuccessIsEarned
  BY DEF Init, SuccessIsEarned
<1>. QED
  BY <1>1, <1>2, <1>3, <1>4, <1>5 DEF Service

-----------------------------------------------------------------------------
\* What was done stays done: outcomes and successes are only added to.
LEMMA StillEarned ==
  ASSUME SuccessIsEarned,
         \A r \in Run : outcome[r] = "ok" => outcome'[r] = "ok",
         \A c \in Client \ Detached : client'[c] = "ok" => client[c] = "ok"
  PROVE  SuccessIsEarned'
BY DEF SuccessIsEarned

\* A status that is kept, or set to the outcome of a run, is backed.
LEMMA StillBacked ==
  ASSUME Backed, NEW r \in Run, NEW word,
         \A q \in Run : outcome[q] = "ok" => outcome'[q] = "ok",
         status \in [Commit -> {"none", "loading", "ok", "ko"}],
         Posts(r, word),
         word = "ok" => outcome'[r] = "ok"
  PROVE  Backed'
<1>1. CASE status' = status
  BY <1>1 DEF Backed
<1>2. CASE status' = [status EXCEPT ![CommitOf[r]] = word]
  <2>1. \A k \in Commit : status'[k] = IF k = CommitOf[r] THEN word ELSE status[k]
    BY <1>2
  <2>. QED
    BY <2>1 DEF Backed
<1>. QED
  BY <1>1, <1>2 DEF Posts

LEMMA PostedType ==
  ASSUME TypeOK, NEW r \in Run, NEW word \in {"none", "loading", "ok", "ko"},
         Posts(r, word)
  PROVE  status' \in [Commit -> {"none", "loading", "ok", "ko"}]
BY DEF TypeOK, Posts

LEMMA PostStep ==
  ASSUME Service, NEW c \in Client, Post(c) PROVE Service'
<1>1. client' \in [Client -> {"posting"} \union Following \union Ended]
  BY DEF Service, TypeOK, Post, Move, Following, Ended
<1>2. TypeOK'
  <2>1. request' \in [Client -> {"none", "deleting", "applying", "settled"}]
    BY DEF Service, TypeOK, Post
  <2>. QED
    BY <1>1, <2>1 DEF Service, TypeOK, Post, cluster
<1>3. FreshPods'
  <2>1. \A d \in Client : d # c => request'[d] = request[d] /\ client'[d] = client[d]
    BY DEF Service, TypeOK, Post, Move
  <2>2. request[c] = "none" /\ request'[c] \in {"none", "deleting"}
    <3>1. PICK as \in {"deleting", "none"} : request' = [request EXCEPT ![c] = as]
      BY DEF Post
    <3>2. request'[c] = as
      BY <3>1 DEF Service, TypeOK
    <3>. QED
      BY <3>2 DEF Service, FreshPods, Post
  <2>3. client'[c] # "posting"
    BY DEF Service, TypeOK, Post, Move
  <2>4. UNCHANGED cluster
    BY DEF Post
  <2>. QED
    BY <2>1, <2>2, <2>3, <2>4 DEF Service, FreshPods, cluster
<1>4. Backed' /\ Patient'
  BY DEF Service, TypeOK, Backed, Patient, Post, Move, cluster
<1>5. SuccessIsEarned'
  BY StillEarned DEF Service, TypeOK, Post, Move, cluster
<1>. QED
  BY <1>2, <1>3, <1>4, <1>5 DEF Service

LEMMA DeleteStep ==
  ASSUME Service, NEW c \in Client, Delete(c) PROVE Service'
<1>. DEFINE old == job[HashOf[c]]
<1>1. /\ HashOf[c] \in Hash
      /\ old \in Run \union {NoRun}
  BY Types DEF Service, TypeOK
<1>2. /\ \A d \in Client : request'[d] = IF d = c THEN "applying" ELSE request[d]
      /\ request[c] = "deleting"
  BY DEF Service, TypeOK, Delete
<1>3. \A h \in Hash : job'[h] = NoRun \/ job'[h] = job[h]
  BY DEF Service, TypeOK, Delete
<1>4. \A r \in Run : pod'[r] = pod[r] \/ (r = old /\ pod'[r] \in {"stopping", "killed"})
  BY DEF Delete
<1>5. TypeOK'
  <2>1. request' \in [Client -> {"none", "deleting", "applying", "settled"}]
    BY DEF Service, TypeOK, Delete
  <2>2. job' \in [Hash -> Run \union {NoRun}]
    BY <1>1 DEF Service, TypeOK, Delete
  <2>3. pod' \in [Run -> {"none", "created", "deploying", "reporting",
                          "stopping", "ended", "killed"}]
    BY DEF Service, TypeOK, Delete
  <2>. QED
    BY <2>1, <2>2, <2>3 DEF Service, TypeOK, Delete
<1>6. FreshPods'
  <2>1. \A d \in Client : request'[d] # "settled" => pod'[d] = "none"
    BY <1>1, <1>2, <1>4, Types DEF Service, FreshPods
  <2>2. \A h \in Hash : job'[h] \in Client => request'[job'[h]] = "settled"
    BY <1>2, <1>3, Types DEF Service, FreshPods
  <2>3. \A d \in Client : client'[d] = "posting" => request'[d] = "none"
    BY <1>2 DEF Service, FreshPods, Delete
  <2>4. \A r \in Run : pod'[r] \in {"none", "created", "deploying"} => outcome'[r] = "none"
    BY <1>4 DEF Service, FreshPods, Delete
  <2>. QED
    BY <2>1, <2>2, <2>3, <2>4 DEF FreshPods
<1>7. Backed' /\ Patient' /\ SuccessIsEarned'
  BY DEF Service, Backed, Patient, SuccessIsEarned, Delete
<1>. QED
  BY <1>5, <1>6, <1>7 DEF Service

LEMMA ApplyStep ==
  ASSUME Service, NEW c \in Client, Apply(c) PROVE Service'
<1>1. c \in Run /\ HashOf[c] \in Hash
  BY Types
<1>2. /\ \A d \in Client : request'[d] = IF d = c THEN "settled" ELSE request[d]
      /\ request[c] = "applying"
  BY DEF Service, TypeOK, Apply
<1>3. \A h \in Hash : job'[h] = c \/ job'[h] = job[h]
  BY DEF Service, TypeOK, Apply
<1>4. \A r \in Run : pod'[r] = pod[r] \/ (r = c /\ pod'[r] = "created")
  BY DEF Service, TypeOK, Apply
<1>5. TypeOK'
  <2>1. request' \in [Client -> {"none", "deleting", "applying", "settled"}]
    BY DEF Service, TypeOK, Apply
  <2>2. job' \in [Hash -> Run \union {NoRun}]
    BY <1>1 DEF Service, TypeOK, Apply
  <2>3. pod' \in [Run -> {"none", "created", "deploying", "reporting",
                          "stopping", "ended", "killed"}]
    BY <1>1 DEF Service, TypeOK, Apply
  <2>. QED
    BY <2>1, <2>2, <2>3 DEF Service, TypeOK, Apply
<1>6. FreshPods'
  <2>1. \A d \in Client : request'[d] # "settled" => pod'[d] = "none"
    BY <1>2, <1>4, Types DEF Service, FreshPods
  <2>2. \A h \in Hash : job'[h] \in Client => request'[job'[h]] = "settled"
    BY <1>2, <1>3, Types DEF Service, FreshPods
  <2>3. \A d \in Client : client'[d] = "posting" => request'[d] = "none"
    BY <1>2 DEF Service, FreshPods, Apply
  <2>4. \A r \in Run : pod'[r] \in {"none", "created", "deploying"} => outcome'[r] = "none"
    <3>1. pod[c] = "none"
      BY <1>2 DEF Service, FreshPods
    <3>. QED
      BY <3>1, <1>4 DEF Service, FreshPods, Apply
  <2>. QED
    BY <2>1, <2>2, <2>3, <2>4 DEF FreshPods
<1>7. Backed' /\ Patient' /\ SuccessIsEarned'
  BY DEF Service, Backed, Patient, SuccessIsEarned, Apply
<1>. QED
  BY <1>5, <1>6, <1>7 DEF Service

LEMMA DropStep ==
  ASSUME Service, NEW c \in Client, Drop(c) PROVE Service'
<1>1. /\ \A d \in Client : request'[d] = IF d = c THEN "settled" ELSE request[d]
      /\ request[c] \in {"deleting", "applying"}
  BY DEF Service, TypeOK, Drop
<1>2. UNCHANGED <<client, job, pod, outcome, log, clock, status, tail>>
  BY DEF Drop, cluster
<1>3. TypeOK'
  <2>1. request' \in [Client -> {"none", "deleting", "applying", "settled"}]
    BY DEF Service, TypeOK, Drop
  <2>. QED
    BY <1>2, <2>1 DEF Service, TypeOK
<1>4. FreshPods'
  BY <1>1, <1>2 DEF Service, FreshPods
<1>5. Backed' /\ Patient' /\ SuccessIsEarned'
  BY <1>2 DEF Service, Backed, Patient, SuccessIsEarned
<1>. QED
  BY <1>3, <1>4, <1>5 DEF Service

LEMMA CleanStep ==
  ASSUME Service, Clean PROVE Service'
<1>1. UNCHANGED <<client, request, job, pod, outcome, log, clock, tail>>
  BY DEF Clean, cluster
<1>2. \A k \in Commit : status'[k] = "none"
  BY DEF Clean
<1>3. TypeOK'
  <2>1. status' \in [Commit -> {"none", "loading", "ok", "ko"}]
    BY DEF Clean
  <2>. QED
    BY <1>1, <2>1 DEF Service, TypeOK
<1>4. FreshPods' /\ Backed' /\ Patient' /\ SuccessIsEarned'
  BY <1>1, <1>2 DEF Service, FreshPods, Backed, Patient, SuccessIsEarned
<1>. QED
  BY <1>3, <1>4 DEF Service

-----------------------------------------------------------------------------
\* The pod of a run writes a line.
LEMMA SaysType ==
  ASSUME TypeOK, NEW r \in Run, Says(r)
  PROVE  log' \in [Run -> Seq(Nat)] /\ clock' \in Nat
<1>1. log[r] \in Seq(Nat) /\ clock + 1 \in Nat
  BY DEF TypeOK
<1>2. Append(log[r], clock + 1) \in Seq(Nat)
  BY <1>1
<1>. QED
  BY <1>1, <1>2 DEF TypeOK, Says

\* The pod of a run goes on, without being told to stop by another.
LEMMA PodGoesOn ==
  ASSUME Service, NEW r \in Run, UNCHANGED <<client, request, job, tail>>,
         NEW to \in {"deploying", "reporting", "ended", "killed"},
         pod[r] # "none", pod' = [pod EXCEPT ![r] = to],
         \A q \in Run : q # r => outcome'[q] = outcome[q],
         to = "deploying" => outcome'[r] = "none"
  PROVE  FreshPods'
<1>1. \A q \in Run : pod'[q] = IF q = r THEN to ELSE pod[q]
  BY DEF Service, TypeOK
<1>2. \A c \in Client : client[c] = "posting" => request[c] = "none"
  BY DEF Service, FreshPods
<1>3. \A c \in Client : request'[c] # "settled" => pod'[c] = "none"
  BY <1>1, Types DEF Service, FreshPods
<1>4. \A h \in Hash : job'[h] \in Client => request'[job'[h]] = "settled"
  BY DEF Service, FreshPods
<1>5. \A q \in Run : pod'[q] \in {"none", "created", "deploying"} => outcome'[q] = "none"
  BY <1>1 DEF Service, FreshPods
<1>. QED
  BY <1>2, <1>3, <1>4, <1>5 DEF FreshPods

LEMMA StartStep ==
  ASSUME Service, NEW r \in Run, Start(r) PROVE Service'
<1>1. UNCHANGED <<client, request, job, outcome, tail>>
  BY DEF Start
<1>2. FreshPods'
  BY <1>1, PodGoesOn DEF Service, FreshPods, Start
<1>3. TypeOK'
  <2>1. pod' \in [Run -> {"none", "created", "deploying", "reporting",
                          "stopping", "ended", "killed"}]
    BY DEF Service, TypeOK, Start
  <2>. QED
    BY <1>1, <2>1, PostedType, SaysType DEF Service, TypeOK, Start
<1>4. Backed'
  BY <1>1, StillBacked DEF Service, TypeOK, Start
<1>5. Patient' /\ SuccessIsEarned'
  BY <1>1 DEF Service, Patient, SuccessIsEarned
<1>. QED
  BY <1>2, <1>3, <1>4, <1>5 DEF Service

LEMMA DeployStep ==
  ASSUME Service, NEW r \in Run, Deploy(r) PROVE Service'
<1>1. UNCHANGED <<client, request, job, status, tail>>
  BY DEF Deploy
<1>2. PICK o \in {"ok", "ko"} : outcome' = [outcome EXCEPT ![r] = o]
  BY DEF Deploy
<1>3. \A q \in Run : q # r => outcome'[q] = outcome[q]
  BY <1>2 DEF Service, TypeOK
<1>4. outcome[r] = "none"
  BY DEF Service, FreshPods, Deploy
<1>5. FreshPods'
  BY <1>1, <1>3, PodGoesOn DEF Deploy
<1>6. TypeOK'
  <2>1. pod' \in [Run -> {"none", "created", "deploying", "reporting",
                          "stopping", "ended", "killed"}]
    BY DEF Service, TypeOK, Deploy
  <2>2. outcome' \in [Run -> {"none", "ok", "ko"}]
    BY <1>2 DEF Service, TypeOK
  <2>. QED
    BY <1>1, <2>1, <2>2, SaysType DEF Service, TypeOK, Deploy
<1>7. Backed' /\ Patient' /\ SuccessIsEarned'
  BY <1>1, <1>3, <1>4 DEF Service, Backed, Patient, SuccessIsEarned
<1>. QED
  BY <1>5, <1>6, <1>7 DEF Service

LEMMA ReportStep ==
  ASSUME Service, NEW r \in Run, Report(r) PROVE Service'
<1>1. UNCHANGED <<client, request, job, outcome, log, clock, tail>>
  BY DEF Report
<1>2. FreshPods'
  BY <1>1, PodGoesOn DEF Report
<1>3. TypeOK'
  <2>1. pod' \in [Run -> {"none", "created", "deploying", "reporting",
                          "stopping", "ended", "killed"}]
    BY DEF Service, TypeOK, Report
  <2>2. outcome[r] \in {"none", "loading", "ok", "ko"}
    BY DEF Service, TypeOK
  <2>. QED
    BY <1>1, <2>1, <2>2, PostedType DEF Service, TypeOK, Report
<1>4. Backed'
  BY <1>1, StillBacked DEF Service, TypeOK, Report
<1>5. Patient' /\ SuccessIsEarned'
  BY <1>1 DEF Service, Patient, SuccessIsEarned
<1>. QED
  BY <1>2, <1>3, <1>4, <1>5 DEF Service

LEMMA StopStep ==
  ASSUME Service, NEW r \in Run, Stop(r) PROVE Service'
<1>. DEFINE word == IF outcome[r] = "ok" THEN "ok" ELSE "ko"
<1>1. UNCHANGED <<client, request, job, outcome, log, clock, tail>>
  BY DEF Stop
<1>2. FreshPods'
  BY <1>1, PodGoesOn DEF Stop
<1>3. Posts(r, word) /\ word \in {"none", "loading", "ok", "ko"}
  BY DEF Stop
<1>4. TypeOK'
  <2>1. pod' \in [Run -> {"none", "created", "deploying", "reporting",
                          "stopping", "ended", "killed"}]
    BY DEF Service, TypeOK, Stop
  <2>2. status' \in [Commit -> {"none", "loading", "ok", "ko"}]
    BY <1>3, PostedType DEF Service
  <2>. QED
    BY <1>1, <2>1, <2>2 DEF Service, TypeOK
<1>5. Backed'
  BY <1>1, <1>3, StillBacked DEF Service, TypeOK
<1>6. Patient' /\ SuccessIsEarned'
  BY <1>1 DEF Service, Patient, SuccessIsEarned
<1>. QED
  BY <1>2, <1>4, <1>5, <1>6 DEF Service

LEMMA PodSteps ==
  ASSUME Service, NEW r \in Run, PodStep(r) PROVE Service'
BY StartStep, DeployStep, ReportStep, StopStep DEF PodStep

-----------------------------------------------------------------------------
\* The command of a client moves: what the service knows stays as it is.
LEMMA MoveFrame ==
  ASSUME Service, NEW c \in Client, UNCHANGED <<request, cluster, status>>,
         NEW to \in Following \union Ended, Move(c, to),
         tail' \in [Client -> TailState],
         Patient',
         to = "ok" => SuccessIsEarned'
  PROVE  Service'
<1>1. \A d \in Client : client'[d] = IF d = c THEN to ELSE client[d]
  BY DEF Service, TypeOK, Move
<1>2. TypeOK'
  <2>1. client' \in [Client -> {"posting"} \union Following \union Ended]
    BY DEF Service, TypeOK, Move
  <2>. QED
    BY <2>1 DEF Service, TypeOK, cluster
<1>3. FreshPods' /\ Backed'
  <2>1. \A d \in Client : client'[d] = "posting" => client[d] = "posting"
    BY <1>1 DEF Following, Ended
  <2>2. FreshPods'
    BY <2>1 DEF Service, FreshPods, cluster
  <2>3. Backed'
    BY DEF Service, Backed, cluster
  <2>. QED
    BY <2>2, <2>3
<1>4. SuccessIsEarned'
  BY <1>1 DEF Service, SuccessIsEarned, cluster
<1>. QED
  BY <1>2, <1>3, <1>4 DEF Service

\* The same, when the tail is as it was.
LEMMA MoveOnly ==
  ASSUME Service, NEW c \in Client, UNCHANGED <<request, cluster, status, tail>>,
         NEW to \in Following \union Ended, Move(c, to),
         to \in {"waiting", "reading", "checking"} =>
           client[c] \in {"waiting", "reading", "checking"},
         to = "ok" => SuccessIsEarned'
  PROVE  Service'
<1>1. \A d \in Client : client'[d] = IF d = c THEN to ELSE client[d]
  BY DEF Service, TypeOK, Move
<1>2. Patient'
  BY <1>1 DEF Service, Patient, Following, Ended
<1>3. tail' \in [Client -> TailState]
  BY DEF Service, TypeOK
<1>. QED
  BY <1>2, <1>3, MoveFrame

\* Only the tail changes, and not its turns.
LEMMA TailFrame ==
  ASSUME Service, NEW c \in Client, UNCHANGED <<client, request, cluster, status>>,
         NEW t \in TailState,
         tail' = [tail EXCEPT ![c] = t], t.turns = tail[c].turns
  PROVE  Service'
<1>1. TypeOK'
  BY DEF Service, TypeOK, cluster
<1>2. Patient'
  BY DEF Service, TypeOK, Patient
<1>3. FreshPods' /\ Backed' /\ SuccessIsEarned'
  BY DEF Service, FreshPods, Backed, SuccessIsEarned, cluster
<1>. QED
  BY <1>1, <1>2, <1>3 DEF Service

LEMMA AskStep ==
  ASSUME Service, NEW c \in Client, AskStatus(c) PROVE Service'
<1>1. CASE Succeeded(CommitOf[c]) /\ Move(c, "ok")
  <2>1. PICK r \in Run : CommitOf[r] = CommitOf[c] /\ outcome[r] = "ok"
    BY <1>1, Types DEF Service, Backed, Succeeded
  <2>2. \A d \in Client : client'[d] = IF d = c THEN "ok" ELSE client[d]
    BY <1>1 DEF Service, TypeOK, Move
  <2>3. SuccessIsEarned'
    BY <2>1, <2>2 DEF Service, SuccessIsEarned, AskStatus, cluster
  <2>. QED
    BY <1>1, <2>3, MoveOnly DEF AskStatus, Ended
<1>2. CASE Move(c, "disavowing")
  BY <1>2, MoveOnly DEF AskStatus, Following
<1>. QED
  BY <1>1, <1>2 DEF AskStatus

LEMMA DisavowStep ==
  ASSUME Service, NEW c \in Client, Disavow(c) PROVE Service'
<1>1. UNCHANGED <<request, job, pod, outcome, log, clock, tail>>
  BY DEF Disavow, cluster
<1>2. \A d \in Client : client'[d] = IF d = c THEN "failed" ELSE client[d]
  BY DEF Service, TypeOK, Disavow, Move
<1>3. c \in Run /\ Posts(c, "ko")
  BY Types DEF Disavow
<1>4. TypeOK'
  <2>1. client' \in [Client -> {"posting"} \union Following \union Ended]
    BY DEF Service, TypeOK, Disavow, Move, Ended
  <2>2. status' \in [Commit -> {"none", "loading", "ok", "ko"}]
    BY <1>3, PostedType DEF Service
  <2>. QED
    BY <1>1, <2>1, <2>2 DEF Service, TypeOK
<1>5. Backed'
  BY <1>1, <1>3, StillBacked DEF Service, TypeOK
<1>6. FreshPods' /\ Patient' /\ SuccessIsEarned'
  BY <1>1, <1>2 DEF Service, FreshPods, Patient, SuccessIsEarned
<1>. QED
  BY <1>4, <1>5, <1>6 DEF Service

\* What is shown by reading one word more.
LEMMA WrittenType ==
  ASSUME NEW word \in Nat,
         NEW t \in TailState
  PROVE  /\ Written(t, word) \in TailState
         /\ Written(t, word).turns = t.turns
<1>1. CASE word <= t.last
  BY <1>1 DEF Written
<1>2. CASE ~(word <= t.last)
  <2>1. Append(t.shown, word) \in Seq(Nat)
    OBVIOUS
  <2>2. Written(t, word) = [t EXCEPT !.last = word, !.shown = Append(t.shown, word)]
    BY <1>2 DEF Written
  <2>. QED
    BY <2>1, <2>2
<1>. QED
  BY <1>1, <1>2

\* The pieces of a line, and what reading them leaves in the tail.
ReadTo(t, p) ==
  LET after == Written(t, p[1]) IN
  [(IF Len(p) = 1 THEN after ELSE Written(after, p[2])) EXCEPT !.read = @ + 1]

LEMMA PiecesType ==
  ASSUME NEW line \in Nat, NEW p \in Pieces(line)
  PROVE  /\ Len(p) \in {1, 2} /\ p[1] \in Nat
         /\ Len(p) # 1 => p[2] \in Nat
BY DEF Pieces, Word

LEMMA ReadToType ==
  ASSUME NEW line \in Nat, NEW p \in Pieces(line),
         NEW t \in TailState
  PROVE  /\ ReadTo(t, p) \in TailState
         /\ ReadTo(t, p).turns = t.turns
<1>. DEFINE after == Written(t, p[1])
            final == IF Len(p) = 1 THEN after ELSE Written(after, p[2])
<1>1. /\ after \in TailState
      /\ after.turns = t.turns
  BY PiecesType, WrittenType
<1>2. /\ final \in TailState
      /\ final.turns = t.turns
  <2>1. CASE Len(p) = 1
    BY <1>1, <2>1
  <2>2. CASE Len(p) # 1
    BY <1>1, <2>2, PiecesType, WrittenType
  <2>. QED
    BY <2>1, <2>2
<1>3. ReadTo(t, p) = [final EXCEPT !.read = final.read + 1]
  BY DEF ReadTo
<1>. HIDE DEF final
<1>4. final.read + 1 \in Nat
  BY <1>2
<1>. QED
  BY <1>2, <1>3, <1>4

LEMMA AttachStep ==
  ASSUME Service, NEW c \in Client, Attach(c) PROVE Service'
<1>. DEFINE r == job[HashOf[c]]
<1>1. r \in Run
  BY Types DEF Service, TypeOK, Attach
<1>2. PICK n \in 0..Len(log[r]) : tail' = [tail EXCEPT ![c].on = r, ![c].read = n]
  BY DEF Attach
<1>3. n \in Nat
  BY <1>1 DEF Service, TypeOK
<1>. DEFINE t == [tail[c] EXCEPT !.on = r, !.read = n]
<1>4. tail' = [tail EXCEPT ![c] = t]
  BY <1>2 DEF Service, TypeOK
<1>5. /\ t \in TailState
      /\ t.turns = tail[c].turns
  BY <1>1, <1>3 DEF Service, TypeOK
<1>. HIDE DEF t
<1>. QED
  BY <1>4, <1>5, TailFrame DEF Attach

LEMMA ReadLineStep ==
  ASSUME Service, NEW c \in Client, ReadLine(c) PROVE Service'
<1>. DEFINE t == tail[c]
            line == log[t.on][t.read + 1]
<1>1. t \in TailState
  BY DEF Service, TypeOK
<1>2. line \in Nat
  <2>1. log[t.on] \in Seq(Nat)
    BY <1>1 DEF Service, TypeOK, ReadLine
  <2>. QED
    BY <1>1, <2>1 DEF ReadLine
<1>3. PICK p \in Pieces(line) : tail' = [tail EXCEPT ![c] = ReadTo(t, p)]
  BY DEF ReadLine, ReadTo
<1>. QED
  BY <1>1, <1>2, <1>3, ReadToType, TailFrame DEF ReadLine

LEMMA LoseStep ==
  ASSUME Service, NEW c \in Client, Lose(c) PROVE Service'
<1>. DEFINE t == [tail[c] EXCEPT !.on = NoRun, !.read = 0, !.tries = tail[c].tries + 1]
<1>1. tail[c] \in TailState /\ tail[c].tries + 1 \in 0..MaxTries
  BY DEF Service, TypeOK, Lose
<1>2. tail' = [tail EXCEPT ![c] = t]
  BY DEF Service, TypeOK, Lose
<1>3. t \in TailState /\ t.turns = tail[c].turns
  BY <1>1
<1>. HIDE DEF t
<1>. QED
  BY <1>2, <1>3, TailFrame DEF Lose

LEMMA LogEndsStep ==
  ASSUME Service, NEW c \in Client, LogEnds(c) PROVE Service'
<1>. DEFINE t == [tail[c] EXCEPT !.on = NoRun, !.read = 0]
<1>0. tail' = [tail EXCEPT ![c] = t]
  BY DEF Service, TypeOK, LogEnds
<1>1. tail' \in [Client -> TailState]
  <2>1. t \in TailState
    BY DEF Service, TypeOK
  <2>. HIDE DEF t
  <2>. QED
    BY <1>0, <2>1 DEF Service, TypeOK
<1>2. \A d \in Client : tail'[d].turns = tail[d].turns
  BY <1>0 DEF Service, TypeOK
<1>3. Patient'
  BY <1>2 DEF Service, TypeOK, Patient, LogEnds, Move
<1>. QED
  BY <1>1, <1>3, MoveFrame DEF LogEnds, Following

LEMMA CheckStep ==
  ASSUME Service, NEW c \in Client, Check(c) PROVE Service'
<1>. DEFINE more == tail[c].turns + 1 < MaxTurns
            to == IF Inactive(job[HashOf[c]]) \/ tail[c].turns + 1 >= MaxTurns
                    THEN "asking" ELSE "reading"
<1>1. tail[c].turns \in 0..MaxTurns /\ tail[c].turns < MaxTurns
  BY DEF Service, TypeOK, Patient, Check
<1>. DEFINE t == [tail[c] EXCEPT !.turns = tail[c].turns + 1, !.tries = 0]
<1>2. tail' = [tail EXCEPT ![c] = t]
  BY DEF Service, TypeOK, Check
<1>3. tail' \in [Client -> TailState]
  <2>0. tail[c].turns + 1 \in 0..MaxTurns
    BY <1>1
  <2>1. t \in TailState
    <3>1. tail[c] \in TailState
      BY DEF Service, TypeOK
    <3>2. tail[c].turns + 1 \in 0..MaxTurns /\ 0 \in 0..MaxTries
      BY <2>0
    <3>. HIDE DEF TailState
    <3>. QED
      BY <3>1, <3>2 DEF TailState
  <2>. HIDE DEF t
  <2>. QED
    BY <1>2, <2>1 DEF Service, TypeOK
<1>4. Move(c, to) /\ to \in Following /\ to # "ok"
  BY DEF Check, Following
<1>5. to = "reading" => more
  BY <1>1
<1>6. Patient'
  <2>1. \A d \in Client : client'[d] = IF d = c THEN to ELSE client[d]
    BY <1>4 DEF Service, TypeOK, Move
  <2>2. \A d \in Client : tail'[d].turns = IF d = c THEN tail[c].turns + 1
                                           ELSE tail[d].turns
    BY <1>2 DEF Service, TypeOK
  <2>3. to \in {"asking", "reading"}
    OBVIOUS
  <2>. HIDE DEF to
  <2>. QED
    BY <1>5, <2>1, <2>2, <2>3 DEF Service, Patient
<1>. HIDE DEF to
<1>. QED
  BY <1>3, <1>4, <1>6, MoveFrame DEF Check

LEMMA FindStep ==
  ASSUME Service, NEW c \in Client, Find(c) PROVE Service'
BY MoveOnly DEF Find, Following

LEMMA BreakStep ==
  ASSUME Service, NEW c \in Client, Break(c) PROVE Service'
BY MoveOnly DEF Break, Ended

LEMMA ServiceNext == Service /\ [Next]_vars => Service'
<1>. SUFFICES ASSUME Service, [Next]_vars PROVE Service'
  OBVIOUS
<1>1. CASE UNCHANGED vars
  BY <1>1 DEF vars, Service, TypeOK, FreshPods, Backed, Patient, SuccessIsEarned
<1>2. CASE Clean
  BY <1>2, CleanStep
<1>3. ASSUME NEW r \in Run, PodStep(r) PROVE Service'
  BY <1>3, PodSteps
<1>4. ASSUME NEW c \in Client, Post(c) \/ Serve(c) PROVE Service'
  BY <1>4, PostStep, DeleteStep, ApplyStep, DropStep DEF Serve
<1>5. ASSUME NEW c \in Client, Command(c) PROVE Service'
  BY <1>5, FindStep, AttachStep, ReadLineStep, LoseStep, LogEndsStep, CheckStep, BreakStep,
     AskStep, DisavowStep DEF Command
<1>. QED
  BY <1>1, <1>2, <1>3, <1>4, <1>5 DEF Next

\* The types of the state, and Patient: a tail is tried MaxTurns times at most.
THEOREM TypeCorrect == Spec => []TypeOK
<1>1. Service => TypeOK
  BY DEF Service
<1>. QED
  BY InitService, ServiceNext, <1>1, PTL DEF Spec

\* A client that followed its deployment exits with 0 only if a deployment of
\* its commit succeeded (deploy-on-webhook.js:127-134), whatever requests,
\* Jobs, posts of statuses and cleanings come in between.
THEOREM OnlyEarnedSuccess == Spec => []SuccessIsEarned
<1>1. Service => SuccessIsEarned
  BY DEF Service
<1>. QED
  BY InitService, ServiceNext, <1>1, PTL DEF Spec

-----------------------------------------------------------------------------
(* The tail.                                                                *)

LEMMA WrittenInOrder ==
  ASSUME NEW word \in Nat,
         NEW t \in TailState,
         InOrder(t)
  PROVE  InOrder(Written(t, word))
<1>0. t.last \in Nat /\ t.shown \in Seq(Nat)
  OBVIOUS
<1>. HIDE DEF TailState
<1>1. CASE word <= t.last
  BY <1>1 DEF Written
<1>2. CASE ~(word <= t.last)
  <2>. DEFINE more == Append(t.shown, word)
  <2>1. /\ Written(t, word).shown = more
        /\ Written(t, word).last = word
    BY <1>2 DEF Written, TailState
  <2>2. /\ DOMAIN more = 1..(Len(t.shown) + 1)
        /\ DOMAIN t.shown = 1..Len(t.shown)
        /\ Len(t.shown) \in Nat
        /\ \A i \in DOMAIN t.shown : more[i] = t.shown[i] /\ t.shown[i] \in Nat
        /\ more[Len(t.shown) + 1] = word
    BY <1>0
  <2>. HIDE DEF more
  <2>3. ASSUME NEW i \in DOMAIN more PROVE more[i] <= word
    BY <1>0, <1>2, <2>2, <2>3 DEF InOrder
  <2>4. ASSUME NEW i \in DOMAIN more, NEW j \in DOMAIN more, i < j
        PROVE  more[i] < more[j]
    <3>1. i \in DOMAIN t.shown
      BY <2>2, <2>4
    <3>2. CASE j = Len(t.shown) + 1
      BY <1>0, <1>2, <2>2, <3>1, <3>2 DEF InOrder
    <3>3. CASE j # Len(t.shown) + 1
      BY <1>0, <2>2, <2>4, <3>1, <3>3 DEF InOrder
    <3>. QED
      BY <3>2, <3>3
  <2>. QED
    BY <2>1, <2>3, <2>4 DEF InOrder
<1>. QED
  BY <1>1, <1>2

LEMMA ReadToInOrder ==
  ASSUME NEW line \in Nat, NEW p \in Pieces(line),
         NEW t \in TailState,
         InOrder(t)
  PROVE  InOrder(ReadTo(t, p))
<1>. DEFINE after == Written(t, p[1])
            final == IF Len(p) = 1 THEN after ELSE Written(after, p[2])
<1>1. /\ after \in TailState
      /\ InOrder(after)
  BY PiecesType, WrittenType, WrittenInOrder
<1>2. /\ final \in TailState
      /\ InOrder(final)
  <2>1. CASE Len(p) = 1
    BY <1>1, <2>1
  <2>2. CASE Len(p) # 1
    BY <1>1, <2>2, PiecesType, WrittenType, WrittenInOrder
  <2>. QED
    BY <2>1, <2>2
<1>3. ReadTo(t, p) = [final EXCEPT !.read = final.read + 1]
  BY DEF ReadTo
<1>. HIDE DEF final
<1>4. ReadTo(t, p).shown = final.shown /\ ReadTo(t, p).last = final.last
  BY <1>2, <1>3
<1>. QED
  BY <1>2, <1>4 DEF InOrder

\* What a command does besides reading leaves what was shown as it is.
LEMMA SameShown ==
  ASSUME LastIsLast,
         \A d \in Client : /\ tail'[d].shown = tail[d].shown
                           /\ tail'[d].last = tail[d].last
  PROVE  LastIsLast'
BY DEF LastIsLast, InOrder

LEMMA CommandInOrder ==
  ASSUME Service, LastIsLast, NEW c \in Client, Command(c) PROVE LastIsLast'
<1>1. CASE Find(c) \/ Break(c) \/ AskStatus(c) \/ Disavow(c)
  <2>1. UNCHANGED tail
    BY <1>1 DEF Find, Break, AskStatus, Disavow
  <2>. QED
    BY <2>1, SameShown
<1>2. CASE Attach(c) \/ Lose(c) \/ LogEnds(c) \/ Check(c)
  <2>. DEFINE Same(d) == tail'[d].shown = tail[d].shown /\ tail'[d].last = tail[d].last
  <2>1. CASE Attach(c)
    <3>1. PICK r, n : tail' = [tail EXCEPT ![c].on = r, ![c].read = n]
      BY <2>1 DEF Attach
    <3>2. \A d \in Client : Same(d)
      BY <3>1 DEF Service, TypeOK
    <3>. QED
      BY <3>2, SameShown
  <2>2. CASE LogEnds(c)
    <3>1. \A d \in Client : Same(d)
      BY <2>2 DEF Service, TypeOK, LogEnds
    <3>. QED
      BY <3>1, SameShown
  <2>3. CASE Check(c)
    <3>1. \A d \in Client : Same(d)
      BY <2>3 DEF Service, TypeOK, Check
    <3>. QED
      BY <3>1, SameShown
  <2>4. CASE Lose(c)
    <3>1. \A d \in Client : Same(d)
      BY <2>4 DEF Service, TypeOK, Lose
    <3>. QED
      BY <3>1, SameShown
  <2>. QED
    BY <1>2, <2>1, <2>2, <2>3, <2>4
<1>3. CASE ReadLine(c)
  <2>. DEFINE t == tail[c]
              line == log[t.on][t.read + 1]
  <2>1. t \in TailState
    BY DEF Service, TypeOK
  <2>2. line \in Nat
    <3>1. log[t.on] \in Seq(Nat)
      BY <1>3, <2>1 DEF Service, TypeOK, ReadLine
    <3>. QED
      BY <1>3, <2>1, <3>1 DEF ReadLine
  <2>3. PICK p \in Pieces(line) : tail' = [tail EXCEPT ![c] = ReadTo(t, p)]
    BY <1>3 DEF ReadLine, ReadTo
  <2>4. InOrder(ReadTo(t, p))
    BY <2>1, <2>2, ReadToInOrder DEF LastIsLast
  <2>5. \A d \in Client : tail'[d] = IF d = c THEN ReadTo(t, p) ELSE tail[d]
    BY <2>3 DEF Service, TypeOK
  <2>6. \A d \in Client : InOrder(tail'[d])
    BY <2>4, <2>5 DEF LastIsLast
  <2>. QED
    BY <2>6 DEF LastIsLast, InOrder
<1>. QED
  BY <1>1, <1>2, <1>3 DEF Command

LEMMA OrderNext == Service /\ LastIsLast /\ [Next]_vars => LastIsLast'
<1>. SUFFICES ASSUME Service, LastIsLast, [Next]_vars PROVE LastIsLast'
  OBVIOUS
<1>1. ASSUME NEW c \in Client, Command(c) PROVE LastIsLast'
  BY <1>1, CommandInOrder
<1>2. ASSUME UNCHANGED tail PROVE LastIsLast'
  BY <1>2, SameShown
<1>3. ASSUME NEW c \in Client, Post(c) \/ Serve(c) PROVE UNCHANGED tail
  BY <1>3 DEF Post, Serve, Delete, Apply, Drop
<1>4. ASSUME NEW r \in Run, PodStep(r) PROVE UNCHANGED tail
  BY <1>4 DEF PodStep, Start, Deploy, Report, Stop
<1>5. Clean \/ UNCHANGED vars => UNCHANGED tail
  BY DEF Clean, vars
<1>. QED
  BY <1>1, <1>2, <1>3, <1>4, <1>5 DEF Next

\* However often the tail attaches again and wherever its chunks are cut, a
\* line is never shown twice, nor before an older one (kubejob-tail.js:49-60).
THEOREM TailInOrder == Spec => []ShownOnceInOrder
<1>1. Init => LastIsLast
  <2>1. NoTail.shown = <<>> /\ DOMAIN NoTail.shown = {}
    BY DEF NoTail
  <2>2. InOrder(NoTail)
    BY <2>1 DEF InOrder
  <2>3. ASSUME Init PROVE \A c \in Client : tail[c] = NoTail
    <3>1. tail = [c \in Client |-> NoTail]
      BY <2>3 DEF Init
    <3>. QED
      BY <3>1
  <2>. QED
    BY <2>2, <2>3 DEF LastIsLast
<1>2. LastIsLast => ShownOnceInOrder
  BY DEF LastIsLast, InOrder, ShownOnceInOrder
<1>. QED
  BY InitService, ServiceNext, OrderNext, <1>1, <1>2, PTL DEF Spec

=============================================================================
