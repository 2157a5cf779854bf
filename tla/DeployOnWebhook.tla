--------------------------- MODULE DeployOnWebhook ---------------------------
(***************************************************************************)
(* "kontinuous deploy --on-webhook" (deploy/deploy-on-webhook.js): the     *)
(* client hands its manifests to the webhook service, which answers 202    *)
(* and replaces, without waiting, the Job named after their hash; the pod  *)
(* of the Job runs "kontinuous deploy -f" and posts its status to the      *)
(* service, under the commit of the client (the pod reads the client's     *)
(* deployConfig as its config file).  Meanwhile the client follows the log *)
(* of that Job (common/utils/kubejob-tail.js) and, once the tail ended,    *)
(* asks the service for the status.                                        *)
(*                                                                         *)
(* A run is a request of a client, its Job and its pod.  Nothing tells the *)
(* tail, or the status, one run of a hash or of a commit from another.     *)
(***************************************************************************)
EXTENDS Naturals, Sequences

CONSTANTS
  Client,    \* clients, each with one request
  Earlier,   \* runs of the last two days, ended before
  Detached,  \* clients that do not follow (--on-webhook-detach)
  HashOf,    \* the name of a run's Job
  CommitOf,  \* where a run's status is stored
  MaxTurns,  \* iterations of the tail: 11
  MaxTries   \* runs of kubectl logs in an iteration: 11

NoRun == "none"
Run == Client \union Earlier
Hash == {HashOf[r] : r \in Run}
Commit == {CommitOf[r] : r \in Run}

ASSUME OnWebhookType ==
  /\ Client \intersect Earlier = {} /\ Detached \subseteq Client
  /\ NoRun \notin Run
  /\ MaxTurns \in Nat \ {0} /\ MaxTries \in Nat \ {0}

VARIABLES
  client,   \* client[c]: the step its command is at, or its exit
  request,  \* request[c]: the un-awaited runJob() of the service
  job,      \* job[h]: the run whose Job has that name, or NoRun
  pod,      \* pod[r]: where the deployment in the pod is
  outcome,  \* outcome[r]: what that deployment came to
  status,   \* status[k]: status.json of the commit
  log,      \* log[r]: the timestamps of the lines of the pod
  clock,    \* the lines written by all the pods
  tail      \* tail[c]: kubejobTail on behalf of c

vars == <<client, request, job, pod, outcome, status, log, clock, tail>>
cluster == <<job, pod, outcome, log, clock>>

\* The run a tail is attached to, the lines of it that were read, lastTimestamp,
\* the lines written to the client, the turns taken, the runs that failed in
\* this one.
TailState == [on : Run \union {NoRun}, read : Nat, last : Nat, shown : Seq(Nat),
         turns : 0..MaxTurns, tries : 0..MaxTries]
NoTail == [on |-> NoRun, read |-> 0, last |-> 0, shown |-> <<>>, turns |-> 0,
           tries |-> 0]

\* Higher than every timestamp: a word of the text of a line.
Word == 100

Following == {"waiting", "reading", "checking", "asking", "disavowing"}
Ended == {"ok", "failed"}

TypeOK ==
  /\ client \in [Client -> {"posting"} \union Following \union Ended]
  /\ request \in [Client -> {"none", "deleting", "applying", "settled"}]
  /\ job \in [Hash -> Run \union {NoRun}]
  /\ pod \in [Run -> {"none", "created", "deploying", "reporting",
                      "stopping", "ended", "killed"}]
  /\ outcome \in [Run -> {"none", "ok", "ko"}]
  /\ status \in [Commit -> {"none", "loading", "ok", "ko"}]
  /\ log \in [Run -> Seq(Nat)] /\ clock \in Nat
  /\ tail \in [Client -> TailState]

\* An earlier run left its Job, until its two days are over, and its status,
\* unless it could not post it or the artifacts were cleaned.
Init ==
  /\ client = [c \in Client |-> "posting"]
  /\ request = [c \in Client |-> "none"]
  /\ outcome \in {o \in [Run -> {"none", "ok", "ko"}] :
                    \A r \in Run : o[r] = "none" <=> r \in Client}
  /\ job \in {j \in [Hash -> Earlier \union {NoRun}] :
                \A h \in Hash : j[h] # NoRun => HashOf[j[h]] = h}
  /\ status \in {s \in [Commit -> {"none", "ok", "ko"}] :
                   \A k \in Commit : s[k] # "none" =>
                     \E r \in Earlier : CommitOf[r] = k /\ outcome[r] = s[k]}
  /\ pod = [r \in Run |-> IF r \in Client THEN "none"
                          ELSE IF job[HashOf[r]] = r THEN "ended" ELSE "killed"]
  /\ log = [r \in Run |-> IF r \in Earlier THEN <<1>> ELSE <<>>]
  /\ clock = 1
  /\ tail = [c \in Client |-> NoTail]

-----------------------------------------------------------------------------
(* The service.                                                             *)

Move(c, to) == client' = [client EXCEPT ![c] = to]

\* The request is answered 202, or it is refused, declined or lost: an error
\* is only logged.  A detached client ends here.
Post(c) ==
  /\ client[c] = "posting"
  /\ \E as \in {"deleting", "none"} : request' = [request EXCEPT ![c] = as]
  /\ Move(c, IF c \in Detached THEN "ok" ELSE "waiting")
  /\ UNCHANGED <<cluster, status, tail>>

\* The Job of that name is deleted, whichever run it is of, and its pod told
\* to stop.
Delete(c) ==
  LET old == job[HashOf[c]] IN
  /\ request[c] = "deleting"
  /\ request' = [request EXCEPT ![c] = "applying"]
  /\ job' = [job EXCEPT ![HashOf[c]] = NoRun]
  /\ pod' = [r \in Run |->
               IF r # old THEN pod[r]
               ELSE IF pod[r] \in {"deploying", "reporting"} THEN "stopping"
               ELSE "killed"]
  /\ UNCHANGED <<client, outcome, status, log, clock, tail>>

\* A Job created in between by another request is left as it is.
Apply(c) ==
  LET h == HashOf[c] IN
  /\ request[c] = "applying"
  /\ request' = [request EXCEPT ![c] = "settled"]
  /\ IF job[h] = NoRun
       THEN /\ job' = [job EXCEPT ![h] = c]
            /\ pod' = [pod EXCEPT ![c] = "created"]
       ELSE UNCHANGED <<job, pod>>
  /\ UNCHANGED <<client, outcome, status, log, clock, tail>>

\* kubectl gives up, or the service restarts.
Drop(c) ==
  /\ request[c] \in {"deleting", "applying"}
  /\ request' = [request EXCEPT ![c] = "settled"]
  /\ UNCHANGED <<client, cluster, status, tail>>

\* cron/clean-artifact.js goes by the age of the directory of the project,
\* which does not change when a status is written deep inside it.
Clean ==
  /\ \E k \in Commit : status[k] # "none"
  /\ status' = [k \in Commit |-> "none"]
  /\ UNCHANGED <<client, request, cluster, tail>>

-----------------------------------------------------------------------------
(* The pod: kontinuous deploy -f manifests.yaml.                            *)

Says(r) == log' = [log EXCEPT ![r] = Append(@, clock + 1)] /\ clock' = clock + 1

\* setStatus returns false when its post fails, and nobody looks.
Posts(r, word) ==
  status' \in {status, [status EXCEPT ![CommitOf[r]] = word]}

Start(r) ==
  /\ pod[r] = "created"
  /\ pod' = [pod EXCEPT ![r] = "deploying"]
  /\ Posts(r, "loading") /\ Says(r)
  /\ UNCHANGED <<client, request, job, outcome, tail>>

Deploy(r) ==
  /\ pod[r] = "deploying"
  /\ pod' = [pod EXCEPT ![r] = "reporting"]
  /\ \E o \in {"ok", "ko"} : outcome' = [outcome EXCEPT ![r] = o]
  /\ Says(r)
  /\ UNCHANGED <<client, request, job, status, tail>>

Report(r) ==
  /\ pod[r] = "reporting"
  /\ pod' = [pod EXCEPT ![r] = "ended"]
  /\ Posts(r, outcome[r])
  /\ UNCHANGED <<client, request, job, outcome, log, clock, tail>>

\* The signal aborts the deployment, which then posts that it failed, if its
\* grace period lasts long enough.
Stop(r) ==
  /\ pod[r] = "stopping"
  /\ pod' = [pod EXCEPT ![r] = "killed"]
  /\ Posts(r, IF outcome[r] = "ok" THEN "ok" ELSE "ko")
  /\ UNCHANGED <<client, request, job, outcome, log, clock, tail>>

-----------------------------------------------------------------------------
(* The client: logs(), with --catch, then getStatus().                      *)

Logged(r) == pod[r] \in {"deploying", "reporting", "stopping", "ended"}

\* A pod of the Job's name runs or ended.  The selector has a commit too, the
\* same zeros for all.
Find(c) ==
  /\ client[c] = "waiting"
  /\ \E r \in Run : HashOf[r] = HashOf[c] /\ Logged(r)
  /\ Move(c, "reading")
  /\ UNCHANGED <<request, cluster, status, tail>>

\* kubectl logs job/<name>: from the start, then from 20 seconds ago, which
\* may leave out lines.
Attach(c) ==
  LET r == job[HashOf[c]] IN
  /\ client[c] = "reading" /\ tail[c].on = NoRun /\ r # NoRun /\ Logged(r)
  /\ \E n \in 0..Len(log[r]) :
       /\ tail[c].turns = 0 => n = 0
       /\ tail' = [tail EXCEPT ![c].on = r, ![c].read = n]
  /\ UNCHANGED <<client, request, cluster, status>>

\* Faulty variant: the lines that were read before are not compared with.
Rewritten(t, word) == [t EXCEPT !.last = word, !.shown = Append(@, word)]

\* A line is written to the client unless its first word, the timestamp, is
\* not higher than the last one.
Written(t, word) ==
  IF word <= t.last THEN t
  ELSE [t EXCEPT !.last = word, !.shown = Append(@, word)]

\* A chunk ends with a whole line, or in the middle of one: its rest comes
\* with the next chunk, and its own first word is taken for a timestamp.
Pieces(line) == {<<line>>, <<line, 0>>, <<line, Word>>, <<0>>}

ReadLine(c) ==
  LET t == tail[c] IN
  /\ client[c] = "reading" /\ t.on # NoRun /\ t.read < Len(log[t.on])
  /\ \E p \in Pieces(log[t.on][t.read + 1]) :
       LET after == Written(t, p[1]) IN
       tail' = [tail EXCEPT ![c] =
                  [(IF Len(p) = 1 THEN after ELSE Written(after, p[2]))
                     EXCEPT !.read = @ + 1]]
  /\ UNCHANGED <<client, request, cluster, status>>

\* The connection is lost: kubectl is run again, as it was.
Lose(c) ==
  /\ client[c] = "reading" /\ tail[c].on # NoRun
  /\ tail[c].tries + 1 < MaxTries
  /\ tail' = [tail EXCEPT ![c].on = NoRun, ![c].read = 0, ![c].tries = @ + 1]
  /\ UNCHANGED <<client, request, cluster, status>>

\* The log ends with its pod, or earlier: rotation.
LogEnds(c) ==
  /\ client[c] = "reading" /\ tail[c].on # NoRun
  /\ tail' = [tail EXCEPT ![c].on = NoRun, ![c].read = 0]
  /\ Move(c, "checking")
  /\ UNCHANGED <<request, cluster, status>>

\* status.active !== 1: the Job ended, or has no pod yet.
Inactive(r) == pod[r] \in {"created", "ended"}

Check(c) ==
  LET r == job[HashOf[c]]
      last == tail[c].turns + 1 >= MaxTurns IN
  /\ client[c] = "checking" /\ r # NoRun
  /\ tail' = [tail EXCEPT ![c].turns = @ + 1, ![c].tries = 0]
  /\ Move(c, IF Inactive(r) \/ last THEN "asking" ELSE "reading")
  /\ UNCHANGED <<request, cluster, status>>

\* Faulty variant: the wait for the pod has no limit.
WaitForEver(c) ==
  /\ client[c] \in {"reading", "checking"}
  /\ Move(c, "failed")
  /\ UNCHANGED <<request, cluster, status, tail>>

\* The pod or the Job is not found in time, kubectl fails for good, or the
\* stream to the client breaks: logs() exits the process.
Break(c) ==
  /\ client[c] \in {"waiting", "reading", "checking"}
  /\ Move(c, "failed")
  /\ UNCHANGED <<request, cluster, status, tail>>

-----------------------------------------------------------------------------
\* Faulty variant: "ok === false" instead of "ok !== true".
NotRefused(k) == status[k] # "ko"

Succeeded(k) == status[k] = "ok"

\* getStatus: anything else than true, no answer included, is a failure.  There
\* is a status URL, as there is for the clone of a repository.
AskStatus(c) ==
  /\ client[c] = "asking"
  /\ \/ Succeeded(CommitOf[c]) /\ Move(c, "ok")
     \/ Move(c, "disavowing")
  /\ UNCHANGED <<request, cluster, status, tail>>

\* The command posts its own failure, over the status of the pod.
Disavow(c) ==
  /\ client[c] = "disavowing"
  /\ Posts(c, "ko") /\ Move(c, "failed")
  /\ UNCHANGED <<request, cluster, tail>>

Serve(c) == Delete(c) \/ Apply(c) \/ Drop(c)
PodStep(r) == Start(r) \/ Deploy(r) \/ Report(r) \/ Stop(r)
Command(c) ==
  \/ Find(c) \/ Attach(c) \/ ReadLine(c) \/ Lose(c) \/ LogEnds(c) \/ Check(c)
  \/ Break(c) \/ AskStatus(c) \/ Disavow(c)

Next ==
  \/ \E c \in Client : Post(c) \/ Serve(c) \/ Command(c)
  \/ \E r \in Run : PodStep(r)
  \/ Clean

\* The command goes on until it exits: its waits and its tail are bounded.  The
\* service and the pods owe it nothing.
Fairness == \A c \in Client : WF_vars(Post(c)) /\ WF_vars(Command(c))

Spec == Init /\ [][Next]_vars /\ Fairness

-----------------------------------------------------------------------------
\* A client that followed its deployment exits with 0 only if a deployment of
\* its commit did succeed: its own, unless the commit was deployed before or
\* by another client (deploy-on-webhook.js:127-134).
SuccessIsEarned ==
  \A c \in Client \ Detached : client[c] = "ok" =>
    \E r \in Run : CommitOf[r] = CommitOf[c] /\ outcome[r] = "ok"

\* However often the tail attaches again, with an overlap, and wherever the
\* output is cut into chunks, no line is shown twice or before an older one
\* (kubejob-tail.js:49-60).
ShownOnceInOrder ==
  \A c \in Client : \A i, j \in DOMAIN tail[c].shown :
    i < j => tail[c].shown[i] < tail[c].shown[j]

\* The command ends, whatever becomes of the Job.
CommandEnds == \A c \in Client : <>(client[c] \in Ended)

=============================================================================
