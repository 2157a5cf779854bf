----------------------------- MODULE DeployOrder ----------------------------
(***************************************************************************)
(* What a user of "~needs" may rely on, whatever the deployer does inside: *)
(* the manifests of a deployment are put on the cluster in an order that   *)
(* respects their needs, a manifest is begun at most once, it can be ready *)
(* only after it was begun, and the run gives one verdict, a success only  *)
(* if it began every manifest.                                             *)
(***************************************************************************)
CONSTANTS
  Manifest,  \* the manifests of the deployment
  Need       \* Need[m]: the manifests m must wait for

VARIABLES
  begun,     \* manifests the deployer started to put on the cluster
  ready,     \* manifests whose resource was reported ready
  verdict    \* "pending", "success" or "fail"

vars == <<begun, ready, verdict>>

Init == begun = {} /\ ready = {} /\ verdict = "pending"

\* With begun = Manifest \ {m}, m is the last: a run that watches nothing can
\* succeed in the same step in which it becomes ready.
Begin(m) ==
  /\ m \notin begun
  /\ Need[m] \subseteq ready
  /\ begun' = begun \union {m}
  /\ UNCHANGED <<ready, verdict>>

Report(m) ==
  /\ m \in begun \ ready
  /\ ready' = ready \union {m}
  /\ verdict' \in {verdict} \union
       {v \in {"success"} : verdict = "pending" /\ begun = Manifest}
  /\ UNCHANGED begun

Succeed ==
  /\ verdict = "pending" /\ begun = Manifest
  /\ verdict' = "success"
  /\ UNCHANGED <<begun, ready>>

Fail ==
  /\ verdict = "pending"
  /\ verdict' = "fail"
  /\ UNCHANGED <<begun, ready>>

Next ==
  \/ \E m \in Manifest : Begin(m)
  \/ \E m \in Manifest : Report(m)
  \/ Succeed
  \/ Fail

Spec == Init /\ [][Next]_vars

=============================================================================
