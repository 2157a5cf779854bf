---------------------------- MODULE WatchOutcome ----------------------------
(***************************************************************************)
(* What a deployer relies on when it awaits waitForResource: one answer,   *)
(* which never changes.  The watch says "ready" only while the resource is *)
(* ready, or while nothing matches the selector of a resource that is      *)
(* polled; it says "closed" only if somebody or something stopped it.      *)
(***************************************************************************)
VARIABLES
  polled,    \* whether the resource is polled by kubectl get
  resource,  \* the resource on the cluster
  stopped,   \* a signal, the timer or a kill stopped the watch
  result     \* "none", then "ready", "closed" or "failed"

vars == <<polled, resource, stopped, result>>

Resource == {"absent", "pending", "ready", "broken"}

Init ==
  /\ polled \in BOOLEAN
  /\ resource \in Resource
  /\ stopped \in BOOLEAN
  /\ result = "none"

\* What stopped the watch stays.
Stopping == stopped' \in {stopped, TRUE}

\* The cluster goes its way, and a stop may come.
Environment ==
  /\ resource' \in Resource /\ Stopping
  /\ UNCHANGED <<polled, result>>

Ready ==
  /\ result = "none" /\ result' = "ready"
  /\ resource = "ready" \/ (polled /\ resource = "absent")
  /\ Stopping /\ UNCHANGED <<polled, resource>>

Closed ==
  /\ result = "none" /\ result' = "closed"
  /\ stopped' = TRUE /\ UNCHANGED <<polled, resource>>

Failed ==
  /\ result = "none" /\ result' = "failed"
  /\ Stopping /\ UNCHANGED <<polled, resource>>

Next == Environment \/ Ready \/ Closed \/ Failed

Spec == Init /\ [][Next]_vars

=============================================================================
