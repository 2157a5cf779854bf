------------------------- MODULE MCDeployLifecycle --------------------------
(* Two manifests, the second waits for the first.                           *)
EXTENDS DeployLifecycle

CONSTANTS db, app

Two == {db, app}
AppNeedsDb == [m \in Two |-> IF m = app THEN {db} ELSE {}]

=============================================================================
