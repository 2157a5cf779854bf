-------------------------- MODULE MCDeployOnWebhook --------------------------
(* The same manifests deployed again, and a third run of another hash.       *)
EXTENDS DeployOnWebhook

CONSTANTS again, other, before

SameHash == [r \in {again, other, before} |-> "h"]
SameCommit == [r \in {again, other, before} |-> IF r = other THEN "k2" ELSE "k1"]
=============================================================================
