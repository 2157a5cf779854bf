--------------------------- MODULE MCEventsBucket ---------------------------
(* Two names; two handlers on the first, one on the second. *)
EXTENDS EventsBucket, TLC

CONSTANTS ready, failed, dep1, dep2, other

MCName == {ready, failed}
MCHandler == {dep1, dep2, other}
MCNameOf == (dep1 :> ready) @@ (dep2 :> ready) @@ (other :> failed)
=============================================================================
