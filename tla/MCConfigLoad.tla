----------------------------- MODULE MCConfigLoad ----------------------------
(* Any two values of a few keys of each kind, given by any two layers, and   *)
(* what the pods of the webhook service are given.                           *)
EXTENDS ConfigLoad

CONSTANT Settable

\* An environment variable or an option exists for the keys whose row says so.
\* The dependencies are looked at on the command line only; elsewhere they are a
\* key without a row, as "webhook" is.
Place ==
  {p \in Layer \X Settable :
     p[1] \in {"env", "option"} =>
       p[2] \in TableKey /\ p[1] \in RowOf[p[2]].in}
  \union {"inline", "set"} \X {"dependencies"}

Pairs == {{}} \union {{p, q} : p \in Place, q \in Place}
Pods ==
  UNION {{PodGives(f), CustomPodGives(f)} : f \in SUBSET Feature}

PairsAndPods == Pairs \union Pods
=============================================================================
