--------------------------- MODULE MCPipelineJobs ---------------------------
(* The hooks of a branch, "again" being a redelivery of the first commit; a   *)
(* follower that waits for the first commit.                                  *)
EXTENDS PipelineJobs

CONSTANTS first, again, second, c1, c2, ci

TwoCommits == [h \in Hook |-> IF h = second THEN c2 ELSE c1]
AllWantTheFirst == [f \in Follower |-> c1]

=============================================================================
