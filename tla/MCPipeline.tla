------------------------------ MODULE MCPipeline -----------------------------
(***************************************************************************)
(* What the deployment of a pipeline starts from: the request that makes   *)
(* its Job, and the build in its pod.  They share no state, so that a      *)
(* behaviour is of one of them, and nothing is said of the two together.   *)
(***************************************************************************)
EXTENDS MCPipelineRequest, MCBuildPipeline

VARIABLE part  \* which of the two moves

MCPipelineVars == <<part, requestVars, buildVars>>

\* The part that does not move is at one of its beginnings.
MCPipelineInit ==
  \/ /\ part = "requests" /\ asked = (CHOOSE a \in Circles : TRUE)
     /\ BuildInit /\ RequestInit
  \/ /\ part = "build" /\ service = (CHOOSE s \in Service : TRUE)
     /\ RequestInit /\ BuildInit

Requests(action) == action /\ UNCHANGED <<part, buildVars>>
Build(action) == part = "build" /\ action /\ UNCHANGED <<part, requestVars>>

MCPipelineNext ==
  \/ part = "requests" /\ \E b \in Branch, s \in Setting : Requests(Push(b, s))
  \/ part = "requests" /\ \E b \in Branch : Requests(RemoveBranch(b))
  \/ /\ part = "requests"
     /\ \E e \in events, chart \in Chart \union {None} : Requests(Github(e, chart))
  \/ /\ part = "requests"
     /\ \E event \in {"pushed", "deleted"}, b \in Branch, commit \in Sha \union {0},
          env \in Env \union {None}, chart \in Chart \union {None} :
         Requests(User(event, b, commit, env, chart))
  \/ part = "requests" /\ \E hash \in Hash, env \in Env : Requests(Custom(hash, env))
  \/ part = "requests" /\ \E j \in jobs : Requests(JobExpires(j))
  \/ Build(DependenciesStep) \/ Build(CompileValues) \/ Build(ToolFails)
  \/ Build(HelmTemplate) \/ Build(ApplyPatches) \/ Build(PostRenderer)
  \/ Build(WriteManifests) \/ Build(Validators) \/ Build(DebugManifests)
  \/ Build(Abort) \/ Build(ThrowIfAborted) \/ Build(Ended)

MCPipelineSpec == MCPipelineInit /\ [][MCPipelineNext]_MCPipelineVars
=============================================================================
