------------------------------ MODULE MCThreads ------------------------------
(***************************************************************************)
(* Components that work all the time: the background scheduler, the        *)
(* clients of MCP servers, the agent service with its clean-up, and the    *)
(* aggregation of ratings.  They share no state and do not call each       *)
(* other, and are checked side by side: one of them runs, while the others *)
(* stay as they were created.                                              *)
(***************************************************************************)
EXTENDS BackgroundScheduler, McpSession, MCAgentRegistry, RouteQuality

VARIABLE part
threadVars == <<schedulerVars, mcpVars, registryVars, qualityVars, part>>

ThreadsInit ==
  /\ part \in {"scheduler", "mcp", "registry", "quality"}
  /\ SchedulerInit /\ McpInit /\ RegistryInit /\ QualityInit

\* The parts that do not run.
OthersStay ==
  /\ part # "scheduler" => UNCHANGED schedulerVars
  /\ part # "mcp" => UNCHANGED mcpVars
  /\ part # "registry" => UNCHANGED registryVars
  /\ part # "quality" => UNCHANGED qualityVars

ThreadsNext ==
  /\ UNCHANGED part /\ OthersStay
  /\ \/ part = "scheduler" /\ SchedulerNext
     \/ part = "mcp" /\ McpNext
     \/ part = "registry" /\ RegistryNext
     \/ part = "quality" /\ QualityNext

\* What is fair in a component is not enabled before its first step.
ThreadsSpec ==
  /\ ThreadsInit /\ [][ThreadsNext]_threadVars
  /\ SchedulerFairness /\ McpFairness /\ RegistryFairness /\ QualityFairness
=============================================================================
