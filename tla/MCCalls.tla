------------------------------- MODULE MCCalls -------------------------------
(***************************************************************************)
(* Components whose operations take several steps.  They share no state    *)
(* and do not call each other, except that the gateway calls the service   *)
(* of AgentCalls, and are checked side by side: one of them runs, while    *)
(* the others stay as they were created.                                   *)
(***************************************************************************)
EXTENDS
  TaskStates, MCAgentRegistry, MCGateway, MCTaskExecutor,
  CompareRuns, ChatStore

VARIABLE part
callVars == <<taskVars, registryVars, gatewayVars, vars, compareVars,
              chatVars, part>>

CallsInit ==
  /\ part \in {"tasks", "registry", "agent", "gateway", "executor", "compare",
              "chat"}
  /\ TasksInit /\ RegistryInit /\ GatewayInit /\ CompareInit /\ ChatInit
  /\ (part \notin {"agent", "gateway"} => ~orchestrated)
  /\ Init /\ (part # "executor" => tasks = parsePlanResponse(OneSubtask))

\* The parts that do not run.
OthersStay ==
  /\ part # "tasks" => UNCHANGED taskVars
  /\ part # "registry" => UNCHANGED registryVars
  /\ part \notin {"agent", "gateway"} => UNCHANGED agentCallVars
  /\ part # "gateway" => UNCHANGED proxy
  /\ part # "executor" => UNCHANGED vars
  /\ part # "compare" => UNCHANGED compareVars
  /\ part # "chat" => UNCHANGED chatVars

CallsNext ==
  /\ UNCHANGED part /\ OthersStay
  /\ \/ part = "tasks" /\ TasksNext
     \/ part = "registry" /\ RegistryNext
     \/ part = "agent" /\ AgentCallsNext
     \/ part = "gateway" /\ GatewayNext
     \/ part = "executor" /\ Next
     \/ part = "compare" /\ CompareNext
     \/ part = "chat" /\ ChatNext

CallsSpec == CallsInit /\ [][CallsNext]_callVars

Symmetry == Permutations(Callers)
=============================================================================
