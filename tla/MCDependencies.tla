---------------------------- MODULE MCDependencies ----------------------------
(***************************************************************************)
(* What a query waits for: the agents behind their breakers, and the       *)
(* connections of PostgreSQL.  A query uses one after the other, so that   *)
(* they are checked side by side: one of them runs, while the other stays  *)
(* as it was created.                                                      *)
(***************************************************************************)
EXTENDS MCCircuitBreaker, ConnectionPool

VARIABLE part
dependencyVars == <<vars, poolVars, part>>

DependenciesInit == part \in {"breakers", "pool"} /\ Init /\ PoolInit

DependenciesNext ==
  /\ UNCHANGED part
  /\ \/ part = "breakers" /\ Next /\ UNCHANGED poolVars
     \/ part = "pool" /\ PoolNext /\ UNCHANGED vars

\* What is fair in a component is not enabled before its first step.
DependenciesSpec ==
  /\ DependenciesInit /\ [][DependenciesNext]_dependencyVars
  /\ BreakerFairness /\ PoolFairness
=============================================================================
