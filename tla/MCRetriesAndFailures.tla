------------------------- MODULE MCRetriesAndFailures -------------------------
(***************************************************************************)
(* Where one step of several fails and is tried again: the durable         *)
(* pipeline of a query, the decisions about requests, and the client that  *)
(* moves to another server.  They share no state and are checked side by   *)
(* side: one of them runs, while the others stay as they were created.     *)
(***************************************************************************)
EXTENDS MCDurableQuery, Interventions, ClientFailover

VARIABLE part
partsVars == <<vars, interventionVars, failoverVars, part>>

PartsInit ==
  /\ part \in {"query", "interventions", "client"}
  /\ Init /\ InterventionInit /\ FailoverInit
  /\ part # "query" =>
       \A r, s \in Runs : args[r] = args[s] /\ args[r].mode = CHOOSE m \in Modes : TRUE

PartsNext ==
  /\ UNCHANGED part
  /\ \/ part = "query" /\ Next /\ UNCHANGED <<interventionVars, failoverVars>>
     \/ part = "interventions" /\ InterventionNext /\ UNCHANGED <<vars, failoverVars>>
     \/ part = "client" /\ FailoverNext /\ UNCHANGED <<vars, interventionVars>>

PartsSpec == PartsInit /\ [][PartsNext]_partsVars

PartsSymmetry == Symmetry \cup Permutations(Servers)
=============================================================================
