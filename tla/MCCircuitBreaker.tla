-------------------------- MODULE MCCircuitBreaker --------------------------
EXTENDS CircuitBreaker, TLC

\* Without the multi-agent handler every query passes two breakers.
MCPaths == {<<"a2a_backend", "a2a_orchestrator">>}

Symmetry == Permutations(Callers)
=============================================================================
