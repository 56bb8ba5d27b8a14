---------------------------- MODULE MCAgentCalls ----------------------------
EXTENDS AgentCalls

\* One thread may serve a stream of up to two events, the other ones none.
MCMaxEvents == [t \in QueryThreads |-> IF t = CHOOSE u \in QueryThreads : TRUE THEN 2 ELSE 0]
=============================================================================
