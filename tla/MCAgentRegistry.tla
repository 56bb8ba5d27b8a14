-------------------------- MODULE MCAgentRegistry --------------------------
EXTENDS AgentRegistry, TLC

\* One registration has a skill more than the other.
MCProfiles == {{"s1"}, {"s1", "s2"}}
=============================================================================
