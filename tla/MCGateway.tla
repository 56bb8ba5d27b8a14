----------------------------- MODULE MCGateway -----------------------------
EXTENDS Gateway, MCAgentCalls

\* The thread whose agent sends events.
MCBrowsers == {t \in QueryThreads : MCMaxEvents[t] > 0}
=============================================================================
