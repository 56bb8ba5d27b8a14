--------------------------- MODULE AgentRegistry ---------------------------
(***************************************************************************)
(* AgentCommunicationServiceImpl: which agents the platform knows.  It     *)
(* keeps them in memory, in the table agent_registry and in the router,    *)
(* and a call updates one copy after the other, without a lock between     *)
(* them.  An agent registers when it starts, sends heartbeats while it     *)
(* lives, and unregisters unless it dies; the clean-up thread removes the  *)
(* silent ones.  A client that waits no longer for an answer may call      *)
(* again while its earlier call goes on.  The liveness key in Redis is     *)
(* left out, as nothing reads it, and the index of tags, which is kept     *)
(* like that of skills.                                                    *)
(***************************************************************************)
EXTENDS Integers, Sequences, FiniteSets

CONSTANTS
  Agents, Callers, Listeners,
  Skills, Profiles,   \* the sets of skills an agent may register with
  Grace,              \* clean-up: the 300 seconds, in ticks
  MaxMessages,        \* bound: messages sent
  MaxFaults,          \* bound: failing transactions
  MaxRestarts         \* bound: restarts of the server

ASSUME ProfileAssumption == Profiles \subseteq SUBSET Skills
ASSUME RegistryBounds ==
  /\ Grace \in Nat /\ MaxMessages \in Nat /\ MaxFaults \in Nat /\ MaxRestarts \in Nat

VARIABLES
  alive,      \* the agent's process runs
  agents,     \* agents_
  queue,      \* agent_message_queues_
  index,      \* skills_index_
  health,     \* agent_registry.health_status
  route,      \* AgentRouter::agents_
  handling,   \* RegisterAgent and UnregisterAgent handlers
  beat,       \* the Heartbeat handler of each agent
  listener,   \* ListenMessages handlers, and what their clients got of each agent
  torn,       \* since a call for the agent began alone: another began, or a clean-up came halfway
  sent, faults, restarts
registryVars ==
  <<alive, agents, queue, index, health, route, handling, beat, listener, torn, sent, faults, restarts>>
memory == <<agents, queue, index>>
clients == <<listener, sent>>

Nothing == [skills |-> {}, age |-> 0, known |-> FALSE]
Endpoints == {Nothing} \cup [skills: Profiles, age: 0..Grace + 1, known: {TRUE}]
NoQueue == <<0>>
NoRoute == [skills |-> {}, known |-> FALSE]
Routes == {NoRoute} \cup [skills: Profiles, known: {TRUE}]
Messages == 1..MaxMessages
NoCall == [op |-> "none"]
CallSteps == {"memory", "row", "route"}
Handlings == {NoCall} \cup [op: {"unregister"}, agent: Agents, step: CallSteps]
           \cup [op: {"register"}, agent: Agents, step: CallSteps, skills: Profiles]

Known(a) == agents[a].known
CallsFor(a) == {c \in Callers : handling[c] # NoCall /\ handling[c].agent = a}
Quiet(a) == CallsFor(a) = {}

RegistryInit ==
  /\ alive = [a \in Agents |-> FALSE]
  /\ agents = [a \in Agents |-> Nothing]
  /\ queue = [a \in Agents |-> NoQueue]
  /\ index = [s \in Skills |-> {}]
  /\ health = [a \in Agents |-> "none"]
  /\ route = [a \in Agents |-> NoRoute]
  /\ handling = [c \in Callers |-> NoCall]
  /\ beat = [a \in Agents |-> "idle"]
  /\ listener = [l \in Listeners |-> [agent |-> "none", held |-> 0, heard |-> [a \in Agents |-> <<>>]]]
  /\ torn = [a \in Agents |-> FALSE]
  /\ sent = 0 /\ faults = 0 /\ restarts = 0
-----------------------------------------------------------------------------
(* Calls of agents.  Only one that is alive registers or unregisters. *)

Request(c, a, request) ==
  /\ handling[c] = NoCall /\ handling' = [handling EXCEPT ![c] = request]
  /\ torn' = [torn EXCEPT ![a] = ~Quiet(a)]
  /\ UNCHANGED <<memory, health, route, beat, clients, faults, restarts>>

Start(c) == \E a \in Agents, skills \in Profiles :
  /\ alive' = [alive EXCEPT ![a] = TRUE]
  /\ Request(c, a, [op |-> "register", agent |-> a, step |-> "memory", skills |-> skills])
Stop(c) == \E a \in Agents :
  /\ alive[a] /\ alive' = [alive EXCEPT ![a] = FALSE]
  /\ Request(c, a, [op |-> "unregister", agent |-> a, step |-> "memory"])

At(c, op, step) == handling[c] # NoCall /\ handling[c].op = op /\ handling[c].step = step
Proceeds(c, step) == handling' = [handling EXCEPT ![c].step = step]
Returns(c) == handling' = [handling EXCEPT ![c] = NoCall]

\* Mutant: the entries of an earlier registration are removed last.
ReplacesIndex(c) ==
  /\ At(c, "register", "memory")
  /\ LET a == handling[c].agent
         skills == handling[c].skills IN
       /\ agents' = [agents EXCEPT ![a] = [skills |-> skills, age |-> 0, known |-> TRUE]]
       /\ queue' = [queue EXCEPT ![a] = IF @ = NoQueue THEN <<>> ELSE @]
       /\ index' = [s \in Skills |-> (index[s] \cup (IF s \in skills THEN {a} ELSE {}))
                                       \ (IF s \in agents[a].skills THEN {a} ELSE {})]
  /\ Proceeds(c, "row")
  /\ UNCHANGED <<alive, health, route, beat, clients, torn, faults, restarts>>

\* Entries for skills of an earlier registration stay in the index.
RegisterMemory(c) ==
  /\ At(c, "register", "memory")
  /\ LET a == handling[c].agent
         skills == handling[c].skills IN
       /\ agents' = [agents EXCEPT ![a] = [skills |-> skills, age |-> 0, known |-> TRUE]]
       /\ queue' = [queue EXCEPT ![a] = IF @ = NoQueue THEN <<>> ELSE @]
       /\ index' = [s \in Skills |-> IF s \in skills THEN index[s] \cup {a} ELSE index[s]]
  /\ Proceeds(c, "row")
  /\ UNCHANGED <<alive, health, route, beat, clients, torn, faults, restarts>>

\* Mutant: a heartbeat does not insert a row that is missing.
UpdatesOnly(a, status) ==
  \/ health' = [health EXCEPT ![a] = IF @ = "none" /\ beat[a] = "row" THEN @ ELSE status] /\ UNCHANGED faults
  \/ faults < MaxFaults /\ faults' = faults + 1 /\ UNCHANGED health

\* A transaction on agent_registry; its failure is logged, and the call goes on.
Write(a, status) ==
  \/ health' = [health EXCEPT ![a] = status] /\ UNCHANGED faults
  \/ faults < MaxFaults /\ faults' = faults + 1 /\ UNCHANGED health

RegisterRow(c) ==
  /\ At(c, "register", "row")
  /\ Write(handling[c].agent, "healthy")
  /\ Proceeds(c, "route")
  /\ UNCHANGED <<alive, memory, route, beat, clients, torn, restarts>>

\* Mutant: the router is only told of agents it does not know.
AddsOnce(c) ==
  /\ At(c, "register", "route")
  /\ LET a == handling[c].agent IN
       route' = [route EXCEPT ![a] = IF @.known THEN @ ELSE [skills |-> handling[c].skills, known |-> TRUE]]
  /\ Returns(c)
  /\ UNCHANGED <<alive, memory, health, beat, clients, torn, faults, restarts>>

RegisterRoute(c) ==
  /\ At(c, "register", "route")
  /\ route' = [route EXCEPT ![handling[c].agent] = [skills |-> handling[c].skills, known |-> TRUE]]
  /\ Returns(c)
  /\ UNCHANGED <<alive, memory, health, beat, clients, torn, faults, restarts>>

\* What UnregisterAgent and the clean-up remove from memory.
Forget(gone) ==
  /\ index' = [s \in Skills |-> index[s] \ {a \in gone : s \in agents[a].skills}]
  /\ agents' = [a \in Agents |-> IF a \in gone THEN Nothing ELSE agents[a]]
  /\ queue' = [a \in Agents |-> IF a \in gone THEN NoQueue ELSE queue[a]]

UnregisterMemory(c) ==
  /\ At(c, "unregister", "memory")
  /\ Forget({handling[c].agent})
  /\ Proceeds(c, "row")
  /\ UNCHANGED <<alive, health, route, beat, clients, torn, faults, restarts>>
UnregisterRow(c) ==
  /\ At(c, "unregister", "row")
  /\ LET a == handling[c].agent IN Write(a, IF health[a] = "none" THEN "none" ELSE "offline")
  /\ Proceeds(c, "route")
  /\ UNCHANGED <<alive, memory, route, beat, clients, torn, restarts>>
UnregisterRoute(c) ==
  /\ At(c, "unregister", "route")
  /\ route' = [route EXCEPT ![handling[c].agent] = NoRoute]
  /\ Returns(c)
  /\ UNCHANGED <<alive, memory, health, beat, clients, torn, faults, restarts>>

\* Heartbeat: memory, then the table.  It is answered OK in any case.
HeartbeatMemory(a) ==
  /\ alive[a] /\ beat[a] = "idle"
  /\ agents' = [agents EXCEPT ![a] = IF @.known THEN [@ EXCEPT !.age = 0] ELSE @]
  /\ beat' = [beat EXCEPT ![a] = "row"]
  /\ UNCHANGED <<alive, queue, index, health, route, handling, clients, torn, faults, restarts>>
HeartbeatRow(a) ==
  /\ beat[a] = "row"
  /\ Write(a, "healthy")
  /\ beat' = [beat EXCEPT ![a] = "idle"]
  /\ UNCHANGED <<alive, memory, route, handling, clients, torn, restarts>>
-----------------------------------------------------------------------------
(* The clean-up thread, time, and what goes wrong. *)

Silent == {a \in Agents : Known(a) /\ agents[a].age > Grace}

\* A call that has written one copy but not the other.
Halfway(a) == \E c \in CallsFor(a) : handling[c].step # "memory"
Tears(gone) == torn' = [a \in Agents |-> torn[a] \/ (a \in gone /\ Halfway(a))]

\* Mutants: the router is not told, or the queue is kept.
KeepsRoutes ==
  /\ Silent # {}
  /\ Forget(Silent) /\ Tears(Silent)
  /\ UNCHANGED <<alive, health, route, handling, beat, clients, faults, restarts>>
KeepsQueues ==
  /\ Silent # {}
  /\ index' = [s \in Skills |-> index[s] \ {a \in Silent : s \in agents[a].skills}]
  /\ agents' = [a \in Agents |-> IF a \in Silent THEN Nothing ELSE agents[a]]
  /\ route' = [a \in Agents |-> IF a \in Silent THEN NoRoute ELSE route[a]]
  /\ Tears(Silent)
  /\ UNCHANGED <<alive, queue, health, handling, beat, clients, faults, restarts>>

cleanupOfflineAgents ==
  /\ Silent # {}
  /\ Forget(Silent) /\ Tears(Silent)
  /\ route' = [a \in Agents |-> IF a \in Silent THEN NoRoute ELSE route[a]]
  /\ UNCHANGED <<alive, health, handling, beat, clients, faults, restarts>>

\* An agent may turn silent while a call for it is under way.
Tick ==
  /\ agents' = [a \in Agents |->
       IF Known(a) /\ agents[a].age <= Grace THEN [agents[a] EXCEPT !.age = @ + 1] ELSE agents[a]]
  /\ UNCHANGED <<alive, queue, index, health, route, handling, beat, clients, torn, faults, restarts>>

Die(a) ==
  /\ alive[a] /\ alive' = [alive EXCEPT ![a] = FALSE]
  /\ UNCHANGED <<memory, health, route, handling, beat, clients, torn, faults, restarts>>

\* Memory and router are empty then; nothing is read back from the table.
ServerRestarts ==
  /\ restarts < MaxRestarts /\ restarts' = restarts + 1
  /\ agents' = [a \in Agents |-> Nothing]
  /\ queue' = [a \in Agents |-> NoQueue]
  /\ index' = [s \in Skills |-> {}]
  /\ route' = [a \in Agents |-> NoRoute]
  /\ handling' = [c \in Callers |-> NoCall]
  /\ beat' = [a \in Agents |-> "idle"]
  /\ listener' = [l \in Listeners |-> [listener[l] EXCEPT !.agent = "none", !.held = 0]]
  /\ torn' = [a \in Agents |-> FALSE]
  /\ UNCHANGED <<alive, health, sent, faults>>
-----------------------------------------------------------------------------
(* Messages. *)

messaging == <<alive, agents, index, health, route, handling, beat, torn, faults, restarts>>

\* SendMessage, BatchSendMessages and BroadcastMessage: pushed to each target
\* that is known.
Push(targets) ==
  /\ sent < MaxMessages /\ sent' = sent + 1
  /\ queue' = [a \in Agents |-> IF a \in targets /\ queue[a] # NoQueue
                                THEN Append(queue[a], sent + 1) ELSE queue[a]]
  /\ UNCHANGED <<messaging, listener>>
SendMessage == \E a \in Agents : queue[a] # NoQueue /\ Push({a})
BroadcastMessage == Push(Agents)

\* ReceiveMessage: some messages from the front, as many as the caller asks for.
ReceiveMessage(a) ==
  /\ queue[a] # NoQueue /\ queue[a] # <<>>
  /\ \E n \in 1..Len(queue[a]) : queue' = [queue EXCEPT ![a] = SubSeq(@, n + 1, Len(@))]
  /\ UNCHANGED <<messaging, listener, sent>>

ListenMessages(l) ==
  /\ listener[l].agent = "none"
  /\ \E a \in Agents : queue[a] # NoQueue /\ listener' = [listener EXCEPT ![l].agent = a]
  /\ UNCHANGED <<messaging, queue, sent>>

\* Mutant: the message is looked at but stays in the queue.
Peek(l) ==
  /\ LET a == listener[l].agent IN
       /\ listener[l].held = 0
       /\ a # "none" /\ queue[a] # NoQueue /\ queue[a] # <<>>
       /\ listener' = [listener EXCEPT ![l].held = Head(queue[a])]
  /\ UNCHANGED <<messaging, queue, sent>>

Take(l) ==
  /\ LET a == listener[l].agent IN
       /\ listener[l].held = 0
       /\ a # "none" /\ queue[a] # NoQueue /\ queue[a] # <<>>
       /\ listener' = [listener EXCEPT ![l].held = Head(queue[a])]
       /\ queue' = [queue EXCEPT ![a] = Tail(@)]
  /\ UNCHANGED <<messaging, sent>>

\* The message that cannot be written is lost, and the stream ends.
Deliver(l) ==
  /\ listener[l].held # 0
  /\ LET a == listener[l].agent IN
       listener' = [listener EXCEPT ![l].held = 0, ![l].heard[a] = Append(@, listener[l].held)]
  /\ UNCHANGED <<messaging, queue, sent>>
StopListening(l) ==
  /\ listener[l].agent # "none"
  /\ listener' = [listener EXCEPT ![l].agent = "none", ![l].held = 0]
  /\ UNCHANGED <<messaging, queue, sent>>
-----------------------------------------------------------------------------
CallStep(c) ==
  \/ RegisterMemory(c) \/ RegisterRow(c) \/ RegisterRoute(c)
  \/ UnregisterMemory(c) \/ UnregisterRow(c) \/ UnregisterRoute(c)
RegistryNext ==
  \/ \E c \in Callers : Start(c) \/ Stop(c) \/ CallStep(c)
  \/ \E a \in Agents : HeartbeatMemory(a) \/ HeartbeatRow(a) \/ Die(a) \/ ReceiveMessage(a)
  \/ \E l \in Listeners : ListenMessages(l) \/ Take(l) \/ Deliver(l) \/ StopListening(l)
  \/ SendMessage \/ BroadcastMessage
  \/ cleanupOfflineAgents \/ Tick \/ ServerRestarts

RegistrySpec == RegistryInit /\ [][RegistryNext]_registryVars
\* Threads run and transactions return; agents that live send heartbeats; the
\* clean-up thread looks again and again.
RegistryFairness ==
  /\ \A c \in Callers : WF_registryVars(CallStep(c))
  /\ \A a \in Agents : WF_registryVars(HeartbeatMemory(a)) /\ WF_registryVars(HeartbeatRow(a))
  /\ WF_registryVars(cleanupOfflineAgents) /\ WF_registryVars(Tick)
FairRegistrySpec == RegistrySpec /\ RegistryFairness
-----------------------------------------------------------------------------
\* Types; an agent has a queue exactly while it is known, so that a message is
\* accepted for agents that can receive it, and one registered again keeps its
\* messages (agent_service.cpp 349, 448, 110).
RegistryTypeOK ==
  /\ alive \in [Agents -> BOOLEAN]
  /\ agents \in [Agents -> Endpoints]
  /\ queue \in [Agents -> {NoQueue} \cup Seq(Messages)]
  /\ \A a \in Agents : Known(a) <=> queue[a] # NoQueue
  /\ index \in [Skills -> SUBSET Agents]
  /\ health \in [Agents -> {"none", "healthy", "offline"}]
  /\ route \in [Agents -> Routes]
  /\ handling \in [Callers -> Handlings]
  /\ beat \in [Agents -> {"idle", "row"}]
  /\ listener \in [Listeners -> [agent: Agents \cup {"none"}, held: {0} \cup Messages,
                                  heard: [Agents -> Seq(Messages)]]]
  /\ torn \in [Agents -> BOOLEAN]
  /\ sent \in 0..MaxMessages /\ faults \in 0..MaxFaults /\ restarts \in 0..MaxRestarts

\* FindAgents misses no agent: whatever registrations and removals have done to
\* the index, it names each known agent for each of its present skills.
SearchFindsAll ==
  \A a \in Agents, s \in Skills : Known(a) /\ s \in agents[a].skills => a \in index[s]

\* While no call for an agent is under way, the router routes to it exactly if
\* it is known, and for the skills of its last registration: also the clean-up
\* leaves no route to a dead agent (agent_service.cpp:109).  What calls that overlapped,
\* or a clean-up in the middle of a call, left behind, the next call alone repairs.
RoutesMatchAgents ==
  \A a \in Agents : Quiet(a) /\ ~torn[a] =>
    route[a] = [skills |-> agents[a].skills, known |-> Known(a)]

\* A message in the queue of an agent goes to one listener at most, and each
\* listener gets them in the order in which they were accepted, also after it
\* listened to another agent (ListenMessages, ReceiveMessage).
Heard(l, a) == {listener[l].heard[a][i] : i \in DOMAIN listener[l].heard[a]}
MessagesInOrder ==
  \A a \in Agents, l \in Listeners :
    /\ \A i, j \in DOMAIN listener[l].heard[a] :
         i < j => listener[l].heard[a][i] < listener[l].heard[a][j]
    /\ \A k \in Listeners : k # l => Heard(k, a) \cap Heard(l, a) = {}

\* What the copies in memory owe each other, the router and the listeners, whichever
\* call, clean-up or restart comes between two updates.
RegistryInvariant ==
  RegistryTypeOK /\ SearchFindsAll /\ RoutesMatchAgents /\ MessagesInOrder

\* A heartbeat heals a row that was lost when PostgreSQL was down while the agent
\* registered (agent_service.cpp:487-489).
RowHeals ==
  \A a \in Agents : <>[](alive[a] /\ Known(a)) => <>[](health[a] = "healthy")

\* An agent that dies without a word is not routed to for ever, unless its last calls
\* overlapped or were cleaned up halfway.
DeadAgentsLeave ==
  \A a \in Agents : ~alive[a] ~> (~route[a].known \/ alive[a] \/ torn[a])

\* Whatever went wrong, table and router agree with the agents in the end.
CopiesConverge == RowHeals /\ DeadAgentsLeave

\* "only agents registered as healthy may execute" (agent_lifecycle_service.cpp
\* 403-405, which asks the table): a row is healthy only while the agent is known
\* or a call for it is under way.
HealthyRowIsKnown ==
  \A a \in Agents : health[a] = "healthy" => Known(a) \/ ~Quiet(a)
=============================================================================
