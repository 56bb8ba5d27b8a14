--------------------------- MODULE ClientFailover ---------------------------
(***************************************************************************)
(* RpcClient: which server it talks to.  It finds servers through a        *)
(* MemoryServiceRegistry, is told of changes by the registry's watcher,    *)
(* and moves to another server when a call fails.  Calls of the            *)
(* application and the heartbeat thread reconnect independently.           *)
(* connection_mutex_ is held for one step at a time; server_address_ is    *)
(* read, and channel_ and agent_stub_ are read and replaced, without it: a *)
(* reader gets the old value or the new one.  Which endpoint the balancer  *)
(* prefers, and in which order candidates are tried, is left open.  A      *)
(* failed call has a status isRetryableTransportStatus accepts.            *)
(***************************************************************************)
EXTENDS Integers, FiniteSets

CONSTANTS
  Servers, Callers,
  MaxTries,      \* MAX_RETRY_COUNT
  MaxStops,      \* bound: servers that stop; after the last one none starts either
  MaxEntries,    \* bound: changes of the registry
  MaxConnects    \* bound: calls of connectViaRegistry

ASSUME FailoverBounds ==
  MaxTries \in Nat /\ MaxStops \in Nat /\ MaxEntries \in Nat /\ MaxConnects \in Nat
ASSUME FailoverFinite == IsFiniteSet(Servers) /\ IsFiniteSet(Callers)

VARIABLES
  up,            \* servers that run
  registered,    \* MemoryServiceRegistry::services_
  notice,        \* calls of the registry that have yet to call the watcher
  watching,      \* the watcher is set
  known,         \* server_endpoints_ and their is_healthy
  current,       \* current_endpoint_id_, server_address_
  channel,       \* channel_: the server it leads to
  stub,          \* agent_stub_: the server its channel leads to
  connected,     \* connected_
  tries,         \* connection_retry_count_
  thread,        \* the threads
  agent,         \* current_agent_id_ is set
  beating,       \* heartbeat_thread_; it is started once
  stops, entries, connects,
  crossed,       \* since one of them was alone, threads failed over at once
  outrun,        \* since the last one that was alone, views of the registry overtook each other
  live           \* servers that ran all the time of an attempt that nothing disturbed
failoverVars == <<up, registered, notice, watching, known, current, channel, stub, connected,
                  tries, thread, agent, beating, stops, entries, connects, crossed, outrun, live>>
world == <<up, registered, notice, stops, entries>>
life == <<agent, beating, connects>>

NoServer == "no server"
Here == Servers \cup {NoServer}
Healths == {"absent", "healthy", "unhealthy"}
Of(S) == [s \in Servers |-> IF s \in S THEN "healthy" ELSE "absent"]
Known(view) == {s \in Servers : view[s] # "absent"}
WithHealth(view, health) == {s \in Servers : view[s] = health}
NoNotice == [due |-> FALSE, snapshot |-> {}]

AllThreads == Callers \cup {"heartbeat"}
Kinds == {"none", "call", "register", "beat", "again", "connect"}
FailoverSteps == {"free", "ready", "asks", "mark", "reconnect", "sleeps", "store", "snapshot", "heal",
  "select", "next", "opens", "assigns", "loads", "waits", "stubs", "keeps", "marks",
  "discover", "assign", "watch"}
Free == [at |-> "free", kind |-> "none", to |-> NoServer, view |-> Of({}), left |-> {}]
Busy == {t \in AllThreads : thread[t].at \notin {"free", "ready", "asks"}}
Notices == {s \in Servers : notice[s].due}
Several(S) == \E x, y \in S : x # y

\* The views of the registry that are on their way to server_endpoints_.
Carriers == {t \in AllThreads : thread[t].at \in {"store", "heal", "assign", "watch"}}
Views == {<<"notice", s>> : s \in Notices} \cup {<<"thread", t>> : t \in Carriers}

At(t, at) == thread[t].at = at
Takes(t, s, at) == thread' = [thread EXCEPT ![t].at = at, ![t].to = s]
Goes(t, at) == Takes(t, NoServer, at)
Healing == \E t \in AllThreads : At(t, "heal")

FailoverInit ==
  /\ up = {} /\ registered = {} /\ notice = [s \in Servers |-> NoNotice] /\ watching = FALSE
  /\ known = Of({}) /\ current = NoServer /\ channel = NoServer
  /\ stub = NoServer /\ connected = FALSE /\ tries = 0
  /\ thread = [t \in AllThreads |-> Free]
  /\ agent = FALSE /\ beating = "none"
  /\ stops = 0 /\ entries = 0 /\ connects = 0 /\ live = {}
  /\ crossed = FALSE /\ outrun = FALSE
-----------------------------------------------------------------------------
(* Servers and the registry. *)

ServerStarts(s) ==
  /\ s \notin up /\ stops < MaxStops /\ up' = up \cup {s}
  /\ UNCHANGED <<registered, notice, watching, known, current, channel, stub, connected,
                 tries, thread, life, stops, entries>>
ServerStops(s) ==
  /\ s \in up /\ stops < MaxStops
  /\ up' = up \ {s} /\ stops' = stops + 1
  /\ UNCHANGED <<registered, notice, watching, known, current, channel, stub, connected,
                 tries, thread, life, entries>>

Entry(s, S) ==
  /\ registered # S /\ ~notice[s].due /\ entries < MaxEntries /\ entries' = entries + 1
  /\ registered' = S
  /\ UNCHANGED <<up, watching, known, current, channel, stub, connected, tries, thread, life, stops>>

registerService(s) ==
  /\ Entry(s, registered \cup {s})
  /\ notice' = [notice EXCEPT ![s] = [due |-> TRUE, snapshot |-> registered']]

\* Mutant: the snapshot is taken before the entry is erased.
SnapshotFirst(s) ==
  /\ Entry(s, registered \ {s})
  /\ notice' = [notice EXCEPT ![s] = [due |-> TRUE, snapshot |-> registered]]

unregisterService(s) ==
  /\ Entry(s, registered \ {s})
  /\ notice' = [notice EXCEPT ![s] = [due |-> TRUE, snapshot |-> registered']]

\* The watcher is called without the lock of the registry.
CallWatcher(s) ==
  /\ notice[s].due /\ notice' = [notice EXCEPT ![s] = NoNotice]
  /\ known' = IF watching THEN Of(notice[s].snapshot) ELSE known
  /\ UNCHANGED <<up, registered, watching, current, channel, stub, connected, tries, thread,
                 life, stops, entries>>
-----------------------------------------------------------------------------
(* Calls. *)

client == <<watching, known, current, channel, stub, connected, tries>>

Ask(t, kind) ==
  /\ At(t, "free") /\ connected
  /\ thread' = [thread EXCEPT ![t] = [Free EXCEPT !.at = "ready", !.kind = kind]]
  /\ UNCHANGED <<world, client, life>>
sendMessage(c) == Ask(c, "call")
registerAgent(c) == ~agent /\ Ask(c, "register")
heartbeatLoop == agent /\ beating = "loops" /\ Ask("heartbeat", "beat")

\* connected_ was checked before; the stub may have been replaced since.
AskOverStub(t) ==
  /\ At(t, "ready") /\ (thread[t].kind = "beat" => connected)
  /\ Takes(t, stub, "asks")
  /\ UNCHANGED <<world, client, life>>

\* sendHeartbeat checks connected_ again: the loop takes its refusal for a failure.
sendHeartbeat(t) ==
  /\ At(t, "ready") /\ thread[t].kind = "beat" /\ ~connected
  /\ thread' = [thread EXCEPT ![t] = [Free EXCEPT !.at = "reconnect", !.kind = "again"]]
  /\ UNCHANGED <<world, client, life>>

\* startHeartbeat does nothing if the thread was started before, running or not.
Answered(t) ==
  /\ At(t, "asks") /\ thread[t].to \in up
  /\ thread' = [thread EXCEPT ![t] = Free]
  /\ agent' = (agent \/ thread[t].kind = "register")
  /\ beating' = IF thread[t].kind = "register" /\ beating = "none" THEN "loops" ELSE beating
  /\ UNCHANGED <<world, client, connects>>
Unanswered(t) ==
  /\ At(t, "asks") /\ thread[t].to \notin up
  /\ Goes(t, "mark")
  /\ UNCHANGED <<world, client, life>>

\* The endpoint that is current now is marked, whichever the call went to.
handleTransportFailure(t) ==
  /\ At(t, "mark")
  /\ connected' = FALSE
  /\ known' = [s \in Servers |-> IF s = current /\ known[s] # "absent" THEN "unhealthy" ELSE known[s]]
  /\ Goes(t, "reconnect")
  /\ UNCHANGED <<world, watching, current, channel, stub, tries, life>>
-----------------------------------------------------------------------------
(* reconnect. *)

\* A heartbeat that failed is followed by a second attempt, which ends the loop
\* if it fails as well.
Ends(t, ok) ==
  /\ thread' = [thread EXCEPT ![t] =
       IF @.kind = "beat" THEN [Free EXCEPT !.at = "reconnect", !.kind = "again"] ELSE Free]
  /\ beating' = IF thread[t].kind = "again" /\ ~ok THEN "ended" ELSE beating
Online(t, value) == value /\ thread[t].kind # "beat"

\* Mutant: every failed call starts another attempt.
ReconnectsAlways(t) ==
  /\ At(t, "reconnect") /\ Goes(t, "sleeps")
  /\ UNCHANGED <<world, client, life>>

reconnect(t) ==
  /\ At(t, "reconnect")
  /\ IF tries >= MaxTries
     THEN Ends(t, FALSE) /\ connected' = Online(t, connected)
     ELSE Goes(t, "sleeps") /\ UNCHANGED <<connected, beating>>
  /\ UNCHANGED <<world, watching, known, current, channel, stub, tries, agent, connects>>

Rediscover(t) ==
  /\ At(t, "sleeps")
  /\ thread' = [thread EXCEPT ![t].at = IF registered = {} THEN "snapshot" ELSE "store",
                              ![t].view = Of(registered)]
  /\ UNCHANGED <<world, client, life>>

StoreDiscovered(t) ==
  /\ At(t, "store") /\ known' = thread[t].view
  /\ thread' = [thread EXCEPT ![t].at = "snapshot", ![t].view = Of({})]
  /\ UNCHANGED <<world, watching, current, channel, stub, connected, tries, life>>

\* If no endpoint is healthy, all count as healthy; if there is none, the last
\* address is tried again.
Snapshot(t) ==
  /\ At(t, "snapshot")
  /\ thread' = [thread EXCEPT ![t].view =
                  IF WithHealth(known, "healthy") = {} THEN Of(Known(known)) ELSE known,
                ![t].at = IF Known(known) = {} THEN "opens"
                          ELSE IF WithHealth(known, "healthy") = {} THEN "heal" ELSE "select"]
  /\ UNCHANGED <<world, client, life>>
Heal(t) ==
  /\ At(t, "heal") /\ known' = thread[t].view /\ Goes(t, "select")
  /\ UNCHANGED <<world, watching, current, channel, stub, connected, tries, life>>

\* Mutant: only the endpoint of the balancer is tried.
SelectsOne(t) ==
  /\ At(t, "select")
  /\ \E s \in Known(thread[t].view) : thread' = [thread EXCEPT ![t].at = "next", ![t].left = {s}]
  /\ UNCHANGED <<world, client, life>>

\* The balancer's choice, and every endpoint that counts as healthy.
SelectCandidates(t) ==
  /\ At(t, "select")
  /\ \E s \in Known(thread[t].view) :
       thread' = [thread EXCEPT ![t].at = "next",
                               ![t].left = WithHealth(thread[t].view, "healthy") \cup {s}]
  /\ UNCHANGED <<world, client, life>>

GiveUp(t) ==
  /\ At(t, "next") /\ thread[t].left = {}
  /\ tries' = IF thread[t].kind = "connect" THEN tries ELSE tries + 1
  /\ Ends(t, FALSE) /\ connected' = Online(t, connected)
  /\ UNCHANGED <<world, watching, known, current, channel, stub, agent, connects>>
-----------------------------------------------------------------------------
(* connectToEndpoint. *)

connectToEndpoint(t) ==
  /\ At(t, "next")
  /\ \E s \in thread[t].left :
       /\ current' = s
       /\ thread' = [thread EXCEPT ![t].at = "opens", ![t].left = @ \ {s}]
  /\ UNCHANGED <<world, watching, known, channel, stub, connected, tries, life>>

\* server_address_ is read for the new channel, whichever thread set it last.
setupChannel(t) ==
  /\ At(t, "opens") /\ Takes(t, current, "assigns")
  /\ UNCHANGED <<world, client, life>>
AssignChannel(t) ==
  /\ At(t, "assigns") /\ channel' = thread[t].to /\ Goes(t, "loads")
  /\ UNCHANGED <<world, watching, known, current, stub, connected, tries, life>>
WaitForConnected(t) ==
  /\ At(t, "loads") /\ Takes(t, channel, "waits")
  /\ UNCHANGED <<world, client, life>>
ChannelOpens(t) ==
  /\ At(t, "waits") /\ thread[t].to \in up /\ Goes(t, "stubs")
  /\ UNCHANGED <<world, client, life>>
NewStub(t) ==
  /\ At(t, "stubs") /\ Takes(t, channel, "keeps")
  /\ UNCHANGED <<world, client, life>>

Direct(t) == Known(thread[t].view) = {}     \* no endpoint was known: the last address again

Connects(t) ==
  /\ tries' = 0
  /\ IF Direct(t)
     THEN Ends(t, TRUE) /\ connected' = Online(t, TRUE)
     ELSE /\ thread' = [thread EXCEPT ![t] = [Free EXCEPT !.at = "marks", !.kind = thread[t].kind]]
          /\ connected' = TRUE /\ UNCHANGED beating

\* Mutant: the stub is made once.
KeepsFirstStub(t) ==
  /\ At(t, "keeps")
  /\ stub' = (IF stub = NoServer THEN thread[t].to ELSE stub) /\ Connects(t)
  /\ UNCHANGED <<world, watching, known, current, channel, agent, connects>>

KeepStub(t) ==
  /\ At(t, "keeps") /\ stub' = thread[t].to /\ Connects(t)
  /\ UNCHANGED <<world, watching, known, current, channel, agent, connects>>

\* The wait is for the channel that was there as it began.
ChannelFails(t) ==
  /\ At(t, "waits") /\ thread[t].to \notin up
  /\ IF Direct(t)
     THEN /\ Ends(t, FALSE) /\ tries' = tries + 1 /\ connected' = Online(t, connected)
     ELSE /\ Goes(t, "next") /\ connected' = FALSE /\ UNCHANGED <<tries, beating>>
  /\ UNCHANGED <<world, watching, known, current, channel, stub, agent, connects>>

MarkConnected(t) ==
  /\ At(t, "marks")
  /\ known' = [s \in Servers |-> IF s = current /\ known[s] # "absent" THEN "healthy" ELSE known[s]]
  /\ Ends(t, TRUE) /\ connected' = Online(t, connected)
  /\ UNCHANGED <<world, watching, current, channel, stub, tries, agent, connects>>
-----------------------------------------------------------------------------
(* connectViaRegistry. *)

connectViaRegistry(c) ==
  /\ At(c, "free") /\ connects < MaxConnects /\ connects' = connects + 1
  /\ thread' = [thread EXCEPT ![c] = [Free EXCEPT !.at = "discover", !.kind = "connect"]]
  /\ UNCHANGED <<world, client, agent, beating>>

discoverServices(c) ==
  /\ At(c, "discover")
  /\ thread' = [thread EXCEPT ![c] =
       IF registered = {} THEN Free ELSE [@ EXCEPT !.at = "assign", !.view = Of(registered)]]
  /\ UNCHANGED <<world, client, life>>

\* A new balancer chooses one endpoint, the only one that is tried.
AssignEndpoints(c) ==
  /\ At(c, "assign")
  /\ known' = thread[c].view
  /\ \E s \in Known(thread[c].view) :
       thread' = [thread EXCEPT ![c].at = "watch", ![c].left = {s}]
  /\ UNCHANGED <<world, watching, current, channel, stub, connected, tries, life>>

watchServices(c) ==
  /\ At(c, "watch") /\ watching' = TRUE /\ Goes(c, "next")
  /\ UNCHANGED <<world, known, current, channel, stub, connected, tries, life>>
-----------------------------------------------------------------------------
ReconnectStep(t) ==
  \/ handleTransportFailure(t) \/ reconnect(t) \/ Rediscover(t) \/ StoreDiscovered(t)
  \/ Snapshot(t) \/ Heal(t) \/ SelectCandidates(t) \/ GiveUp(t) \/ connectToEndpoint(t)
  \/ setupChannel(t) \/ AssignChannel(t) \/ WaitForConnected(t) \/ ChannelOpens(t)
  \/ ChannelFails(t) \/ NewStub(t) \/ KeepStub(t) \/ MarkConnected(t)
  \/ discoverServices(t) \/ AssignEndpoints(t) \/ watchServices(t)
FailoverStep ==
  \/ \E s \in Servers : \/ ServerStarts(s) \/ ServerStops(s)
                        \/ registerService(s) \/ unregisterService(s) \/ CallWatcher(s)
  \/ \E c \in Callers : sendMessage(c) \/ registerAgent(c) \/ connectViaRegistry(c)
  \/ heartbeatLoop
  \/ \E t \in AllThreads : \/ AskOverStub(t) \/ sendHeartbeat(t) \/ Answered(t) \/ Unanswered(t)
                            \/ ReconnectStep(t)

\* A thread that is alone as it sets the address, and a view of the registry that sets
\* out alone, start afresh; the view that heals is an old one.
FailoverNext ==
  /\ FailoverStep
  /\ crossed' = (Several(Busy') \/ (crossed /\ ~\E t \in AllThreads : At(t, "next") /\ At(t, "opens")'))
  /\ outrun' = (Several(Views') \/ (outrun /\ ~(Views = {} /\ Views' # {} /\ ~Healing')))
  /\ live' = IF Several(Busy') \/ outrun' \/ Notices' # {} \/ Busy' = {} THEN {}
             ELSE IF \E t \in AllThreads : At(t, "reconnect")' THEN up' ELSE live \cap up'

FailoverSpec == FailoverInit /\ [][FailoverNext]_failoverVars
-----------------------------------------------------------------------------
\* Types; the limit of attempts is checked before each and counted after it, so
\* that each thread but one may pass it once.
FailoverTypeOK ==
  /\ up \subseteq Servers /\ registered \subseteq Servers
  /\ notice \in [Servers -> [due: BOOLEAN, snapshot: SUBSET Servers]]
  /\ known \in [Servers -> Healths]
  /\ current \in Here /\ channel \in Here /\ stub \in Here
  /\ watching \in BOOLEAN /\ connected \in BOOLEAN /\ agent \in BOOLEAN
  /\ crossed \in BOOLEAN /\ outrun \in BOOLEAN /\ live \subseteq Servers
  /\ thread \in [AllThreads -> [at: FailoverSteps, kind: Kinds, to: Here, view: [Servers -> Healths],
                                left: SUBSET Servers]]
  /\ beating \in {"none", "loops", "ended"}
  /\ tries \in 0..MaxTries + Cardinality(Callers) /\ stops \in 0..MaxStops /\ entries \in 0..MaxEntries
  /\ connects \in 0..MaxConnects

\* Changes of the registry are told without its lock.  Whenever the view that set
\* out last was alone on its way, connecting, failing over and changes leave the client with
\* the endpoints the registry has, whatever overtook what before.
EndpointsFollowRegistry ==
  watching /\ Views = {} /\ ~outrun => Known(known) = registered

\* Whoever gives up has tried every server it knew: each of them was down at some
\* time of an attempt that neither another thread nor a change of the registry disturbed.
GivesUpWhenAllAreDown ==
  \A t \in AllThreads :
    At(t, "next") /\ thread[t].left = {} /\ thread[t].kind # "connect" =>
      Known(thread[t].view) \cap live = {}

\* A client that is connected after an attempt without rival sends its calls to the
\* endpoint that it marks when one fails, whatever rivals left behind before.
StubIsCurrent == Busy = {} /\ connected /\ ~crossed => stub = current

\* A thread that fails over comes to an end at the right server or after it tried
\* all, and with the endpoints that the registry has.
FailoverInvariant ==
  FailoverTypeOK /\ EndpointsFollowRegistry /\ GivesUpWhenAllAreDown /\ StubIsCurrent

\* A registered agent that is connected sends heartbeats.
HeartbeatsResume == (agent /\ connected) ~> (beating = "loops" \/ ~connected)
=============================================================================
