----------------------------- MODULE ChatStore -----------------------------
(***************************************************************************)
(* The chat of the browser: the store of frontend/src/stores/chat.ts and   *)
(* queryStream of frontend/src/services/grpc-client.ts.  The browser runs  *)
(* one task at a time; what a task resolves (catch, finally) follows it    *)
(* before the next one.  An answer is a body that the gateway ends some    *)
(* time after its terminal event, so that the user may ask again first.    *)
(***************************************************************************)
EXTENDS Integers, Sequences

CONSTANT MaxStreams   \* bound: questions and retries of a session
ASSUME ChatBounds == MaxStreams \in Nat

VARIABLES
  messages,         \* of the conversation; a message of an agent has a stream
  isStreaming,
  abortController,  \* the stream it aborts, 0: null
  streams,          \* the bodies: still open, and which terminal events came
  overtaken        \* a stream was started while another one was open
chatVars == <<messages, isStreaming, abortController, streams, overtaken>>

Question == [role |-> "user", stream |-> 0, streaming |-> FALSE, error |-> FALSE]
AnswerMessage(s) == [role |-> "agent", stream |-> s, streaming |-> TRUE, error |-> FALSE]
Errored(m) == m.role = "agent" /\ m.error
Streaming == {i \in DOMAIN messages : messages[i].streaming}
IsOpen(s) == s \in DOMAIN streams /\ streams[s].open

ChatInit ==
  /\ messages = <<>> /\ isStreaming = FALSE /\ abortController = 0
  /\ streams = <<>> /\ overtaken = FALSE

\* The message of a stream, if the conversation still shows it, gets these fields.
Shows(s, streaming, fails) ==
  messages' = [i \in DOMAIN messages |->
    IF messages[i].stream = s
    THEN [messages[i] EXCEPT !.streaming = streaming, !.error = @ \/ fails]
    ELSE messages[i]]
NothingStreams == isStreaming' = FALSE /\ abortController' = 0
-----------------------------------------------------------------------------
\* Mutant: the stream is not remembered as the one to abort.
StartsUnstoppable(ms) ==
  /\ Len(streams) < MaxStreams
  /\ messages' = Append(ms, AnswerMessage(Len(streams) + 1))
  /\ isStreaming' = TRUE /\ UNCHANGED abortController
  /\ streams' = Append(streams, [open |-> TRUE, told |-> {}])
  /\ overtaken' = (overtaken \/ \E s \in DOMAIN streams : streams[s].open)

startStream(ms) ==
  /\ Len(streams) < MaxStreams
  /\ messages' = Append(ms, AnswerMessage(Len(streams) + 1))
  /\ isStreaming' = TRUE /\ abortController' = Len(streams) + 1
  /\ streams' = Append(streams, [open |-> TRUE, told |-> {}])
  /\ overtaken' = (overtaken \/ \E s \in DOMAIN streams : streams[s].open)

sendQuestion == ~isStreaming /\ startStream(Append(messages, Question))

\* Offered while the last message shows an error; messages with one are dropped.
retryLast ==
  /\ ~isStreaming /\ messages # <<>> /\ Errored(messages[Len(messages)])
  /\ \E n \in DOMAIN messages :
       /\ ~Errored(messages[n]) /\ \A i \in n + 1..Len(messages) : Errored(messages[i])
       /\ startStream(SubSeq(messages, 1, n))

\* A terminal event of the stream; the body stays open.
HandleStreamEvent(s) ==
  /\ IsOpen(s)
  /\ \E type \in {"complete", "error"} \ streams[s].told :
       /\ "error" \notin streams[s].told
       /\ Shows(s, FALSE, type = "error") /\ NothingStreams
       /\ streams' = [streams EXCEPT ![s].told = @ \cup {type}]
  /\ UNCHANGED overtaken

Closes(s) == streams' = [streams EXCEPT ![s].open = FALSE]

\* The body ends: finally.
BodyEnds(s) ==
  /\ IsOpen(s) /\ Shows(s, FALSE, FALSE) /\ NothingStreams
  /\ Closes(s) /\ UNCHANGED overtaken

\* The request is refused, the connection breaks, or 130 s are over: catch, finally.
StreamFails(s) ==
  /\ IsOpen(s) /\ Shows(s, FALSE, TRUE) /\ NothingStreams
  /\ Closes(s) /\ UNCHANGED overtaken

\* The stream that is aborted ends with this task, and tells nothing.
Aborts ==
  IF abortController = 0 THEN UNCHANGED streams
  ELSE streams' = [streams EXCEPT ![abortController].open = FALSE]
LastStreaming(i) == i \in Streaming /\ \A j \in Streaming : j <= i
Stopped(i) ==
  IF LastStreaming(i) \/ messages[i].stream = abortController
  THEN [messages[i] EXCEPT !.streaming = FALSE] ELSE messages[i]
stopStreaming ==
  /\ isStreaming /\ Aborts /\ NothingStreams
  /\ messages' = [i \in DOMAIN messages |-> Stopped(i)] /\ UNCHANGED overtaken

newConversation ==
  /\ messages # <<>> /\ Aborts /\ NothingStreams
  /\ messages' = <<>> /\ UNCHANGED overtaken

ChatNext ==
  \/ sendQuestion \/ retryLast \/ stopStreaming \/ newConversation
  \/ \E s \in 1..MaxStreams : HandleStreamEvent(s) \/ BodyEnds(s) \/ StreamFails(s)

ChatSpec == ChatInit /\ [][ChatNext]_chatVars
-----------------------------------------------------------------------------
ChatTypeOK ==
  /\ messages \in Seq([role: {"user", "agent"}, stream: 0..MaxStreams,
                       streaming: BOOLEAN, error: BOOLEAN])
  /\ isStreaming \in BOOLEAN /\ overtaken \in BOOLEAN
  /\ abortController \in 0..Len(streams)
  /\ streams \in Seq([open: BOOLEAN, told: SUBSET {"complete", "error"}])

\* Stop reaches the running answer: while the store says that one streams, its
\* controller is that of the newest stream, which is open and shown as the last
\* message, whatever late events older streams still have (stopStreaming).
StopReaches ==
  /\ isStreaming <=> abortController # 0
  /\ isStreaming =>
       /\ abortController = Len(streams) /\ IsOpen(abortController)
       /\ messages[Len(messages)] = AnswerMessage(abortController)

\* No message waits for a stream that has ended (finally of startStream).
WaitsForOpen == \A i \in Streaming : IsOpen(messages[i].stream)

\* The input is enabled exactly while nothing streams, and one answer streams at
\* most, as long as nobody asks before an earlier body has ended: its finally then
\* clears the flag and the controller of the next answer.
OneAnswerAtATime ==
  ~overtaken =>
    /\ isStreaming <=> Streaming # {}
    /\ \A i, j \in Streaming : i = j

\* Each question is followed by the message of an agent, after retries too.
QuestionsHaveAnswers ==
  \A i \in DOMAIN messages : messages[i].role = "user" =>
    i < Len(messages) /\ messages[i + 1].role = "agent"

\* Whatever order the user's clicks and the ends of streams come in, the chat
\* shows what its streams do.
ChatInvariant ==
  /\ ChatTypeOK /\ StopReaches /\ WaitsForOpen /\ OneAnswerAtATime /\ QuestionsHaveAnswers
=============================================================================
