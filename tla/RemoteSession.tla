--------------------------- MODULE RemoteSession ---------------------------
(***************************************************************************)
(* A remote session: RemoteSessionManager and RemoteEventsSource follow a  *)
(* workflow's stream of numbered events, and RemoteWorkflowEventTranslator *)
(* turns the states of its tasks into messages.                            *)
(*                                                                         *)
(* Abstracted: a text is the sequence of the numbers of the events that    *)
(* brought its pieces; names, arguments and outputs of tools are left out. *)
(* Every event has a number (broker_sequence) and is well-formed.          *)
(***************************************************************************)
EXTENDS Integers, Sequences, FiniteSets, SequencesExt

CONSTANTS
  Tasks,     \* tasks of the workflow
  Kind,      \* Kind[t]: "text", "tool", "question", "working", "wait" or "steer"
  Call,      \* Call[t]: the id of the tool call a task shows
  MaxEvents, \* bound: events of the workflow
  MaxRetry   \* max_retry_count

None == "none"

RemoteAssumption ==
  /\ None \notin Tasks
  /\ Kind \in [Tasks -> {"text", "tool", "question", "working", "wait", "steer"}]
  /\ DOMAIN Call = Tasks
  /\ MaxEvents \in Nat /\ MaxRetry \in Nat

VARIABLES
  log,      \* the workflow's events so far
  stream,   \* the client's stream: whether it runs, next event, retries in a row
  content,  \* _task_state: the text of a task
  msgId,    \* _completion_message_ids: number of a text's message, 0 if none
  calls,    \* _seen_tool_call_ids, _seen_tool_results, _open_tool_calls
  pending,  \* _pending_input_request: its task, or None
  asking,   \* _pending_ask_user_question_call_id, or None
  messages, \* the messages of the session
  sending,  \* tasks whose answer is on its way to the workflow
  lost      \* history: tasks whose request was answered, or gave way to another's

remoteVars == <<log, stream, content, msgId, calls, pending, asking, messages, sending, lost>>

ToolKinds == {"tool", "question", "working"}
Ids == {Call[t] : t \in Tasks}
Ops == {"append", "replace", "start", "progress", "answer", "complete", "fail", "end"}

TypeOK ==
  /\ log \in Seq([task : Tasks \union {None}, op : Ops])
  /\ stream \in [up : BOOLEAN, next : 1..MaxEvents + 2, retries : 0..MaxRetry + 1, over : BOOLEAN]
  /\ content \in [Tasks -> Seq(1..MaxEvents)] /\ msgId \in [Tasks -> 0..MaxEvents]
  /\ calls \in [called : SUBSET Ids, answered : SUBSET Ids, open : SUBSET Ids]
  /\ pending \in Tasks \union {None} /\ asking \in Ids \union {None}
  /\ sending \subseteq Tasks /\ lost \subseteq Tasks

Init ==
  /\ log = <<>>
  /\ stream = [up |-> TRUE, next |-> 1, retries |-> 0, over |-> FALSE]
  /\ content = [t \in Tasks |-> <<>>] /\ msgId = [t \in Tasks |-> 0]
  /\ calls = [called |-> {}, answered |-> {}, open |-> {}]
  /\ pending = None /\ asking = None
  /\ messages = <<>> /\ sending = {} /\ lost = {}

-----------------------------------------------------------------------------
(* The workflow, whose code is not in this repository. *)

OpsOf(t, prefix) == {prefix[n].op : n \in {m \in DOMAIN prefix : prefix[m].task = t}}
Started(t, prefix) == \E n \in DOMAIN prefix : prefix[n].task = t
Ended(t, prefix) == OpsOf(t, prefix) \intersect {"answer", "complete", "fail"} # {}
IsOver(prefix) == \E n \in DOMAIN prefix : prefix[n].op = "end"

Legal(t, op) ==
  IF Kind[t] = "text" THEN op \in {"append", "replace"}
  ELSE IF ~Started(t, log) THEN op = "start"
  ELSE op \in {"complete", "fail"} \union
       (IF Kind[t] \in ToolKinds THEN {"progress"} ELSE {"answer"})

Emit ==
  /\ Len(log) < MaxEvents /\ ~IsOver(log)
  /\ \/ \E t \in Tasks, op \in Ops :
          /\ ~Ended(t, log) /\ Legal(t, op)
          /\ log' = Append(log, [task |-> t, op |-> op])
     \/ log' = Append(log, [task |-> None, op |-> "end"])
  /\ UNCHANGED <<stream, content, msgId, calls, pending, asking, messages, sending, lost>>

-----------------------------------------------------------------------------
(* The messages that an event leads to. *)

\* _merge_message: a piece of the last assistant message is added to it.
Merge(ms, m) ==
  IF ms # <<>> /\ m.role = "assistant" /\ Last(ms).role = "assistant" /\ Last(ms).id = m.id
  THEN [ms EXCEPT ![Len(ms)].body = @ \o m.body]
  ELSE Append(ms, m)

Text(id, piece) == [role |-> "assistant", id |-> id, body |-> piece]
User(n) == [role |-> "user", id |-> n, body |-> <<>>]
CallMsg(c) == [role |-> "call", id |-> c, body |-> <<>>]
Result(c) == [role |-> "tool", id |-> c, body |-> <<>>]

\* _get_current_state: an appended piece, or another text.
NewText(t, n, op) == IF op = "append" THEN Append(content[t], n) ELSE <<n>>

\* _completion_events, _assistant_message_events: what is new of a text is added
\* to its message; a text that does not go on as before gets a new message.
TextEvent(t, n, op) ==
  LET new == NewText(t, n, op)
      goesOn == IsPrefix(content[t], new)
      id == IF goesOn /\ msgId[t] # 0 THEN msgId[t] ELSE n
      delta == IF goesOn THEN SubSeq(new, Len(content[t]) + 1, Len(new)) ELSE new
  IN  /\ content' = [content EXCEPT ![t] = new]
      /\ msgId' = [msgId EXCEPT ![t] = id]
      /\ messages' = Merge(messages, Text(id, delta))
      /\ UNCHANGED <<calls, pending, asking, lost>>

\* _emit_tool_call_events: a call is shown once, whichever task shows it first.
Called(c) == [calls EXCEPT !.called = @ \union {c}, !.open = @ \union ({c} \ calls.called)]
CalledMsgs(c) == IF c \in calls.called THEN messages ELSE Append(messages, CallMsg(c))

\* _finalize_tool_call, _emit_tool_result_events: a call has one result.
Answered(cs, c) == [cs EXCEPT !.answered = @ \union {c}, !.open = @ \ {c}]
ResultMsgs(ms, c) == IF c \in calls.answered THEN ms ELSE Append(ms, Result(c))

\* _tool_events, _tool_terminal_events: the call is shown before its result, also
\* when the first event that arrives is the last one.
ToolTask(t, op) ==
  LET c == Call[t]
      shown == op # "fail"
      cs == IF shown THEN Called(c) ELSE calls
      ms == IF shown THEN CalledMsgs(c) ELSE messages
  IN  /\ calls' = IF op \in {"complete", "fail"} THEN Answered(cs, c) ELSE cs
      /\ messages' = IF op \in {"complete", "fail"} THEN ResultMsgs(ms, c) ELSE ms
      /\ asking' = IF Kind[t] = "question" /\ shown /\ c \notin calls.called THEN c ELSE asking
      /\ UNCHANGED <<content, msgId, pending, lost>>

\* _working_events: another task that shows a call; that it fails says nothing.
WorkingTask(t, op) ==
  LET c == Call[t] IN
  /\ IF op = "fail"
       THEN UNCHANGED <<calls, messages>>
       ELSE /\ calls' = IF op = "complete" THEN Answered(Called(c), c) ELSE Called(c)
            /\ messages' = IF op = "complete" THEN ResultMsgs(CalledMsgs(c), c) ELSE CalledMsgs(c)
  /\ UNCHANGED <<content, msgId, pending, asking, lost>>

-----------------------------------------------------------------------------
(* Waiting for the user. *)

\* The request that is pending, but for some.
Open(ts) == {pending} \ ({None} \union ts)

\* _wait_for_input_started_events, _steer_wait_for_input_started.
WaitStarts(t) ==
  /\ pending' = IF Kind[t] = "wait" \/ pending = None THEN t ELSE pending
  /\ lost' = IF Kind[t] = "wait" THEN lost \union Open({t}) ELSE lost
  /\ UNCHANGED <<content, msgId, calls, asking, messages>>

\* _steer_wait_for_input_terminal: only its own request is over.
SteerEnds(t, n, op) ==
  /\ pending' = IF pending = t THEN None ELSE pending
  /\ messages' = IF op = "answer" THEN Append(messages, User(n)) ELSE messages
  /\ UNCHANGED <<content, msgId, calls, asking, lost>>

\* _wait_for_input_terminal_events: the request is over, whichever it was; the
\* answer is the result of the question that was asked last.
WaitEnds(t, n, op) ==
  LET answers == asking # None /\ op \in {"answer", "fail"}
      ms == IF answers THEN ResultMsgs(messages, asking) ELSE messages
  IN  /\ pending' = None
      /\ lost' = lost \union Open({t})
      /\ asking' = None
      /\ calls' = IF answers THEN Answered(calls, asking) ELSE calls
      /\ messages' = IF op = "answer" THEN Append(ms, User(n)) ELSE ms
      /\ UNCHANGED <<content, msgId>>

\* _consume_workflow_lifecycle_event.
WorkflowEnds ==
  /\ pending' = None
  /\ UNCHANGED <<content, msgId, calls, asking, messages, lost>>

\* consume_workflow_event.
Consume(t, n, op) ==
  \/ op = "end" /\ WorkflowEnds
  \/ t # None /\ Kind[t] = "text" /\ TextEvent(t, n, op)
  \/ t # None /\ Kind[t] \in {"tool", "question"} /\ ToolTask(t, op)
  \/ t # None /\ Kind[t] = "working" /\ WorkingTask(t, op)
  \/ t # None /\ op = "start" /\ Kind[t] \in {"wait", "steer"} /\ WaitStarts(t)
  \/ t # None /\ op # "start" /\ Kind[t] = "steer" /\ SteerEnds(t, n, op)
  \/ t # None /\ op # "start" /\ Kind[t] = "wait" /\ WaitEnds(t, n, op)

-----------------------------------------------------------------------------
(* The stream. *)

\* Mutant of Received: the stream would be resumed at the same event.
ReceivedAgain(n) == [stream EXCEPT !.next = IF stream.retries > 0 THEN n ELSE n + 1, !.retries = 0]

\* One event of _stream_remote_events: the next one is noted first.
Received(n) == [stream EXCEPT !.next = n + 1, !.retries = 0]

Deliver ==
  LET n == stream.next IN
  /\ stream.up /\ n <= Len(log) /\ ~stream.over
  /\ Consume(log[n].task, n, log[n].op)
  /\ stream' = [Received(n) EXCEPT !.over = (log[n].op = "end")]
  /\ UNCHANGED <<log, sending>>

\* A disconnect that may be tried again, or another error.
Disconnect ==
  /\ stream.up /\ ~stream.over
  /\ stream' = [stream EXCEPT !.retries = @ + 1, !.up = stream.retries < MaxRetry]
  /\ UNCHANGED <<log, content, msgId, calls, pending, asking, messages, sending, lost>>

StreamFails ==
  /\ stream.up /\ ~stream.over
  /\ stream' = [stream EXCEPT !.up = FALSE]
  /\ UNCHANGED <<log, content, msgId, calls, pending, asking, messages, sending, lost>>

\* Mutant of StreamEnds: flush_open_tool_calls is not reached.
StreamEndsOpen ==
  /\ stream.up /\ stream.over
  /\ stream' = [stream EXCEPT !.up = FALSE]
  /\ UNCHANGED <<log, content, msgId, calls, pending, asking, messages, sending, lost>>

\* The end of attach: calls that are still open get an empty result on the screen.
StreamEnds ==
  /\ stream.up /\ stream.over
  /\ stream' = [stream EXCEPT !.up = FALSE]
  /\ calls' = [calls EXCEPT !.open = {}]
  /\ UNCHANGED <<log, content, msgId, pending, asking, messages, sending, lost>>

\* send_prompt: refused without a request; after the answer was taken, the
\* request is forgotten, also if it is the next one by then.
Send ==
  /\ pending # None /\ pending \notin sending /\ ~stream.over
  /\ sending' = sending \union {pending}
  /\ UNCHANGED <<log, stream, content, msgId, calls, pending, asking, messages, lost>>

Sent(t) ==
  /\ t \in sending
  /\ sending' = sending \ {t}
  /\ pending' = None
  /\ lost' = lost \union Open({})
  /\ UNCHANGED <<log, stream, content, msgId, calls, asking, messages>>

SendFails(t) ==
  /\ t \in sending
  /\ sending' = sending \ {t}
  /\ UNCHANGED <<log, stream, content, msgId, calls, pending, asking, messages, lost>>

Next ==
  \/ Emit \/ Deliver \/ Disconnect \/ StreamFails \/ StreamEnds \/ Send
  \/ \E t \in Tasks : Sent(t) \/ SendFails(t)

\* The client reads what the workflow has sent, and finishes a stream that is over.
RemoteFairness == WF_remoteVars(Deliver) /\ WF_remoteVars(StreamEnds)

Spec == Init /\ [][Next]_remoteVars /\ RemoteFairness

-----------------------------------------------------------------------------
(* Properties. *)

\* Every call of a tool is in the messages once and has at most one response,
\* after it, though two tasks may show the call and its question may be answered
\* by a third (_seen_tool_call_ids, _seen_tool_results).
CallsPaired ==
  \A n \in DOMAIN messages :
    /\ messages[n].role \in {"call", "tool"} =>
         \A m \in DOMAIN messages :
           messages[m].role = messages[n].role /\ messages[m].id = messages[n].id => m = n
    /\ messages[n].role = "tool" => 
         \E m \in 1..n-1 : messages[m].role = "call" /\ messages[m].id = messages[n].id

\* What was received of a text is in its message, whole and once, after any
\* disconnects and with the messages of other tasks in between.
Pieces(id) ==
  FlattenSeq([n \in DOMAIN messages |->
                IF messages[n].role = "assistant" /\ messages[n].id = id
                THEN messages[n].body ELSE <<>>])

\* As the workflow has sent it, up to where the client is: what was not replaced since.
Counts(t, n, end) ==
  log[n].task = t /\ \A m \in n + 1..end - 1 : log[m].task = t => log[m].op = "append"
TextOf(t) ==
  FlattenSeq([n \in 1..stream.next - 1 |-> IF Counts(t, n, stream.next) THEN <<n>> ELSE <<>>])
ShownIsSent ==
  \A t \in Tasks : Kind[t] = "text" /\ msgId[t] # 0 => Pieces(msgId[t]) = TextOf(t)

Seen == SubSeq(log, 1, stream.next - 1)
Waits(t) == Started(t, Seen) /\ ~Ended(t, Seen) /\ ~IsOver(Seen)

\* An answer goes to a request that is open as far as the client can know, and a
\* question can be answered until it was, or gave way to another request.
Answerable ==
  /\ pending # None => Waits(pending)
  /\ \A t \in Tasks \ lost : Kind[t] = "wait" /\ Waits(t) => pending = t

\* What the user sees of a remote session is what the workflow did.
RemoteSafe == CallsPaired /\ ShownIsSent /\ Answerable

\* When the workflow is over the client's stream ends, whatever disconnects there
\* are, and no call is left running on the screen if the end was seen.
RemoteSettles == IsOver(log) ~> ~stream.up /\ (stream.over => calls.open = {})

=============================================================================
