--------------------------- MODULE SessionSwitch ---------------------------
(***************************************************************************)
(* The terminal between its own session and remote ones: /resume lists     *)
(* both, the one that is picked is loaded or attached                      *)
(* (RemoteSessionManager), prompts and answers go to the one or the other, *)
(* and the stream of the remote session shows its requests meanwhile.      *)
(*                                                                         *)
(* The application handles one command, prompt or panel at a time, the     *)
(* stream runs beside it.  Abstracted: texts, and what the stream shows    *)
(* other than requests; the states of the panels are those of BottomPanel. *)
(***************************************************************************)
EXTENDS Integers, Sequences, FiniteSets

CONSTANTS
  Locals,     \* saved sessions
  Remotes,    \* workflows of the user
  None,
  MaxEvents,  \* bound: events of a workflow
  MaxHandled  \* bound: commands, prompts and panels that are handled

VARIABLES
  workflows, \* external: the events of each workflow
  saved,     \* the saved sessions that are there
  agent,     \* agent_loop.session_id
  source,    \* RemoteEventsSource: [id, seen, pending, over], pending the event that asks
  stream,    \* the task of the stream: "none", "reads", or it shows what it has read
  waits,     \* _pending_waiting_input: the event that asks, or 0
  screen,    \* [of, remote]: whose messages are shown, and event_handler.is_remote
  panels,    \* [question, picker]: the open question's event or 0, the sessions or {}
  handler,   \* what the application is handling: [what, text, ask, sent]
  handled,   \* count of what was handled
  happened   \* history: what is not repaired after it happened

switchVars == <<workflows, saved, agent, source, stream, waits, screen, panels, handler, handled, happened>>

SwitchAssumption ==
  /\ IsFiniteSet(Locals) /\ IsFiniteSet(Remotes) /\ Locals \intersect Remotes = {}
  /\ None \notin Locals \union Remotes /\ MaxEvents \in Nat /\ MaxHandled \in Nat

Asks == {"ask", "choose"}
Sessions == Locals \union Remotes
Idle == [what |-> "idle", text |-> "typed", ask |-> 0, sent |-> FALSE]
Detached == [id |-> None, seen |-> 0, pending |-> 0, over |-> FALSE]
NoPanel == [question |-> 0, picker |-> {}]
NoStream == [now |-> "none", event |-> 0]

Init ==
  /\ workflows = [r \in Remotes |-> <<>>]
  /\ saved = Locals /\ agent = None
  /\ source = Detached /\ stream = NoStream /\ waits = 0
  /\ screen = [of |-> None, remote |-> FALSE]
  /\ panels = NoPanel /\ handler = Idle /\ handled = 0
  /\ happened = [strayed |-> FALSE, orphaned |-> FALSE, dropped |-> FALSE, crashed |-> FALSE]

StartsAlone == \A r \in Remotes : workflows[r] = <<>>

-----------------------------------------------------------------------------
(* The workflows, and other programs that delete sessions. *)

Latest(r) == workflows[r][Len(workflows[r])]
Waiting(r) == workflows[r] # <<>> /\ Latest(r) \in Asks

Emit(r, event) ==
  /\ Len(workflows[r]) < MaxEvents /\ ~Waiting(r)
  /\ workflows[r] # <<>> => Latest(r) # "end"
  /\ workflows' = [workflows EXCEPT ![r] = Append(@, event)]
  /\ UNCHANGED <<saved, agent, source, stream, waits, screen, panels, handler, handled, happened>>

Delete(l) ==
  /\ l \in saved /\ saved' = saved \ {l}
  /\ UNCHANGED <<workflows, agent, source, stream, waits, screen, panels, handler, handled, happened>>

-----------------------------------------------------------------------------
(* The stream, _consume_stream. *)

\* The events source has read an event, and knows what it says, before it is shown.
Read ==
  LET log == workflows[source.id]
      n == source.seen + 1 IN
  /\ stream.now = "reads" /\ source.id # None /\ n <= Len(log)
  /\ source' = [source EXCEPT !.seen = n,
                  !.pending = IF log[n] \in Asks THEN n ELSE IF log[n] = "answered" THEN 0 ELSE @,
                  !.over = log[n] = "end"]
  /\ stream' = [now |-> "shows", event |-> n]
  /\ UNCHANGED <<workflows, saved, agent, waits, screen, panels, handler, handled, happened>>

\* A request is kept and its question opened, or the prompt; that it was answered puts
\* the prompt back.  The last event ends the stream, which forgets what it waits for.
Shows ==
  LET event == workflows[source.id][stream.event] IN
  /\ stream.now = "shows"
  /\ stream' = IF event = "end" THEN NoStream ELSE [now |-> "reads", event |-> 0]
  /\ waits' = CASE event \in Asks -> stream.event [] OTHER -> 0
  /\ panels' = CASE event = "choose" -> [panels EXCEPT !.question = stream.event]
                 [] event = "ask" \/ (event = "answered" /\ waits # 0) -> NoPanel
                 [] OTHER -> panels
  /\ happened' = [happened EXCEPT !.orphaned = @ \/ (event = "end" /\ panels.question # 0)]
  /\ UNCHANGED <<workflows, saved, agent, source, screen, handler, handled>>

\* The connection fails for good, or is lost too often.
StreamFails ==
  /\ stream.now = "reads"
  /\ stream' = NoStream /\ waits' = 0
  /\ happened' = [happened EXCEPT !.orphaned = @ \/ panels.question # 0]
  /\ UNCHANGED <<workflows, saved, agent, source, screen, panels, handler, handled>>

-----------------------------------------------------------------------------
(* /resume, _show_session_picker. *)

Handles(what) ==
  /\ handler.what = "idle" /\ handled < MaxHandled /\ handled' = handled + 1
  /\ ~happened.crashed
  /\ handler' = [Idle EXCEPT !.what = what]

ShowPicker ==
  /\ panels = NoPanel /\ Handles("listing")
  /\ UNCHANGED <<workflows, saved, agent, source, stream, waits, screen, panels, happened>>

\* Running workflows are offered, or none if the list fails or takes too long: then the
\* saved ones are.
Offered(sessions) == panels' = [panels EXCEPT !.picker = sessions]
Running == {r \in Remotes : workflows[r] = <<>> \/ Latest(r) # "end"}

Listed ==
  /\ handler.what = "listing"
  /\ Offered(saved \union Running) \/ Offered(saved)
  /\ handler' = Idle
  /\ UNCHANGED <<workflows, saved, agent, source, stream, waits, screen, handled, happened>>

Cancelled ==
  /\ panels.picker # {} /\ Handles("idle") /\ panels' = NoPanel
  /\ UNCHANGED <<workflows, saved, agent, source, stream, waits, screen, happened>>

\* Mutant: a picked session takes the place of the remote one, whose stream goes on.
DetachStreaming == source' = Detached /\ waits' = 0 /\ UNCHANGED stream

\* detach: the stream is cancelled, the connection closed.
Detach == source' = Detached /\ stream' = NoStream /\ waits' = 0

\* A session is picked: the prompt comes back before it is loaded.
Picked(session) ==
  /\ session \in panels.picker
  /\ Handles("idle") /\ panels' = NoPanel

\* _resume_local_session: the remote one is left before the saved one is looked for.
ResumeLocal(l) ==
  /\ Picked(l)
  /\ Detach
  /\ IF l \in saved
     THEN /\ agent' = l /\ screen' = [of |-> l, remote |-> FALSE]
          /\ happened' = [happened EXCEPT !.strayed = FALSE]
     ELSE /\ happened' = [happened EXCEPT !.strayed = @ \/ source.id # None]
          /\ UNCHANGED <<agent, screen>>
  /\ UNCHANGED <<workflows, saved>>

\* _resume_remote_session, attach, start_stream
ResumeRemote(r) ==
  /\ Picked(r)
  /\ source' = [Detached EXCEPT !.id = r] /\ stream' = [now |-> "reads", event |-> 0] /\ waits' = 0
  /\ screen' = [of |-> r, remote |-> TRUE]
  /\ happened' = [happened EXCEPT !.strayed = FALSE]
  /\ UNCHANGED <<workflows, saved, agent>>

\* _clear_history: the handler of events is told only if a remote session is attached.
ClearHistory ==
  /\ panels = NoPanel /\ Handles("idle")
  /\ Detach
  /\ agent' = None
  /\ screen' = [of |-> None, remote |-> IF source.id # None THEN FALSE ELSE screen.remote]
  /\ UNCHANGED <<workflows, saved, panels, happened>>

-----------------------------------------------------------------------------
(* Prompts and answers. *)

\* validate_input
MayPrompt == source.id # None /\ ~source.over /\ source.pending # 0

\* _handle_remote_user_message and the beginning of send_prompt.
TypePrompt ==
  /\ panels = NoPanel /\ MayPrompt
  /\ handler.what = "idle" /\ handled < MaxHandled /\ handled' = handled + 1 /\ ~happened.crashed
  /\ handler' = [what |-> "sends", text |-> "typed", ask |-> source.pending, sent |-> FALSE]
  /\ waits' = 0
  /\ UNCHANGED <<workflows, saved, agent, source, stream, screen, panels, happened>>

\* on_question_app_answered, _handle_remote_answer; nothing if no request is kept.  A
\* source that has no request takes the answer without sending it.
AnswerQuestion ==
  /\ panels.question # 0 /\ panels.picker = {}
  /\ waits # 0 /\ source.id # None
  /\ handler.what = "idle" /\ handled < MaxHandled /\ handled' = handled + 1 /\ ~happened.crashed
  /\ handler' = [what |-> "sends", text |-> "answer", ask |-> source.pending, sent |-> FALSE]
  /\ waits' = 0
  /\ UNCHANGED <<workflows, saved, agent, source, stream, screen, panels, happened>>

\* on_question_app_cancelled
CancelQuestion ==
  /\ panels.question # 0 /\ panels.picker = {} /\ waits # 0
  /\ Handles("idle") /\ panels' = NoPanel /\ waits' = 0
  /\ UNCHANGED <<workflows, saved, agent, source, stream, screen, happened>>

\* The workflow takes the answer, which names its task.
Delivered ==
  /\ handler.what = "sends" /\ ~handler.sent
  /\ Waiting(source.id) /\ handler.ask = Len(workflows[source.id])
  /\ Len(workflows[source.id]) < MaxEvents
  /\ workflows' = [workflows EXCEPT ![source.id] = Append(@, "answered")]
  /\ handler' = [handler EXCEPT !.sent = TRUE]
  /\ UNCHANGED <<saved, agent, source, stream, waits, screen, panels, handled, happened>>

\* The call returns: the request of the source is cleared, whichever it is by now, and
\* after an answer so is the panel, whichever question it shows by now.
Returns ==
  /\ handler.what = "sends" /\ (handler.sent \/ handler.ask = 0)
  /\ handler' = Idle
  /\ source' = [source EXCEPT !.pending = IF handler.ask = 0 THEN @ ELSE 0]
  /\ panels' = IF handler.text = "answer" THEN NoPanel ELSE panels
  /\ happened' = [happened EXCEPT !.dropped = @ \/ (handler.ask # 0 /\ source.pending \notin {0, handler.ask})]
  /\ UNCHANGED <<workflows, saved, agent, stream, waits, screen, handled>>

\* The call fails, also after it was delivered: what was waited for is restored, and an
\* error is shown, but nothing catches that of an answer.
SendFails ==
  /\ handler.what = "sends" /\ handler.ask # 0
  /\ handler' = Idle /\ waits' = handler.ask
  /\ happened' = [happened EXCEPT !.crashed = @ \/ handler.text = "answer"]
  /\ UNCHANGED <<workflows, saved, agent, source, stream, screen, panels, handled>>

SwitchNext ==
  \/ \E r \in Remotes, event \in Asks \union {"end"} : Emit(r, event)
  \/ \E l \in Locals : Delete(l) \/ ResumeLocal(l)
  \/ Read \/ Shows \/ StreamFails
  \/ ShowPicker \/ Listed \/ Cancelled \/ ClearHistory
  \/ \E r \in Remotes : ResumeRemote(r)
  \/ TypePrompt \/ AnswerQuestion \/ CancelQuestion \/ Delivered \/ Returns \/ SendFails

Spec == Init /\ [][SwitchNext]_switchVars

-----------------------------------------------------------------------------
(* Properties. *)

TypeOK ==
  /\ source.id \in Remotes \union {None} /\ source.seen \in 0..MaxEvents /\ source.pending \in 0..MaxEvents
  /\ stream.now \in {"none", "reads", "shows"} /\ waits \in 0..MaxEvents
  /\ agent \in Locals \union {None} /\ screen.of \in Sessions \union {None}
  /\ panels.picker \subseteq Sessions /\ panels.question \in 0..MaxEvents

\* The messages on the screen are those of the session that the next prompt goes to, and
\* the handler of events knows whether it is a remote one; not so once a saved session
\* that was picked could not be loaded, when the remote one was left already.
ScreenIsSession ==
  happened.strayed \/
    /\ screen.of = (IF source.id = None THEN agent ELSE source.id)
    /\ screen.remote = (source.id # None)

\* Nothing is read of a session that was left: the stream is that of the source.
OneStream == stream.now # "none" => source.id # None

\* Nothing is under way: the stream has caught up, and no prompt or answer is sent.
Quiet ==
  /\ source.id # None /\ stream.now = "reads" /\ source.seen = Len(workflows[source.id])
  /\ handler.what = "idle"

\* A question that is open can be answered, and its answer goes to the request it shows:
\* whatever was sent, failed and arrived meanwhile.  Not so when the stream ended while
\* it was open (nothing closes it), or an answer returned after the next request.
QuestionIsAsked ==
  panels.question # 0 /\ handler.what = "idle" /\ ~happened.orphaned /\ ~happened.crashed =>
    /\ waits # 0 /\ source.id # None
    /\ (Quiet /\ ~happened.dropped => source.pending = panels.question)

\* What the workflow waits for can be given to it, once the stream has caught up.
RequestIsKept ==
  Quiet /\ Waiting(source.id) /\ ~happened.dropped => source.pending = source.seen

SwitchSafe == ScreenIsSession /\ OneStream /\ QuestionIsAsked /\ RequestIsKept
=============================================================================
