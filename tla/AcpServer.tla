----------------------------- MODULE AcpServer ------------------------------
(***************************************************************************)
(* The sessions of the ACP server (VibeAcpAgentLoop, AcpSessionLoop).      *)
(*                                                                         *)
(* An editor sends requests; each is handled by a task of its own, all on  *)
(* one event loop, so that a handler runs alone from one await to the      *)
(* next.  A session is an object with an agent loop; `open` says which     *)
(* object a session id stands for.  A prompt runs as a task of its object, *)
(* and so do the updates that are sent in the background.                  *)
(*                                                                         *)
(* Abstracted: what prompts say and what updates show; of the agent loop,  *)
(* the log that it writes, the profile, and whether it still runs.  Ids    *)
(* are numbers in the order in which they are made up.                     *)
(***************************************************************************)
EXTENDS Integers, Sequences, FiniteSets

CONSTANTS
  MaxRequests, \* bound: requests of the editor, numbered in the order sent
  MaxSessions, \* bound: session objects ever created
  MaxIds,      \* bound: ids of sessions and logs ever generated
  Bypassing    \* agent profiles that bypass tool permissions

AcpAssumption ==
  /\ MaxRequests \in Nat /\ MaxSessions \in Nat \ {0} /\ MaxIds \in Nat \ {0}
  /\ Bypassing \subseteq {"default", "chat"}

VARIABLES
  open,      \* self.sessions: the object of an id, or None
  sessions,  \* the session objects created so far, in order
  ids,       \* number of ids generated so far
  stored,    \* ids of sessions that are on disk
  reqs,      \* the requests
  displaced  \* history: objects whose id was loaded again, or whose log was

acpVars == <<open, sessions, ids, stored, reqs, displaced>>

None == 0
Requests == 1..MaxRequests
Ids == 1..MaxIds
Objects == 1..MaxSessions
Profiles == {"default", "chat"}

\* prompt is _prompt_task; tasks are those of prompts, background those of
\* updates; asks is the object whose agent loop the approval callback tells of
\* what was approved for good, None without a callback.  halfway is history: the last
\* change of mode failed after the profile had changed.
SessionStates ==
  [id : Ids, log : Ids, closed : BOOLEAN, prompt : Requests \union {None},
   background : BOOLEAN, profile : Profiles, asks : Objects \union {None}, halfway : BOOLEAN]

\* at is the await where the handler stands; task the state of a prompt's task,
\* "done" until its callbacks have run.
ReqStates ==
  [at : {"new", "prompt", "command", "cancel", "tasks", "loop", "replay", "fork", "mode",
         "option", "answered"},
   on : Objects \union {None}, waits : Requests \union {None},
   task : {"none", "run", "cancelling", "done", "gone"}, stop : {"none", "end", "cancelled", "refused"}]

TypeOK ==
  /\ open \in [Ids -> Objects \union {None}]
  /\ DOMAIN sessions \subseteq Objects /\ \A o \in DOMAIN sessions : sessions[o] \in SessionStates
  /\ ids \in 0..MaxIds /\ stored \subseteq Ids
  /\ reqs \in [Requests -> ReqStates]
  /\ displaced \subseteq Objects

New == [at |-> "new", on |-> None, waits |-> None, task |-> "none", stop |-> "none"]

Init ==
  /\ open = [i \in Ids |-> None]
  /\ sessions = <<>>
  /\ ids = 0 /\ stored = {}
  /\ reqs = [r \in Requests |-> New]
  /\ displaced = {}

Alive(r) == reqs[r].task \in {"run", "cancelling"}
TasksOf(o) == {r \in Requests : Alive(r) /\ reqs[r].on = o}

\* The next request of the editor arrives.
Arrives(r) == reqs[r].at = "new" /\ \A q \in 1..r-1 : reqs[q].at # "new"

\* _get_session: the request is answered with an error if there is none.
Finds(r, i, o) ==
  /\ Arrives(r)
  /\ open[i] # None /\ o = open[i]

Answer(r, s) == reqs' = [reqs EXCEPT ![r].at = "answered", ![r].stop = s]
Step(r, o, where) == reqs' = [reqs EXCEPT ![r].at = where, ![r].on = o]

\* Mutant of Spawned.
SpawnedAlways(s) == [s EXCEPT !.background = TRUE]

\* spawn: refused once the session is closed.
Spawned(s) == [s EXCEPT !.background = @ \/ ~s.closed]

-----------------------------------------------------------------------------
(* New, loaded and forked sessions. *)

\* _create_acp_session: registers the object, sets the callback, sends the commands.
Created(i, log, profile) ==
  [id |-> i, log |-> log, closed |-> FALSE, prompt |-> None, background |-> TRUE,
   profile |-> profile,
   asks |-> IF profile \in Bypassing THEN None ELSE Len(sessions) + 1, halfway |-> FALSE]

Create(i, log, profile) ==
  /\ Len(sessions) < MaxSessions
  /\ sessions' = Append(sessions, Created(i, log, profile))
  /\ open' = [open EXCEPT ![i] = Len(sessions) + 1]

NewSession(r) ==
  /\ Arrives(r) /\ ids < MaxIds
  /\ Create(ids + 1, ids + 1, "default")
  /\ ids' = ids + 1
  /\ Answer(r, "end")
  /\ UNCHANGED <<stored, displaced>>

\* load_session: what is on disk, whether it is open or not; then the replay.
LoadSession(r, i) ==
  /\ Arrives(r) /\ i \in stored
  /\ Create(i, i, "default")
  /\ Step(r, Len(sessions) + 1, "replay")
  /\ displaced' = displaced \union
       {o \in DOMAIN sessions : sessions[o].id = i \/ sessions[o].log = i}
  /\ UNCHANGED <<ids, stored>>

Replayed(r) ==
  /\ reqs[r].at = "replay"
  /\ sessions' = [sessions EXCEPT ![reqs[r].on] = Spawned(@)]
  /\ Answer(r, "end")
  /\ UNCHANGED <<open, ids, stored, displaced>>

\* fork_session: refused while the agent loop runs; the copy is saved, then
\* registered.
ForkSession(r, i, o) ==
  /\ Finds(r, i, o)
  /\ IF sessions[o].prompt # None /\ Alive(sessions[o].prompt)
       THEN Answer(r, "refused")
       ELSE Step(r, o, "fork")
  /\ UNCHANGED <<open, sessions, ids, stored, displaced>>

Forked(r) ==
  /\ reqs[r].at = "fork" /\ ids < MaxIds
  /\ Create(ids + 1, ids + 1, sessions[reqs[r].on].profile)
  /\ ids' = ids + 1 /\ stored' = stored \union {ids + 1}
  /\ Answer(r, "end")
  /\ UNCHANGED displaced

-----------------------------------------------------------------------------
(* Prompts. *)

\* prompt: one at a time, as far as _prompt_task tells.  A builtin command is
\* awaited without being the session's prompt.
Prompt(r, i, o) ==
  /\ Finds(r, i, o)
  /\ \/ /\ sessions[o].prompt # None
        /\ Answer(r, "refused")
        /\ UNCHANGED sessions
     \/ /\ sessions[o].prompt = None
        /\ sessions' = [sessions EXCEPT ![o].prompt = r]
        /\ reqs' = [reqs EXCEPT ![r].at = "prompt", ![r].on = o, ![r].task = "run"]
     \/ /\ sessions[o].prompt = None
        /\ Step(r, o, "command")
        /\ UNCHANGED sessions
  /\ UNCHANGED <<open, ids, stored, displaced>>

\* The agent loop saves its log, and may compact, which starts another one.
Saves(o) == stored' = stored \union {sessions[o].log}

Compacts(o) ==
  /\ ids < MaxIds
  /\ ids' = ids + 1
  /\ sessions' = [sessions EXCEPT ![o].log = ids + 1]
  /\ stored' = stored \union {sessions[o].log, ids + 1}

Turn(r) ==
  /\ reqs[r].task = "run"
  /\ Compacts(reqs[r].on)
  /\ UNCHANGED <<open, reqs, displaced>>

\* The task ends: by itself, with an error, or because it was cancelled.
TaskEnds(r) ==
  /\ Alive(r)
  /\ \E s \in {"end"} \union (IF reqs[r].task = "cancelling" THEN {"cancelled"} ELSE {"refused"}) :
       reqs' = [reqs EXCEPT ![r].task = "done", ![r].stop = s]
  /\ Saves(reqs[r].on)
  /\ UNCHANGED <<open, sessions, ids, displaced>>

\* Its callbacks: the session's prompt is cleared, if it still is this one; the
\* handler wakes and answers.
Prompted(r) ==
  LET o == reqs[r].on
      cleared == [sessions[o] EXCEPT !.prompt = IF @ = r THEN None ELSE @]
  IN  /\ reqs[r].task = "done"
      /\ sessions' = [sessions EXCEPT ![o] =
           IF reqs[r].stop = "refused" THEN cleared ELSE Spawned(cleared)]
      /\ reqs' = [reqs EXCEPT ![r].task = "gone", ![r].at = "answered"]
      /\ UNCHANGED <<open, ids, stored, displaced>>

\* A builtin command ends: /compact, /reload, which tells of the commands again,
\* or one that only replies.
CommandEnds(r) ==
  /\ reqs[r].at = "command"
  /\ \/ Compacts(reqs[r].on)
     \/ /\ sessions' = [sessions EXCEPT ![reqs[r].on] = Spawned(@)]
        /\ Saves(reqs[r].on)
        /\ UNCHANGED ids
     \/ UNCHANGED <<sessions, ids, stored>>
  /\ Answer(r, "end")
  /\ UNCHANGED <<open, displaced>>

BackgroundEnds(o) ==
  /\ sessions[o].background
  /\ sessions' = [sessions EXCEPT ![o].background = FALSE]
  /\ UNCHANGED <<open, ids, stored, reqs, displaced>>

-----------------------------------------------------------------------------
(* Cancelling and closing. *)

Cancelled(rs) == [q \in Requests |->
  IF q \in rs /\ reqs[q].task = "run" THEN [reqs[q] EXCEPT !.task = "cancelling"] ELSE reqs[q]]

\* cancel: the prompt's task is cancelled and waited for.
CancelPrompt(r, i, o) ==
  LET t == sessions[o].prompt IN
  /\ Finds(r, i, o)
  /\ IF t = None \/ ~Alive(t)
       THEN Answer(r, "end")
       ELSE reqs' = [Cancelled({t}) EXCEPT ![r].at = "cancel", ![r].on = o, ![r].waits = t]
  /\ UNCHANGED <<open, sessions, ids, stored, displaced>>

PromptCancelled(r) ==
  /\ reqs[r].at = "cancel" /\ ~Alive(reqs[r].waits)
  /\ Answer(r, "end")
  /\ UNCHANGED <<open, sessions, ids, stored, displaced>>

\* close_session: nobody finds the session any more, its tasks are cancelled and
\* waited for, then the agent loop is closed.
Close(r, i, o) ==
  /\ Finds(r, i, o)
  /\ open' = [open EXCEPT ![i] = None]
  /\ sessions' = [sessions EXCEPT ![o].closed = TRUE]
  /\ reqs' = [Cancelled(TasksOf(o)) EXCEPT ![r].at = "tasks", ![r].on = o]
  /\ UNCHANGED <<ids, stored, displaced>>

TasksEnded(r) ==
  /\ reqs[r].at = "tasks"
  /\ TasksOf(reqs[r].on) = {} /\ ~sessions[reqs[r].on].background
  /\ sessions' = [sessions EXCEPT ![reqs[r].on].prompt = None]
  /\ reqs' = [reqs EXCEPT ![r].at = "loop"]
  /\ UNCHANGED <<open, ids, stored, displaced>>

LoopClosed(r) ==
  /\ reqs[r].at = "loop"
  /\ Answer(r, "end")
  /\ UNCHANGED <<open, sessions, ids, stored, displaced>>

-----------------------------------------------------------------------------
(* Modes and other options. *)

\* set_session_model, set_config_option: the configuration is loaded again, also
\* while a prompt runs.
SetOption(r, i, o) ==
  /\ Finds(r, i, o)
  /\ Step(r, o, "option")
  /\ UNCHANGED <<open, sessions, ids, stored, displaced>>

OptionSet(r) ==
  /\ reqs[r].at = "option"
  /\ \/ Saves(reqs[r].on) /\ Answer(r, "end")
     \/ (Saves(reqs[r].on) \/ UNCHANGED stored) /\ Answer(r, "refused")
  /\ UNCHANGED <<open, sessions, ids, displaced>>

\* _create_approval_callback: of the object that has the session's id by now.
Callback(s) == IF s.profile \in Bypassing THEN None ELSE open[s.id]

\* The callback is set or removed as the profile says.
Asking(s) == [s EXCEPT !.asks = Callback(s), !.halfway = FALSE]

\* _apply_mode_change: nothing to wait for if the profile is the current one,
\* and then the callback is set all the same.
SetMode(r, i, o, p) ==
  /\ Finds(r, i, o)
  /\ IF sessions[o].profile = p
       THEN /\ sessions' = [sessions EXCEPT ![o] = Asking(@)]
            /\ Answer(r, "end")
       ELSE /\ sessions' = [sessions EXCEPT ![o].profile = p]
            /\ Step(r, o, "mode")
  /\ UNCHANGED <<open, ids, stored, displaced>>

\* The agent loop is reloaded and saves; the callback is that of the profile by
\* then: an error if one is needed and the session is gone.
ModeSet(r) ==
  LET o == reqs[r].on
      lost == sessions[o].profile \notin Bypassing /\ open[sessions[o].id] = None
  IN  /\ reqs[r].at = "mode"
      /\ IF lost
           THEN Answer(r, "refused") /\ UNCHANGED sessions
           ELSE /\ sessions' = [sessions EXCEPT ![o] = Asking(@)]
                /\ Answer(r, "end")
      /\ Saves(o)
      /\ UNCHANGED <<open, ids, displaced>>

\* The reload raises, where it saves or later: the profile has changed, the callback has not.
ModeFails(r) ==
  /\ reqs[r].at = "mode"
  /\ sessions' = [sessions EXCEPT ![reqs[r].on].halfway = TRUE]
  /\ Saves(reqs[r].on) \/ UNCHANGED stored
  /\ Answer(r, "refused")
  /\ UNCHANGED <<open, ids, displaced>>

-----------------------------------------------------------------------------
Next ==
  \/ \E r \in Requests :
       \/ NewSession(r) \/ Replayed(r) \/ Forked(r)
       \/ Turn(r) \/ TaskEnds(r) \/ Prompted(r) \/ CommandEnds(r)
       \/ PromptCancelled(r) \/ TasksEnded(r) \/ LoopClosed(r) \/ ModeSet(r)
       \/ ModeFails(r)
       \/ OptionSet(r)
       \/ \E i \in Ids :
            \/ LoadSession(r, i)
            \/ \E o \in DOMAIN sessions :
                 \/ ForkSession(r, i, o) \/ Prompt(r, i, o)
                 \/ CancelPrompt(r, i, o) \/ Close(r, i, o) \/ SetOption(r, i, o)
                 \/ \E p \in Profiles : SetMode(r, i, o, p)
  \/ \E o \in DOMAIN sessions : BackgroundEnds(o)

\* The event loop runs what is ready; a cancelled task ends, and so do updates
\* and commands.  A prompt may run for ever, and nobody has to send a request.
AcpFairness ==
  /\ \A r \in Requests :
       /\ WF_acpVars(TaskEnds(r) /\ reqs[r].task = "cancelling")
       /\ WF_acpVars(Prompted(r) \/ PromptCancelled(r) \/ TasksEnded(r) \/ LoopClosed(r))
  /\ \A o \in Objects : WF_acpVars(o \in DOMAIN sessions /\ BackgroundEnds(o))

Spec == Init /\ [][Next]_acpVars /\ AcpFairness

-----------------------------------------------------------------------------
(* Properties. *)

\* No session runs two prompts at once, also when a prompt follows a cancelled
\* one that has not ended yet (prompt, cancel_prompt, _clear_prompt_task).
OnePromptTask ==
  \A o \in DOMAIN sessions :
    \A r \in TasksOf(o) : TasksOf(o) = {r} /\ sessions[o].prompt = r

\* Once the agent loop of a session is being closed, no prompt of the session runs, also
\* none that was cancelled, and none of its updates, whatever asked for one while the
\* tasks were waited for (AcpSessionLoop.close, _close_agent_loop).  Handlers of other
\* requests that had found the session, of a mode or a built-in command, may still run.
ClosedQuiet ==
  \A r \in Requests : reqs[r].at = "loop" =>
    TasksOf(reqs[r].on) = {} /\ ~sessions[reqs[r].on].background

\* A prompt that runs can be cancelled: its session is found under the id that
\* the editor knows, unless it is being closed or was loaded again.
Reachable ==
  \A r \in Requests : reqs[r].task = "run" =>
    LET o == reqs[r].on IN open[sessions[o].id] = o \/ o \in displaced

\* Two sessions that are open write to different logs, after a compaction and a
\* fork too, unless one was loaded while the other was open.
LogsApart ==
  \A o, q \in DOMAIN sessions :
    o # q /\ sessions[o].log = sessions[q].log =>
      \E d \in {o, q} : d \in displaced \/ sessions[d].closed

\* What is approved for good in a session goes to its own agent loop and to no other; and
\* the session asks exactly if its profile does, unless a change of mode is under way or the
\* last one failed half-way, until one succeeds, to the same mode too (_apply_mode_change).
\* Exempt are sessions that were closed or loaded again.
AsksAsProfile ==
  \A o \in DOMAIN sessions \ displaced :
    \/ sessions[o].closed
    \/ /\ sessions[o].asks \in {None, o}
       /\ \/ sessions[o].asks = (IF sessions[o].profile \in Bypassing THEN None ELSE o)
          \/ sessions[o].halfway
          \/ \E r \in Requests : reqs[r].at = "mode" /\ reqs[r].on = o

\* What the editor relies on: one prompt at a time, no prompt and no update left behind
\* by a session that is closed, every prompt within reach of a cancellation, a log for
\* every session, approvals as its mode says; with the exemptions of each part.
AcpSafe == OnePromptTask /\ ClosedQuiet /\ Reachable /\ LogsApart /\ AsksAsProfile

\* A request to cancel or close is answered, and so is a prompt that was
\* cancelled (cancel_prompt, close).
CancelSettles ==
  \A r \in Requests :
    reqs[r].at \in {"cancel", "tasks"} \/ reqs[r].task = "cancelling" ~> reqs[r].at = "answered"

=============================================================================
