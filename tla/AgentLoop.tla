----------------------------- MODULE AgentLoop ------------------------------
(***************************************************************************)
(* The conversation that AgentLoop keeps and the turns that extend it.     *)
(*                                                                         *)
(* A model accepts a conversation in which every assistant message that    *)
(* calls tools is followed at once by one response to each of its calls.   *)
(* The loop keeps to that while the tools of an answer run as concurrent   *)
(* tasks, each of which appends its own response; while the user may       *)
(* interrupt at any suspension point, run `!` commands whose result is     *)
(* appended when they end, clear or compact the conversation; and while    *)
(* hooks and middleware append messages.  Before a user message and before *)
(* a compaction, _fill_missing_tool_responses inserts a placeholder for    *)
(* each call that has no response.                                         *)
(*                                                                         *)
(* An interrupt that finds the turn in queue.get() waits for the cancelled *)
(* tool tasks.  One that finds it elsewhere abandons the generator that    *)
(* owns the tasks: it is finalised later and then cancels them, and nobody *)
(* waits for them.                                                         *)
(*                                                                         *)
(* Abstracted: the system message, the text of messages, events.           *)
(***************************************************************************)
EXTENDS Integers, Sequences, SequencesExt, FiniteSets

CONSTANTS
  MaxInterrupts,  \* bound: interrupts
  MaxCalls,       \* bound: tool calls ever issued
  MaxPerAnswer,   \* bound: tool calls in one answer
  MaxPrompts,     \* bound: messages of the user
  MaxRequests,    \* bound: requests to the model
  MaxCommands,    \* bound: `!` commands
  MaxClears,      \* bound: /clear
  MaxCompacts     \* bound: compactions

ASSUME LoopAssumption ==
  /\ {MaxInterrupts, MaxCalls, MaxPerAnswer, MaxPrompts, MaxRequests, MaxCommands,
      MaxClears, MaxCompacts} \subseteq Nat

VARIABLES
  messages,  \* the conversation without its system message
  pc,        \* where the current turn or compaction stands
  failed,    \* invalid calls of the current answer, not yet reported
  batch,     \* the valid calls of the current answer
  task,      \* the task of each tool call
  commands,  \* `!` commands that have not reported yet
  used,      \* how much of each bound is used up
  disturbed  \* history: tools were abandoned, or a `!` result came amid responses

vars == <<messages, pc, failed, batch, task, commands, used, disturbed>>

CallIds == 1..MaxCalls
None == 0

Message ==
  [role : {"user", "assistant", "tool", "placeholder"},
   calls : SUBSET CallIds, call : CallIds \union {None}]

User == [role |-> "user", calls |-> {}, call |-> None]
Assistant(S) == [role |-> "assistant", calls |-> S, call |-> None]
Response(c) == [role |-> "tool", calls |-> {}, call |-> c]
Placeholder(c) == [role |-> "placeholder", calls |-> {}, call |-> c]

Bounds == [interrupts : 0..MaxInterrupts, calls : 0..MaxCalls, prompts : 0..MaxPrompts, requests : 0..MaxRequests,
           commands : 0..MaxCommands, clears : 0..MaxClears, compacts : 0..MaxCompacts]

TypeOK ==
  /\ messages \in Seq(Message)
  /\ pc \in {"idle", "ready", "chat", "failed", "tools", "gather", "last",
             "summary", "counted", "autosummary", "autocounted"}
  /\ failed \subseteq CallIds /\ batch \subseteq CallIds
  /\ task \in [CallIds -> {"none", "running", "left", "cancelled", "done"}]
  /\ commands \in 0..MaxCommands
  /\ used \in Bounds
  /\ disturbed \in BOOLEAN

Init ==
  /\ messages = <<>>
  /\ pc = "idle"
  /\ failed = {} /\ batch = {}
  /\ task = [c \in CallIds |-> "none"]
  /\ commands = 0
  /\ used = [interrupts |-> 0, calls |-> 0, prompts |-> 0, requests |-> 0,
             commands |-> 0, clears |-> 0, compacts |-> 0]
  /\ disturbed = FALSE

Say(m) == messages' = Append(messages, m)

-----------------------------------------------------------------------------
(* _fill_missing_tool_responses *)

IsResponse(m) == m.role \in {"tool", "placeholder"}

\* The indices of the responses that follow message i at once.
Block(ms, i) ==
  {j \in (i + 1)..Len(ms) : \A k \in (i + 1)..j : IsResponse(ms[k])}

Responded(ms, i) == {ms[j].call : j \in Block(ms, i)}

\* Mutant of Missing: the last call of an answer is forgotten.
MissingButLast(ms, i) ==
  {c \in ms[i].calls \ Responded(ms, i) : \E d \in ms[i].calls : d > c}

\* The code counts the responses before it looks at the calls.
Missing(ms, i) ==
  IF Cardinality(Responded(ms, i)) < Cardinality(ms[i].calls)
    THEN ms[i].calls \ Responded(ms, i)
    ELSE {}

\* The responses that follow message i at once end with message k.
Ends(ms, i, k) ==
  /\ k \in i..Len(ms)
  /\ \A j \in (i + 1)..k : IsResponse(ms[j])
  /\ k < Len(ms) => ~IsResponse(ms[k + 1])

MissingBehind(ms, k) ==
  UNION {Missing(ms, i) : i \in {i \in 1..k : ms[i].role = "assistant" /\ Ends(ms, i, k)}}

\* A place of the filled conversation: that of a message, or that of a missing
\* response behind the block of responses that message k ends.
Places(ms) ==
  ((1..Len(ms)) \X {None}) \union UNION {{k} \X MissingBehind(ms, k) : k \in 1..Len(ms)}

\* Placeholders come in the order of the calls.
Upto(places, p) == {q \in places : q[1] < p[1] \/ (q[1] = p[1] /\ q[2] <= p[2])}

Place(places, n) == CHOOSE p \in places : Cardinality(Upto(places, p)) = n

Content(ms, p) == IF p[2] = None THEN ms[p[1]] ELSE Placeholder(p[2])

Filled(ms) ==
  LET places == Places(ms)
  IN  [n \in 1..Cardinality(places) |-> Content(ms, Place(places, n))]

-----------------------------------------------------------------------------
(* A turn: act, _conversation_loop, _perform_llm_turn *)

Submit ==
  /\ pc = "idle" /\ used.prompts < MaxPrompts
  /\ used' = [used EXCEPT !.prompts = @ + 1]
  /\ messages' = Append(Filled(messages), User)
  /\ pc' = "ready"
  /\ UNCHANGED <<failed, batch, task, commands, disturbed>>

\* The request takes the conversation as it is.
Send ==
  /\ used.requests < MaxRequests
  /\ used' = [used EXCEPT !.requests = @ + 1]
  /\ pc' = "chat"

\* run_before_turn: continue, inject a message or stop.
BeforeTurn ==
  /\ pc = "ready"
  /\ \/ Send /\ UNCHANGED messages
     \/ Send /\ Say(User)
     \/ pc' = "idle" /\ UNCHANGED <<messages, used>>
  /\ UNCHANGED <<failed, batch, task, commands, disturbed>>

\* The answer calls n tools, some of them unknown or with invalid arguments.
Answer ==
  /\ pc = "chat"
  /\ \E n \in 0..MaxPerAnswer :
       LET S == (used.calls + 1)..(used.calls + n) IN
       /\ S \subseteq CallIds
       /\ used' = [used EXCEPT !.calls = @ + n]
       /\ Say(Assistant(S))
       /\ failed' \in SUBSET S
       /\ batch' = S \ failed'
       /\ pc' = IF S = {} THEN "last" ELSE "failed"
  /\ UNCHANGED <<task, commands, disturbed>>

ChatFails ==
  /\ pc = "chat"
  /\ pc' = "idle"
  /\ UNCHANGED <<messages, failed, batch, task, commands, used, disturbed>>

\* _emit_failed_tool_events: the event is handled before the response is stored.
ReportFailed ==
  /\ pc = "failed"
  /\ \E c \in failed :
       /\ \A d \in failed : c <= d
       /\ Say(Response(c))
       /\ failed' = failed \ {c}
  /\ UNCHANGED <<pc, batch, task, commands, used, disturbed>>

\* _run_tools_concurrently
StartTools ==
  /\ pc = "failed" /\ failed = {} /\ batch # {}
  /\ task' = [c \in CallIds |-> IF c \in batch THEN "running" ELSE task[c]]
  /\ pc' = "tools"
  /\ UNCHANGED <<messages, failed, batch, commands, used, disturbed>>

\* Mutant of EndTask: the response is stored by the tool's branch and by the
\* handler of its exception.
EndTaskTwice(c) ==
  /\ task[c] \in {"running", "left", "cancelled"}
  /\ messages' = messages \o <<Response(c), Response(c)>>
  /\ task' = [task EXCEPT ![c] = "done"]
  /\ UNCHANGED <<pc, failed, batch, commands, used, disturbed>>

\* A tool returns, raises, is skipped, or is cancelled: one response each time.
EndTask(c) ==
  /\ task[c] \in {"running", "left", "cancelled"}
  /\ Say(Response(c))
  /\ task' = [task EXCEPT ![c] = "done"]
  /\ UNCHANGED <<pc, failed, batch, commands, used, disturbed>>

BatchDone == \A c \in batch : task[c] = "done"

\* The end of an LLM turn that called tools.  The loop goes on if the last
\* message is a response and the user has not cancelled a tool.
EndLLMTurn ==
  /\ \/ pc = "failed" /\ failed = {} /\ batch = {}
     \/ pc = "tools" /\ BatchDone
  /\ \/ pc' = IF IsResponse(Last(messages)) THEN "ready" ELSE "last"
     \/ pc' = "idle" /\ batch # {}
  /\ UNCHANGED <<messages, failed, batch, task, commands, used, disturbed>>

\* The post-turn hooks: the turn ends, or a hook asks for another round.
AfterTurn ==
  /\ pc = "last"
  /\ \/ pc' = "idle" /\ UNCHANGED messages
     \/ pc' = "ready" /\ Say(User)
  /\ UNCHANGED <<failed, batch, task, commands, used, disturbed>>

-----------------------------------------------------------------------------
(* Compaction, by the middleware (auto...) or by /compact; /clear *)

Automatic == pc \in {"autosummary", "autocounted"}

StartCompact ==
  /\ pc \in {"idle", "ready"}
  /\ used.requests < MaxRequests /\ used.compacts < MaxCompacts
  /\ messages # <<>>
  /\ messages' = Append(Filled(messages), User)
  /\ used' = [used EXCEPT !.requests = @ + 1, !.compacts = @ + 1]
  /\ pc' = IF pc = "ready" THEN "autosummary" ELSE "summary"
  /\ UNCHANGED <<failed, batch, task, commands, disturbed>>

\* The summary replaces the conversation; its tokens are counted afterwards.
Summarised ==
  /\ pc \in {"summary", "autosummary"}
  /\ messages' = <<User>>
  /\ pc' = IF Automatic THEN "autocounted" ELSE "counted"
  /\ UNCHANGED <<failed, batch, task, commands, used, disturbed>>

EndCompact ==
  \/ /\ pc = "counted"
     /\ pc' = "idle"
     /\ UNCHANGED <<messages, failed, batch, task, commands, used, disturbed>>
  \/ /\ pc = "autocounted"
     /\ Send
     /\ UNCHANGED <<messages, failed, batch, task, commands, disturbed>>

CompactFails ==
  /\ pc \in {"summary", "autosummary", "counted", "autocounted"}
  /\ pc' = "idle"
  /\ UNCHANGED <<messages, failed, batch, task, commands, used, disturbed>>

Clear ==
  /\ pc = "idle" /\ used.clears < MaxClears
  /\ used' = [used EXCEPT !.clears = @ + 1]
  /\ messages' = <<>>
  /\ UNCHANGED <<pc, failed, batch, task, commands, disturbed>>

-----------------------------------------------------------------------------
(* Interrupts, abandoned tasks, commands of the user *)

Interrupt ==
  /\ used.interrupts < MaxInterrupts
  /\ used' = [used EXCEPT !.interrupts = @ + 1]
  /\ failed' = {}
  /\ UNCHANGED <<messages, commands>>

\* While the model answers.
InterruptModel ==
  /\ pc \in {"chat", "summary", "autosummary", "counted", "autocounted"}
  /\ Interrupt
  /\ pc' = "idle"
  /\ UNCHANGED <<batch, task, disturbed>>

\* In a handler of an event or a save while no tool runs.
InterruptEvent ==
  /\ pc \in {"ready", "failed", "last"}
  /\ Interrupt
  /\ pc' = "idle"
  /\ UNCHANGED <<batch, task, disturbed>>

\* Mutant of InterruptQueue: the tasks are awaited without being cancelled.
InterruptQueueNoCancel ==
  /\ pc = "tools"
  /\ Interrupt
  /\ pc' = "gather"
  /\ UNCHANGED <<batch, task, disturbed>>

\* CancelledError in queue.get(): the tasks are cancelled and awaited.
InterruptQueue ==
  /\ pc = "tools"
  /\ Interrupt
  /\ pc' = "gather"
  /\ task' = [c \in CallIds |-> IF task[c] = "running" THEN "cancelled" ELSE task[c]]
  /\ UNCHANGED <<batch, disturbed>>

\* Mutant of Gathered: the cancelled tasks are not awaited.
GatheredAtOnce ==
  /\ pc = "gather"
  /\ pc' = "idle"
  /\ UNCHANGED <<messages, failed, batch, task, commands, used, disturbed>>

Gathered ==
  /\ pc = "gather" /\ BatchDone
  /\ pc' = "idle"
  /\ UNCHANGED <<messages, failed, batch, task, commands, used, disturbed>>

\* In a handler of an event or a save while tools run: the generators that own
\* the tasks are abandoned, and the turn is over at once.
InterruptToolEvent ==
  /\ pc = "tools"
  /\ Interrupt
  /\ pc' = "idle"
  /\ task' = [c \in CallIds |-> IF task[c] = "running" THEN "left" ELSE task[c]]
  /\ disturbed' = (disturbed \/ ~BatchDone)
  /\ UNCHANGED batch

\* The event loop closes an abandoned generator: GeneratorExit cancels its tasks.
Finalise ==
  /\ \E c \in CallIds : task[c] = "left"
  /\ task' = [c \in CallIds |-> IF task[c] = "left" THEN "cancelled" ELSE task[c]]
  /\ UNCHANGED <<messages, pc, failed, batch, commands, used, disturbed>>

\* A `!` command interrupts a turn, so that it starts without one, and the next
\* input cancels it; its result is added whenever it has ended.
StartCommand ==
  /\ pc = "idle" /\ used.commands < MaxCommands
  /\ used' = [used EXCEPT !.commands = @ + 1]
  /\ commands' = commands + 1
  /\ UNCHANGED <<messages, pc, failed, batch, task, disturbed>>

\* Mutant of InjectUserContext: a command reports again.
InjectAgain ==
  /\ commands' = commands - 1
  /\ Say(User)
  /\ disturbed' = (disturbed \/ pc \in {"failed", "tools", "gather"})
  /\ UNCHANGED <<pc, failed, batch, task, used>>

InjectUserContext ==
  /\ commands > 0
  /\ commands' = commands - 1
  /\ Say(User)
  /\ disturbed' = (disturbed \/ pc \in {"failed", "tools", "gather"})
  /\ UNCHANGED <<pc, failed, batch, task, used>>

-----------------------------------------------------------------------------
TurnStep ==
  \/ BeforeTurn \/ Answer \/ ChatFails \/ ReportFailed \/ StartTools \/ EndLLMTurn
  \/ AfterTurn \/ Summarised \/ EndCompact \/ CompactFails \/ Gathered

Next ==
  \/ Submit \/ TurnStep
  \/ StartCompact \/ Clear
  \/ \E c \in CallIds : EndTask(c)
  \/ InterruptModel \/ InterruptEvent \/ InterruptQueue \/ InterruptToolEvent
  \/ Finalise \/ StartCommand \/ InjectUserContext

Spec == Init /\ [][Next]_vars

\* The event loop runs finalisers and ready tasks; a cancelled tool ends.
Fairness ==
  /\ WF_vars(Gathered)
  /\ WF_vars(Finalise)
  /\ \A c \in CallIds : WF_vars(task[c] = "cancelled" /\ EndTask(c))

FairSpec == Spec /\ Fairness

-----------------------------------------------------------------------------
(* Properties. *)

\* The form that models accept: the responses to an assistant message follow it
\* at once, one for each of its calls, and no other response is there.
WellFormed(ms) ==
  /\ \A i \in 1..Len(ms) : ms[i].role = "assistant" =>
       /\ ms[i].calls = Responded(ms, i)
       /\ Cardinality(Block(ms, i)) = Cardinality(ms[i].calls)
  /\ \A j \in 1..Len(ms) : IsResponse(ms[j]) =>
       \E i \in 1..(j - 1) : ms[i].role = "assistant" /\ j \in Block(ms, i)

Requested == used'.requests > used.requests

\* Whatever was interrupted, compacted or refused before, every conversation
\* that is sent to the model has that form, until a tool is abandoned or the
\* result of a `!` command comes between a call and its response.
RequestsWellFormed == [][Requested /\ ~disturbed => WellFormed(messages')]_vars

Occurrences(r, c) == {i \in 1..Len(messages) : messages[i].role = r /\ messages[i].call = c}

\* A call is answered once by its tool, and once at most by a placeholder,
\* however late its task ends and however often the history is cleaned.
AnsweredOnce ==
  \A c \in CallIds :
    /\ Cardinality(Occurrences("tool", c)) <= 1
    /\ Cardinality(Occurrences("placeholder", c)) <= 1

\* A turn that is over, by an interrupt or not, has no tool that still runs, but
\* for those that were abandoned.
NothingRunsOn ==
  pc = "idle" /\ ~disturbed => \A c \in CallIds : task[c] \in {"none", "done"}

\* An interrupt comes to its end although tools may run for ever: the turn that
\* waits for its cancelled tools is over at some time, and so is every task
\* whose generator was abandoned.
InterruptsEnd ==
  /\ pc = "gather" ~> pc = "idle"
  /\ \A c \in CallIds : task[c] = "left" ~> task[c] = "done"

=============================================================================
